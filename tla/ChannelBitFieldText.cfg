CONSTANTS
  DataTypes <- MCDataTypes
  SampleValues <- MCSampleValues
  Thresholds <- MCThresholdFn
  PadOutcomes <- MCPadOutcomes
  ChannelConfigs <- BitFieldTextConfigs
  MaxCycles = 2

SPECIFICATION Spec

INVARIANT NoHang

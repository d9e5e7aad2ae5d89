CONSTANTS
  DataTypes <- MCDataTypes
  SampleValues <- MCSampleValues
  Thresholds <- MCThresholdFn
  PadOutcomes <- MCPadOutcomes
  ChannelConfigs <- FirstSampleConfigs
  MaxCycles = 2

SPECIFICATION Spec

PROPERTY FirstSampleRecorded

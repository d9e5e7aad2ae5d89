CONSTANTS
  DataTypes <- MCDataTypes
  SampleValues <- MCSampleValues
  Thresholds <- MCThresholdFn
  PadOutcomes <- ZeroPad
  ChannelConfigs <- SignedCharConfigs
  MaxCycles = 2

SPECIFICATION Spec

PROPERTY AlarmsFollowThresholds

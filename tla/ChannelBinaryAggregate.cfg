CONSTANTS
  DataTypes <- MCDataTypes
  SampleValues <- MCSampleValues
  Thresholds <- MCThresholdFn
  PadOutcomes <- MCPadOutcomes
  ChannelConfigs <- BinaryAggregateConfigs
  MaxCycles = 2

SPECIFICATION Spec

INVARIANT ChannelFileMatchesAggregate

CONSTANTS
  DataTypes <- MCDataTypes
  SampleValues <- MCSampleValues
  Thresholds <- MCThresholdFn
  PadOutcomes <- MCPadOutcomes
  ChannelConfigs <- AlarmChangeSaveConfigs
  MaxCycles = 2

SPECIFICATION Spec

INVARIANT TypeOK
INVARIANT RecordsFramed
INVARIANT AlarmsAnnounced
INVARIANT ChannelFileWholeCalls

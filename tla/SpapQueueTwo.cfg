CONSTANTS
  NumWorkers = 2
  NumChannels = 3
  Source <- TwoSource
  EdgeTargets <- TwoEdgeTargets
  InPorts <- TwoInPorts
  BatchSize <- TwoBatchSize
  MaxBatchSize = 2
  ChannelTable <- TwoTable
  ChannelBufferSize = 2
  MaxPushAttempts = 2
  EnqueueFrequency = 2
  StopCheckPeriod = 2
  MaxTasks = 4
  MaxChildren = 3
  Recycling = FALSE
  MayStop = TRUE
  StaleViews = TRUE

SPECIFICATION Spec
INVARIANTS
  TypeOK
  Account
  LocalCountCovered
  OutBufferRoom
  ZeroIffEmpty
PROPERTIES
  NeverRevived
  PoolSpec

CONSTANTS
  NumWorkers = 2
  NumChannels = 3
  Source <- TwoSource
  EdgeTargets <- TwoEdgeTargets
  InPorts <- TwoInPorts
  BatchSize <- LiveBatchSize
  MaxBatchSize = 2
  ChannelTable <- TwoTable
  ChannelBufferSize = 2
  MaxPushAttempts = 1
  EnqueueFrequency = 1
  StopCheckPeriod = 2
  MaxTasks = 4
  MaxChildren = 3
  Recycling = TRUE
  MayStop = TRUE
  StaleViews = FALSE

SPECIFICATION FairSpec
PROPERTIES
  Termination
  StopTerminates

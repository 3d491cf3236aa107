CONSTANTS
  NumWorkers = 2
  PushTargets = {1}
  MaxTasks = 3
  MaxRounds = 1
  CallsOutlastWait = FALSE

SPECIFICATION Spec
INVARIANT PushersFindWorker

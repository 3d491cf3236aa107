CONSTANTS
  NumWorkers = 2
  PushTargets = {}
  MaxTasks = 3
  MaxRounds = 1
  CallsOutlastWait = FALSE

SPECIFICATION Spec
INVARIANT LoadersFindWorker

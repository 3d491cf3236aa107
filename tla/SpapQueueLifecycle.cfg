CONSTANTS
  NumWorkers = 3
  PushTargets = {1, 2}
  MaxTasks = 3
  MaxRounds = 2
  CallsOutlastWait = FALSE

SPECIFICATION FairSpec
INVARIANTS
  TypeOK
  UsesLiveWorker
  ReusedIsNew
  FreedEmpty
PROPERTIES
  CallsReturn

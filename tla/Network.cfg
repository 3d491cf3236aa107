CONSTANTS
  NumWorkers = 3
  NumChannels = 4
  Multiplicities = {1}
  BatchSizes = {2}
  Parameters = {0, 2}

SPECIFICATION FairSpec
INVARIANTS
  OneProducerPerPort
  TargetsKept
  ValidIffUsable
  ConnectedCorrect
  LineIsLine
  LinePreservesUse
  FitForQueue
PROPERTIES
  Terminates

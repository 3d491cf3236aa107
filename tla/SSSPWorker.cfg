CONSTANTS
  Workers = {w1, w2}
  NumVertices = 4
  NumEdges = 4
  Infinity = 4

SPECIFICATION FairSpec
INVARIANTS
  NoImprovementLost
  AnswerCorrect
PROPERTIES
  Finishes
  CallsPool

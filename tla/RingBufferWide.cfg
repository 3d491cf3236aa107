CONSTANTS
  N = 3
  Modulus = 10
  Wide = TRUE
  Values = {a, b}
  NoValue = none
  Batches <- TwoToFour
  OldViews = TRUE

SPECIFICATION Spec
INVARIANTS
  NoDataRace
PROPERTIES
  IsChannel

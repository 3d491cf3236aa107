CONSTANTS
  N = 2
  Modulus = 8
  Wide = FALSE
  Values = {a, b}
  NoValue = none
  Batches <- OneTwo
  OldViews = TRUE

SPECIFICATION Spec
INVARIANTS
  TypeOK
  CountersOrdered
PROPERTIES
  SawIsKept
  RefusedOnlyIfFull
  IsChannel

CONSTANTS
  N = 2
  Modulus = 8
  Wide = FALSE
  Values = {a, b}
  NoValue = none
  Batches <- Three
  OldViews = FALSE

SPECIFICATION Spec
INVARIANTS
  OversizedRefused

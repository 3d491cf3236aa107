CONSTANTS
  NumWorkers = 10
  NumChannels = 30
  Multiplicities = {1}
  BatchSizes = {1}
  Parameters = {1}

SPECIFICATION ExampleSpec
INVARIANT IsPetersenGraph

SPECIFICATION Spec
CONSTANTS
  INT_MAX = 4
  Sizes = {1, 5}
  MaxBatches = 3
  MaxIterations = 2
INVARIANTS TypeOK MemorySafe NeverFails
PROPERTIES Implements

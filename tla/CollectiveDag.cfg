\* Every collective, root and size up to sixteen ranks.
SPECIFICATION Spec
CONSTANTS
  MaxN = 16
  Lengths = {1, 5}
INVARIANTS
  DagsMatch
  RaceFree
  DagsCompute
  Synchronises
CHECK_DEADLOCK FALSE

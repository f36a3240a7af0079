SPECIFICATION Spec
CONSTANTS
  MaxBuilt = 3
  MaxBatches = 1
  MaxStops = 1
INVARIANT
  BatchesAckedIsTotal
CHECK_DEADLOCK FALSE

SPECIFICATION Spec
CONSTANTS
  MaxBuilt = 5
  MaxBatches = 1
  MaxStops = 1
INVARIANT
  StopClosesAllHandles
CHECK_DEADLOCK FALSE

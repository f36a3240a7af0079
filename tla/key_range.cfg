SPECIFICATION Spec
CONSTANTS
  MaxByte = 2
  MaxLength = 3
INVARIANTS
  CoversSubspace
  RefusesOnlyUnbounded
CHECK_DEADLOCK FALSE

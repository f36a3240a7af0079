SPECIFICATION FairSpec
CONSTANTS
  MaxBuilt = 7
  MaxBatches = 2
  MaxStops = 2
INVARIANTS
  StopReleasesAll
  MetricsExact
PROPERTIES
  NothingAfterStop
  StopTerminates
  StopEndsRun
CHECK_DEADLOCK FALSE

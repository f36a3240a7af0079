SPECIFICATION FairSpec
CONSTANTS
  MaxVersion = 2
  EndOf <- EndOfIdleLast
  Oversized <- None
  TooLarge <- None
  Transactional = TRUE
  UseCursorFile = FALSE
  DirFsyncSupported = TRUE
  CommitRetries = 2
  AckRetries = 2
  MaxFaults = 5
INVARIANTS
  AtLeastOnce
PROPERTIES
  EventuallyReleased
  CommitResolves

SPECIFICATION Spec
CONSTANTS
  MaxVersion = 1
  EndOf <- EndOfOne
  Oversized <- None
  TooLarge <- None
  Transactional = FALSE
  UseCursorFile = TRUE
  DirFsyncSupported = TRUE
  CommitRetries = 2
  AckRetries = 2
  MaxFaults = 1
INVARIANTS
  ReleaseIsDurable

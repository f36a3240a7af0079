SPECIFICATION FairSpec
CONSTANTS
  MaxVersion = 2
  EndOf <- EndOfBusy
  Oversized <- None
  TooLarge <- Second
  Transactional = FALSE
  UseCursorFile = TRUE
  DirFsyncSupported = TRUE
  CommitRetries = 2
  AckRetries = 2
  MaxFaults = 0
PROPERTIES
  PoisonPillEscalated

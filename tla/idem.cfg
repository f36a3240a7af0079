SPECIFICATION FairSpec
CONSTANTS
  MaxVersion = 3
  EndOf <- EndOfAllBusy
  Oversized <- Third
  TooLarge <- None
  Transactional = FALSE
  UseCursorFile = TRUE
  DirFsyncSupported = FALSE
  CommitRetries = 2
  AckRetries = 2
  MaxFaults = 7
INVARIANTS
  IInv
  AtLeastOnce
  GapFree
  NeverPollsRefusing
PROPERTIES
  KeepsPromise
  NoRepublish
  EventuallyReleased

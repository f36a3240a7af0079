SPECIFICATION Spec
CONSTANTS
  MaxVersion = 4
  EndOf <- EndOfIdleMiddle
  Oversized <- Fourth
  TooLarge <- None
  Transactional = TRUE
  UseCursorFile = TRUE
  DirFsyncSupported = TRUE
  CommitRetries = 2
  AckRetries = 2
  MaxFaults = 7
INVARIANTS
  IInv
  AtLeastOnce
  CheckpointCovered
  GapFree
  TxnAtomic
  NeverPollsRefusing
  ProducerUsable
PROPERTIES
  KeepsPromise
  AckAfterSync
  TooOldByCrashOnly
  CommitInDoubtKept
  NoRepublish

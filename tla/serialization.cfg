SPECIFICATION Spec
CONSTANTS
  Payload <- MCPayload
  EndFields = 8
  LastVersion = 2
  Groups <- MCGroups
  Limits <- MCLimits
  Envelopes <- MCEnvelopes
  MaxRestarts = 2
  MaxNativeVersion = 3
  MaxSequenceNo = 4
  MaxTypeCode = 2
  MaxBatch = 2
CHECK_DEADLOCK FALSE
INVARIANTS
  RecordsFit
  FewestRecords
  RefusesOnlyUndeliverable
  ReaderContract
  ReleasedIsTaken
  VerifierExact
  ReadableIsWritable

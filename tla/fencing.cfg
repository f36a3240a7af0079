SPECIFICATION Spec
CONSTANTS
  b1 = b1
  b2 = b2
  Bridges <- TwoBridges
  MaxVersion = 3
  EndOf <- EndOfIdleMiddle
  MaxStarts = 3
SYMMETRY BridgeSymmetry
INVARIANTS
  ReleasedIsRead
  CursorIsRead
  LogHasNoGap
PROPERTIES
  FencedKeepsPromise
CHECK_DEADLOCK FALSE

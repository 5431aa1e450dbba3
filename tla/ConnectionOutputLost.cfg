CONSTANTS
  LeftoverEvent = "read"
  highWaterMark = 2
  SndBuf = 1
  MaxLen = 2
  MaxBytes = 3
  MaxQueued = 1
SPECIFICATION Spec
INVARIANT WriteEndClosesLast
CHECK_DEADLOCK FALSE

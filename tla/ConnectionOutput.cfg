CONSTANTS
  LeftoverEvent = "read"
  highWaterMark = 2
  SndBuf = 1
  MaxLen = 2
  MaxBytes = 3
  MaxQueued = 1
SPECIFICATION Spec
INVARIANTS TypeOK StreamIntact CompleteMeansWritten HighWaterOnce ClosedAfterOutput
PROPERTY AcceptedIsDelivered
CHECK_DEADLOCK FALSE

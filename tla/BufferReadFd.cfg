CONSTANTS
  kCheapPrepend = 1
  kInitialSize = 2
  MaxLen = 4
  MaxBytes = 11
SPECIFICATION Spec
INVARIANT ReadKeepsAll

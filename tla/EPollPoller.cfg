CONSTANTS
  c1 = c1
  c2 = c2
  c3 = c3
  d1 = d1
  d2 = d2
  Channels = {c1, c2, c3}
  Fds = {d1, d2}
  None = None
  InitEventListSize = 1
  kNew = kNew
  kAdded = kAdded
  kDeleted = kDeleted
SPECIFICATION Spec
INVARIANTS TypeOK RegistrationAgrees NeverFatal CapacityBounded
SYMMETRY ChannelFdSymmetry

CONSTANTS
  Base = base
  io1 = io1
  io2 = io2
  c1 = c1
  c2 = c2
  IoSeq <- TwoIo
  Conns = {c1, c2}
  Acceptor = acceptor
  Users = {u1}
  UserOps = {"shutdown"}
  ForeignOps = {"shutdown"}
  Stops = TRUE
  MaxQueued = 2
SPECIFICATION Safe
INVARIANTS TypeOK PollerPointsToLive ActiveIsLive GoneWasReported RoundRobin
SYMMETRY ConnSymmetry
CHECK_DEADLOCK FALSE

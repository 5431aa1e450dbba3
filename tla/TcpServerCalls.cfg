CONSTANTS
  Base = base
  io1 = io1
  io2 = io2
  c1 = c1
  c2 = c2
  IoSeq <- OneIo
  Conns = {c1}
  Acceptor = acceptor
  Users = {u1, u2}
  UserOps = {"shutdown"}
  ForeignOps = {"send", "shutdown"}
  Stops = TRUE
  MaxQueued = 3
SPECIFICATION Spec
INVARIANTS PollerPointsToLive UpThenDownOnce
PROPERTIES ClosedIsFreed AcceptedIsEstablished
CHECK_DEADLOCK FALSE

CONSTANTS
  Base = base
  io1 = io1
  io2 = io2
  c1 = c1
  c2 = c2
  IoSeq <- OneIo
  Conns = {c1}
  Acceptor = acceptor
  Users = {u1}
  UserOps = {}
  ForeignOps = {"shutdown"}
  Stops = FALSE
  MaxQueued = 2
SPECIFICATION Safe
INVARIANT BareFunctorsFindLive
CHECK_DEADLOCK FALSE

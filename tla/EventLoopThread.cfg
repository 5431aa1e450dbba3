CONSTANTS
  LoopThread = loop
  Owner = owner
  f1 = f1
  f2 = f2
  f3 = f3
  Callers = {owner}
  Functors = {f1, f2, f3}
  EarlyFunctors = {f1}
  IoChannels = {io}
  WakeupChannel = wakeup
SPECIFICATION TSpec
INVARIANTS TTypeOK ReturnedLoopIsUsable UndefinedOnlyAfterQuit
PROPERTIES StartLoopReturns DestructorEnds
CHECK_DEADLOCK FALSE

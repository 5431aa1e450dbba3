CONSTANTS
  LoopThread = loop
  c1 = c1
  c2 = c2
  f1 = f1
  f2 = f2
  f3 = f3
  Callers = {c1, c2}
  Functors = {f1, f2, f3}
  EarlyFunctors = {}
  IoChannels = {io}
  WakeupChannel = wakeup
SPECIFICATION Spec
INVARIANTS TypeOK NeverSleepsOnWork
PROPERTY Implements
CHECK_DEADLOCK FALSE

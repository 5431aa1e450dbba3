CONSTANTS
  Nobody = Nobody
  main = main
  inventory = inventory
  r1 = r1
  r2 = r2
  Requests <- MCRequests
SPECIFICATION Spec
INVARIANTS TypeOK HolderIsTrue PrintedIsAlive
PROPERTY EndsOrDeadlocks
CHECK_DEADLOCK FALSE

CONSTANTS
  idle = idle
  t1 = t1
  t2 = t2
  t3 = t3
  Task <- MCTask
  Idle = idle
  NULL = NULL
  MaxPid = 4
  Nodes = 3
SPECIFICATION Spec
CONSTRAINT Whole
SYMMETRY MCSymmetry
CHECK_DEADLOCK FALSE
INVARIANTS ReadyIsQueued OneRunning OwnContext NeverWild LivePidsReserved

CONSTANTS
  idle = idle
  t1 = t1
  t2 = t2
  t3 = t3
  Task <- MCTask
  Idle = idle
  NULL = NULL
  MaxPid = 5
  Nodes = 2
SPECIFICATION SeenSpec
CHECK_DEADLOCK FALSE
PROPERTIES ImplementsSched CallsEnd

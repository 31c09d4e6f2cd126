CONSTANTS
  idle = idle
  t1 = t1
  t2 = t2
  t3 = t3
  Task <- MCPair
  Idle = idle
  NULL = NULL
  MaxPid = 4
  Nodes = 2
SPECIFICATION FairSpec
CHECK_DEADLOCK FALSE
PROPERTY TerminationProceeds

SPECIFICATION Spec
CONSTANTS
  idle = idle
  t1 = t1
  t2 = t2
  t3 = t3
  NULL = NULL
  Task <- MCTask
  Idle = idle
  MaxPid = 5
  Nodes = 3
  VrMod = 4
  DeltaFair = {0, 1, 2, 3}
SYMMETRY MCSymmetry
INVARIANTS QueueIsReady PidsExact FindFindsLive QueueAboveMin NeverPanics Inv
PROPERTY ZombiesStayDead

CONSTANTS
  Task <- MCTask
  NULL = NULL
  Vruntime <- MCVruntime
  Nodes = 10
  Weights = {15, 1024}
  Reniced = {3}
  MaxRenice = 1
  Fanout = 4
  Linear = 2
  Identity = 2
  Kernel <- MCKernel
  Top = 14
  Areas <- MCAreas
  Frame = 20
  Attrs <- MCAttrs
  NewAttrs <- MCNewAttrs
  Protected = {4}
  VmaNodes = 10
  BootFrames = {1, 8}
  Frames = {0, 3}
SPECIFICATION TreesSpec
CHECK_DEADLOCK FALSE
INVARIANTS TreeSound LeftmostIsFirst VmaTreeSound EntriesFollowVmas
PROPERTIES LoadIsSum ImplementsQueue ImplementsVmaSet

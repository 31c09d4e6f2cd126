CONSTANTS
  t1 = t1
  t2 = t2
  Task <- MCTask
  NULL = NULL
  Blocks = 4
  Start = 1
  End = 12
  Sizes = {1, 2}
  Pages = {10}
  VmaNodes = 20
  Fanout = 8
SPECIFICATION Spec
SYMMETRY MCSymmetry
CHECK_DEADLOCK FALSE
INVARIANT NoLeaks

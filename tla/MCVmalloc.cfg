CONSTANTS
  t1 = t1
  t2 = t2
  Task <- MCTask
  NULL = NULL
  Blocks = 3
  Start = 1
  End = 13
  Sizes = {1, 2}
  Pages = {8, 10}
  VmaNodes = 7
  Fanout = 8
SPECIFICATION Spec
SYMMETRY MCSymmetry
CHECK_DEADLOCK FALSE
INVARIANTS Exclusive PagesAccounted MappedAsHeld NoLeaksUnmerged

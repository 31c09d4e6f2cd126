CONSTANTS
  RingSize = 8
  Byte = 3
  Levels = {0, 1}
  Info = 0
  Messages <- MCMessages
  BufLens = {0, 1, 3, 8}
  c1 = c1
  c2 = c2
  Caller <- MCCaller
  NULL = NULL
  Calls <- MCCalls
  BufSize = 4
SPECIFICATION LogSpec
CHECK_DEADLOCK FALSE
INVARIANTS Framed AloneMeansIntact
PROPERTY ImplementsQueue

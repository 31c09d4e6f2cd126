CONSTANTS
  PageSize = 4
  MaxPages = 7
  Rams <- MCRams
  Fallback <- MCFallback
  Ranges <- MCRanges
  LowSize = 2
  MaxCount = 3
SPECIFICATION ScanSpec
CHECK_DEADLOCK FALSE
INVARIANTS FreeCountExact Exclusive ReservedCovered NoneMeansNone
PROPERTY ImplementsPmm

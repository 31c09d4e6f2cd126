CONSTANTS
  idle = idle
  t1 = t1
  t2 = t2
  Task <- MCTask
  Idle = idle
  NULL = NULL
SPECIFICATION FairSpec
CHECK_DEADLOCK FALSE
INVARIANTS OnlyKnownLosses EntryIsOwn MaskedOnlyAfterSvcExit
PROPERTY TicksGoOn

SPECIFICATION FairSpec
CONSTANTS
  c1 = c1
  c2 = c2
  server = server
  hook = hook
  None = None
  Callers = {c1, c2}
  MaxCalls = 3
  Server = server
  Others = {hook}
  Kinds = {"indexAll", "indexFiles"}
  CanCrash = TRUE
  CanOutlive = TRUE
INVARIANT LocksInv
PROPERTY IsExclusive
PROPERTY LocksYield
CHECK_DEADLOCK FALSE

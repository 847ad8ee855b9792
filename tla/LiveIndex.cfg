SPECIFICATION FairSpec
CONSTANTS
  f1 = f1
  a = a
  b = b
  None = None
  Files = {f1}
  Contents = {a, b}
  Rejected = {b}
  Ops = {"sync", "indexAll", "indexFiles"}
  MaxEdits = 2
  MaxCrashes = 1
INVARIANT RecordInv
INVARIANT StaleIsFlagged
PROPERTY SyncNeverMisdates
PROPERTY PendingServed
CHECK_DEADLOCK FALSE

SPECIFICATION FairSpec
CONSTANTS
  Sessions = {s1, s2}
  Calls = {c1, c2}
  None = None
  Root = Root
  Cwd = Cwd
  MaxFailures = 1
  MaxChanges = 1
\* A server stops.
CHECK_DEADLOCK FALSE
INVARIANT ConnectionInv
PROPERTY NoticeFromWatcher
PROPERTY NothingHangs

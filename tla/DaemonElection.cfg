SPECIFICATION Spec
CONSTANTS
  p1 = p1
  p2 = p2
  p3 = p3
  l1 = l1
  l2 = l2
  None = None
  Procs = {p1, p2, p3}
  OtherVersion = {p3}
  Launchers = {l1, l2}
  MaxAttempts = 2
  MaxProbes = 1
  MaxCrashes = 2
SYMMETRY Symmetry
INVARIANT ElectionSafe
INVARIANT DaemonIsShared

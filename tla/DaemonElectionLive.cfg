SPECIFICATION FairSpec
CONSTANTS
  p1 = p1
  p2 = p2
  l1 = l1
  l2 = l2
  None = None
  Procs = {p1,p2}
  OtherVersion = {}
  Launchers = {l1,l2}
  MaxAttempts = 2
  MaxProbes = 2
  MaxCrashes = 2
PROPERTY ElectionSettles

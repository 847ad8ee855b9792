SPECIFICATION FairSpec
CONSTANTS
  N = 3
  Inputs <- MCInputs
  Interval = 2
  None = None
INVARIANT ParseInv
PROPERTY IndexAllEnds

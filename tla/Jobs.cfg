SPECIFICATION Spec
CONSTANTS
  Wikis = {en}
  English = en
  en = en
  x1 = x1
  Exports = {x1}
  Sections <- SmallSections
  Plans <- SmallPlans
  Formats <- TwoFormats
  Intervals = 2
  MaxJobs = 2
  MaxTokens = 1
  Attempts = 2
CHECK_DEADLOCK FALSE
INVARIANT JobsInv
INVARIANT TokenIsKept
PROPERTY OutcomeStands
PROPERTY WaitingEnds

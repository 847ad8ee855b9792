SPECIFICATION MCSpec
CONSTANTS
  p1 = p1
  p2 = p2
  app = app
  lib = lib
  test = test
  f1 = f1
  f2 = f2
  b1 = b1
  b2 = b2
  b3 = b3
  r1 = r1
  r2 = r2
  None = None
  Orphan = Orphan
  Sources = {f1, f2}
  Scripts = {f1}
  Builds = {b1, b2, b3}
  Requests = {r1, r2}
  NodeLimits = {1, 2}
  Procs = {p1, p2}
  Nothing = Nothing
  Levels = 2
  Files = {app}
  Calls <- MCCalls
  Questions <- MCQuestions
INVARIANT SnapshotsInv
INVARIANT ProjectInv
INVARIANT QuestionsInv
PROPERTY AskServed

SPECIFICATION ResolutionFairSpec
CONSTANTS
  Files = {1, 2, 3}
  save = save
  store = store
  Store = Store
  _db = _db
  Names = {save, store, Store, _db}
  Lang <- MCLang
  Dir <- MCDir
  Capital <- MCCapital
  Lower <- MCLower
  Words <- MCWords
  Choices <- MCChoices
  Dispatch <- MCDispatch
  Batch = 2
  MaxEdits = 1
  None = None
  Ops = {"indexAll", "sync", "indexFiles", "resolveReferences", "clear", "kill"}
INVARIANT EdgesInv
INVARIANT OperationsResolve
PROPERTY OperationsEnd

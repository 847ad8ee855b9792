SPECIFICATION MCSpec
CHECK_DEADLOCK FALSE
CONSTANTS
    request = request
    execute = execute
    prepare = prepare
    transport = transport
    base = base
    search = search
    import = import
    test = test
    helper = helper
    Rows <- MCRows
    Place <- MCPlace
    Scope <- MCScope
    Span <- MCSpan
    Lines <- MCLines
    Mentions <- MCMentions
    Typos <- MCTypos
    Worlds <- MCWorlds
    LineOf <- MCLineOf
    Asks <- MCAsks
    Distinctive = 2
    MinPerName = 2
    PerFile = 2
    NonProd = 1
    Common <- MCCommon
    LowValue = {"request.test.ts"}
    Padding = 1
    GlueCap = 2
    Wide = 4
    Narrow = 2
    MaxSteps = 4
    FewHits = 1
    None = None
    Log <- MCLog
    Default = "main"
    Focuses = {"f", "g"}
    Files = {"x", "y"}
    Questions = {"p", "q"}
    Kinds = {"none", "codex-oauth", "openai"}
    Opened <- MCOpened
    MaxProbes = 1
    MaxActs = 3
    MaxCalls = 2
INVARIANT ContextInv
INVARIANT CallPathsAreFlows
INVARIANT ToolsInv
INVARIANT PagesShow
INVARIANT SpinnersEnd

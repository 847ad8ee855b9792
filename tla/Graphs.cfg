SPECIFICATION MCSpec
SYMMETRY MCSymmetry
CHECK_DEADLOCK FALSE
CONSTANTS
    f1 = f1
    f2 = f2
    g = g
    h = h
    nameF = nameF
    nameG = nameG
    nameH = nameH
    cls = cls
    run = run
    log = log
    sub = sub
    gone = gone
    route = route
    api = api
    work = work
    Absent = Absent
    Rows <- MCRows
    SemanticId <- MCSemanticId
    Links <- MCLinks
    Attrs = {old, new}
    Nodes <- MCNodes
    Containers <- MCContainers
    Relations <- MCRelations
    Asks <- MCAsks
    Unlimited <- MCUnlimited
    Followed = {"calls", "imports"}
INVARIANT CompareInv
INVARIANT BlastRadius
INVARIANT WalksAnswer
INVARIANT PictureIsWhole

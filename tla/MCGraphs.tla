------------------------------ MODULE MCGraphs ------------------------------
(* The algorithms that answer one request over one graph, in one run: a     *)
(* behaviour is one comparison of commits, one walk or one picture.         *)
(*                                                                          *)
(* The comparison has four symbols, two of which share a qualified name; a  *)
(* followed chain and a containment that the walk does not follow.  The     *)
(* values of the fields are only compared for equality, so they may be      *)
(* permuted.                                                                *)
EXTENDS Compare, Traversal, TLC

CONSTANTS f1, f2, g, h, nameF, nameG, nameH, cls, run, log, sub, gone, route, api, work

VARIABLES
    request,   \* which algorithm runs
    snap, asked, stageOfPage, jobs, queueOfPage, tree, trees, view, prev, path   \* of the picture

MCRows == <<f1, g, f2, h>>
MCSemanticId ==
    [s \in {f1, f2, g, h} |->
        CASE s \in {f1, f2} -> nameF [] s = g -> nameG [] s = h -> nameH]
MCLinks ==
    {<<f2, g, "calls">>, <<g, h, "imports">>, <<h, f1, "contains">>}

MCSymmetry == Permutations(Attrs)

Inputs == INSTANCE MCGraphInputs
MCNodes == Inputs!All
MCContainers == {cls, sub}
MCRelations == Inputs!Drawable
MCAsks == Inputs!WalkAsks
MCUnlimited == Inputs!NoLimit

Page == INSTANCE Panorama WITH
    Ids <- Inputs!Ids, Rank <- Inputs!Rank, Pairs <- Inputs!Pairs, Asks <- Inputs!PageAsks,
    Budget <- Inputs!Budget, ask <- asked, pc <- stageOfPage, queue <- queueOfPage

compareVars == <<base, head, pc, diff, queue, affected>>
pageVars == <<snap, asked, stageOfPage, jobs, queueOfPage, tree, trees, view, prev, path>>
all == <<request, compareVars, walkVars, pageVars>>

\* What is not requested stands still.
Nothing == [symbols |-> [s \in Symbols |-> Absent], edges |-> {}]
NoComparison == base = Nothing /\ head = Nothing /\ pc = "ready" /\ diff = NoDiff /\ queue = <<>> /\ affected = {}
NoWalk == graph = {} /\ query = (CHOOSE a \in Asks : TRUE) /\ WalkInit
NoPage ==
    /\ snap = Absent /\ asked = Absent /\ stageOfPage = "ready" /\ jobs = <<>> /\ queueOfPage = <<>> /\ tree = Absent
    /\ trees = Absent /\ view = Absent /\ prev = <<>> /\ path = <<>>

MCInit ==
    \/ request = "compare" /\ Init /\ NoWalk /\ NoPage
    \/ request = "walk" /\ WalkInit /\ NoComparison /\ NoPage
    \/ request = "page" /\ Page!Init /\ NoComparison /\ NoWalk

MCNext ==
    /\ UNCHANGED request
    /\ \/ request = "compare" /\ Next /\ UNCHANGED <<walkVars, pageVars>>
       \/ request = "walk" /\ WalkNext /\ UNCHANGED <<compareVars, pageVars>>
       \/ request = "page" /\ Page!Next /\ UNCHANGED <<compareVars, walkVars>>

MCSpec == MCInit /\ [][MCNext]_all

(* A call tree keeps its bounds and is whole where they do not bind, the    *)
(* delta view shows the changes and what hangs together with them, and the  *)
(* highlighted path is a shortest chain of calls (codedelta-graph-subgraph).*)
PictureIsWhole == request = "page" => Page!PictureIsWhole
============================================================================

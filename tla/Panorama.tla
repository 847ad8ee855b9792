------------------------------ MODULE Panorama ------------------------------
(***************************************************************************)
(* The part of a graph that a page draws (packages/codedelta-graph-        *)
(* subgraph/src/index.ts, as the server's services/panorama.ts calls it):  *)
(* call trees of bounded depth and size grow from the entry points or from *)
(* one root, the delta view lays the changes of two commits over them and  *)
(* keeps what hangs together with a change, and a trace highlights a path  *)
(* from an entry to the symbols of a question.                             *)
(*                                                                         *)
(* A behaviour is one request; a step is one iteration of buildCallTree's  *)
(* loop or one of the stages behind it.  The layout, the roles leaf and    *)
(* bridge and the catalogue of entries are not modelled.                   *)
(***************************************************************************)
EXTENDS Integers, Sequences, FiniteSets, SequencesExt, TLC

CONSTANTS
    Ids,      \* the semantic ids, in the order of the rows and of the names
    Rank,     \* entryPriority of each: 0 to 2, or 99
    Pairs,    \* [base, head] snapshots: nodes [id -> attribute or Absent], edges
    Asks,     \* [delta, root, depth, max, seeds, trace]; ids where
              \* the request has a query that resolveNodeQuery resolves
    Budget,   \* [entries, perRoot, deltaPerRoot, bonus, extra, perExtra, sparse]
    Absent    \* no such node, no root

VARIABLES
    snap,     \* the two snapshots; a request for one commit looks at the head
    ask,      \* the request
    pc,       \* "ready", "growing", "merged", "drawn", "joining" or "done"
    jobs,     \* call trees to grow: [root, depth, max, main]; then pairs to join
    queue,    \* of the first of them: [id, depth]
    tree,     \* what it has so far: [nodes, edges, truncated]
    trees,    \* those that are grown, merged, and their roots
    view,     \* [nodes, edges]: what is drawn
    prev,     \* findPath: the ids reached, from where
    path      \* the ids of the highlighted path

vars == <<snap, ask, pc, jobs, queue, tree, trees, view, prev, path>>

base == snap.base
head == snap.head
Present(s) == {i \in ToSet(Ids) : s.nodes[i] # Absent}
Kinds == {"calls", "references"}

\* The edges <<source, target, kind>> of a snapshot, by source.
Outgoing(s, i, kinds) == SelectSeq(s.edges, LAMBDA e : e[1] = i /\ e[3] \in kinds)
Edges(s) == ToSet(s.edges)

\* Nodes are in the order they came.
NoTree == [nodes |-> <<>>, edges |-> {}, truncated |-> FALSE]
Grown(t) == ToSet(t.nodes)
NewTo(s, i) == i \notin ToSet(s)
Take(s, n) == SubSeq(s, 1, IF Len(s) < n THEN Len(s) ELSE n)
AtLeast(n, m) == IF n > m THEN n ELSE m

Init ==
    /\ snap \in Pairs
    /\ ask \in Asks
    /\ pc = "ready"
    /\ jobs = <<>>
    /\ queue = <<>>
    /\ tree = NoTree
    /\ trees = [nodes |-> <<>>, edges |-> {}, truncated |-> FALSE, roots |-> {}]
    /\ view = [nodes |-> <<>>, edges |-> {}]
    /\ prev = <<>>
    /\ path = <<>>
----------------------------------------------------------------------------
(* The differences of the two snapshots (computeGraphDiff).                *)

Added == Present(head) \ Present(base)
Removed == Present(base) \ Present(head)
Modified == {i \in Present(head) \cap Present(base) : base.nodes[i] # head.nodes[i]}
AddedEdges == Edges(head) \ Edges(base)
RemovedEdges == Edges(base) \ Edges(head)

Ends(E) == {e[1] : e \in E} \union {e[2] : e \in E}
----------------------------------------------------------------------------
(* Where the trees start.                                                  *)

Callers(s, i) == {e \in Edges(s) : e[2] = i /\ e[3] \in Kinds}

\* detectEntryPoints: routes, components, exported functions nobody calls.
Entries(s) ==
    LET some == {i \in Present(s) : Rank[i] <= 1 \/ (Rank[i] = 2 /\ Callers(s, i) = {})}
        Of(r) == SelectSeq(Ids, LAMBDA i : i \in some /\ Rank[i] = r)
    IN Of(0) \o Of(1) \o Of(2)

\* The ids that edges of E join to S, in any number of steps.
Joined(E, S) ==
    LET r[k \in 0..Len(Ids)] ==
          IF k = 0 THEN S
          ELSE UNION {T \union Ends({e \in E : e[1] \in T \/ e[2] \in T}) : T \in {r[k - 1]}}
    IN r[Len(Ids)]

\* buildDeltaPanoramaGraph: the asked root, or the seeds, else what is affected
\* by a change and an entry in some way, else the entry points.  There are fewer
\* ids than the twenty affected ones it looks at.
Impacted ==
    Joined({e \in Edges(head) : e[3] \in {"calls", "imports"}},
           Added \union Modified \union Removed \union Ends(AddedEdges \union RemovedEdges))
Seeds ==
    LET asked == SelectSeq(IF ask.root # Absent THEN <<ask.root>> ELSE ask.seeds,
                           LAMBDA i : i \in Present(head))
        changed == SelectSeq(Ids, LAMBDA i : i \in Impacted \cap Present(head) /\ Rank[i] <= 2)
    IN IF asked # <<>> THEN asked ELSE IF changed # <<>> THEN changed
       ELSE Take(Entries(head), Budget.entries)

Share(roots, least) == AtLeast(least, ask.max \div AtLeast(1, Len(roots)))

Jobs(roots, depth, max, main) ==
    [k \in DOMAIN roots |-> [root |-> roots[k], depth |-> depth, max |-> max, main |-> main]]

Start ==
    /\ pc = "ready"
    /\ pc' = "growing"
    /\ jobs' = IF ask.delta
               THEN LET roots == Take(Seeds, Budget.entries)
                    IN Jobs(roots, ask.depth, Share(roots, Budget.deltaPerRoot), FALSE)
               ELSE IF ask.root # Absent
               THEN Jobs(SelectSeq(<<ask.root>>, LAMBDA i : i \in Present(head)), ask.depth, ask.max, FALSE)
               ELSE LET roots == Take(Entries(head), Budget.entries)
                    IN Jobs(roots, ask.depth + Budget.bonus, Share(roots, Budget.perRoot), TRUE)
    /\ UNCHANGED <<snap, ask, queue, tree, trees, view, prev, path>>
----------------------------------------------------------------------------
(* buildCallTree.                                                          *)

Job == Head(jobs)

Plant ==
    /\ pc = "growing"
    /\ jobs # <<>>
    /\ queue = <<>>
    /\ tree = NoTree
    /\ queue' = <<[id |-> Job.root, depth |-> 0]>>
    /\ UNCHANGED <<snap, ask, pc, jobs, tree, trees, view, prev, path>>

Full == Len(tree.nodes) >= Job.max

\* An id may be queued twice: the second time it is passed over.
PassOver ==
    /\ Head(queue).id \in Grown(tree)
    /\ queue' = Tail(queue)
    /\ UNCHANGED tree

\* The loop ends for good.
StopFull ==
    /\ Head(queue).id \notin Grown(tree)
    /\ Full
    /\ queue' = <<>>
    /\ tree' = [tree EXCEPT !.truncated = TRUE]

\* The edges of a node are kept with or without their target, which is queued
\* while there is room for all that is queued.
Grow_Unbounded ==
    LET i == Head(queue).id
        out == IF Head(queue).depth > Job.depth THEN <<>> ELSE Outgoing(head, i, Kinds)
        nodes == Append(tree.nodes, i)
        room == AtLeast(0, Job.max - Len(nodes) - Len(queue) + 1)
        fresh == SelectSeq(out, LAMBDA e : NewTo(nodes, e[2]))
    IN /\ NewTo(tree.nodes, i)
       /\ ~Full
       /\ queue' = Tail(queue) \o
             [k \in DOMAIN Take(fresh, room) |-> [id |-> fresh[k][2], depth |-> Head(queue).depth + 1]]
       /\ tree' = [nodes |-> nodes, edges |-> tree.edges \union ToSet(out),
                   truncated |-> tree.truncated \/ (out # <<>> /\ Len(nodes) >= Job.max)]
Grow ==
    LET i == Head(queue).id
        out == IF Head(queue).depth >= Job.depth THEN <<>> ELSE Outgoing(head, i, Kinds)
        nodes == Append(tree.nodes, i)
        room == AtLeast(0, Job.max - Len(nodes) - Len(queue) + 1)
        fresh == SelectSeq(out, LAMBDA e : NewTo(nodes, e[2]))
    IN /\ NewTo(tree.nodes, i)
       /\ ~Full
       /\ queue' = Tail(queue) \o
             [k \in DOMAIN Take(fresh, room) |-> [id |-> fresh[k][2], depth |-> Head(queue).depth + 1]]
       /\ tree' = [nodes |-> nodes, edges |-> tree.edges \union ToSet(out),
                   truncated |-> tree.truncated \/ (out # <<>> /\ Len(nodes) >= Job.max)]

TakeFromQueue ==
    /\ pc = "growing"
    /\ queue # <<>>
    /\ PassOver \/ StopFull \/ Grow
    /\ UNCHANGED <<snap, ask, pc, jobs, trees, view, prev, path>>

\* expandSparseEntryTree: around a small tree of the overview further trees
\* grow from the targets it lacks, those of the root first.
Lacking ==
    LET from == <<Job.root>> \o SelectSeq(tree.nodes, LAMBDA i : i # Job.root)
        targets == FlattenSeq([k \in DOMAIN from |->
                       [n \in DOMAIN Outgoing(head, from[k], Kinds) |-> Outgoing(head, from[k], Kinds)[n][2]]])
        lacking == SelectSeq(targets, LAMBDA i : NewTo(tree.nodes, i))
    IN FoldLeft(LAMBDA acc, i : IF NewTo(acc, i) THEN Append(acc, i) ELSE acc, <<>>, lacking)
Extra ==
    IF ~Job.main \/ Len(tree.nodes) >= Budget.sparse THEN <<>>
    ELSE LET roots == Take(Lacking, Budget.extra)
         IN Jobs(roots, 2, AtLeast(Budget.perExtra, Budget.extra \div AtLeast(1, Len(roots))), FALSE)

\* mergeTrees
Merge ==
    /\ pc = "growing"
    /\ jobs # <<>>
    /\ queue = <<>>
    /\ tree # NoTree
    /\ trees' = [nodes |-> trees.nodes \o SelectSeq(tree.nodes, LAMBDA i : NewTo(trees.nodes, i)),
                 edges |-> trees.edges \union tree.edges,
                 truncated |-> trees.truncated \/ tree.truncated,
                 roots |-> trees.roots \union {Job.root}]
    /\ jobs' = Extra \o Tail(jobs)
    /\ tree' = NoTree
    /\ UNCHANGED <<snap, ask, pc, queue, view, prev, path>>

AllMerged ==
    /\ pc = "growing"
    /\ jobs = <<>>
    /\ pc' = "merged"
    /\ view' = [nodes |-> trees.nodes, edges |-> trees.edges]
    /\ UNCHANGED <<snap, ask, jobs, queue, tree, trees, prev, path>>
----------------------------------------------------------------------------
(* The delta view.                                                         *)

\* applyDeltaOverlay: whatever was removed is added to what is drawn.
Overlaid ==
    [nodes |-> view.nodes \o SelectSeq(Ids, LAMBDA i : i \in Removed /\ NewTo(view.nodes, i)),
     edges |-> view.edges \union RemovedEdges]

ChangedIn(v) == ToSet(v.nodes) \intersect (Added \union Removed \union Modified)
ChangedEdgesIn(v) == v.edges \intersect (AddedEdges \union RemovedEdges)

\* filterDeltaRelevant: what hangs together with a changed node.
Filtered(v) ==
    IF ChangedIn(v) = {} /\ ChangedEdgesIn(v) = {} THEN v
    ELSE LET keep == Joined(v.edges, ChangedIn(v))
         IN [nodes |-> SelectSeq(v.nodes, LAMBDA i : i \in keep),
             edges |-> {e \in v.edges : e[1] \in keep /\ e[2] \in keep}]

Draw ==
    /\ pc = "merged"
    /\ pc' = "drawn"
    /\ view' = IF ask.delta THEN Filtered(Overlaid) ELSE view
    /\ UNCHANGED <<snap, ask, jobs, queue, tree, trees, prev, path>>
----------------------------------------------------------------------------
(* applyTraceHighlight and findPath, in the snapshot of the head.          *)

Shown(S) == SelectSeq(view.nodes, LAMBDA i : i \in S)
Targets == SelectSeq(ask.trace, LAMBDA i : i \in Present(head) /\ ~NewTo(view.nodes, i))

Highlight ==
    /\ pc = "drawn"
    /\ pc' = "joining"
    /\ jobs' = FlattenSeq([k \in DOMAIN Shown(trees.roots) |->
                  [n \in DOMAIN Targets |-> [from |-> Shown(trees.roots)[k], to |-> Targets[n]]]])
    /\ UNCHANGED <<snap, ask, queue, tree, trees, view, prev, path>>

Seek ==
    /\ pc = "joining"
    /\ jobs # <<>>
    /\ prev = <<>>
    /\ queue' = <<Job.from>>
    /\ prev' = [i \in {Job.from} |-> Absent]
    /\ UNCHANGED <<snap, ask, pc, jobs, tree, trees, view, path>>

\* The way back from the target.
Trail ==
    LET up[k \in 0..Len(Ids)] == IF k = 0 THEN Job.to ELSE prev[up[k - 1]]
        n == CHOOSE k \in 0..Len(Ids) : up[k] = Job.from /\ \A j \in 0..(k - 1) : up[j] # Job.from
    IN [k \in 1..(n + 1) |-> up[n + 1 - k]]

SeekOn ==
    /\ pc = "joining"
    /\ prev # <<>>
    /\ queue # <<>>
    /\ Head(queue) # Job.to
    /\ LET i == Head(queue)
           new == SelectSeq(Outgoing(head, i, {"calls"}), LAMBDA e : e[2] \notin DOMAIN prev)
       IN /\ prev' = prev @@ [j \in Ends(ToSet(new)) |-> i]
          /\ queue' = Tail(queue) \o [k \in DOMAIN new |-> new[k][2]]
    /\ UNCHANGED <<snap, ask, pc, jobs, tree, trees, view, path>>

PathFound ==
    /\ pc = "joining"
    /\ prev # <<>>
    /\ queue # <<>>
    /\ Head(queue) = Job.to
    /\ path' = Trail
    /\ pc' = "done"
    /\ UNCHANGED <<snap, ask, jobs, queue, tree, trees, view, prev>>

NoPath ==
    /\ pc = "joining"
    /\ prev # <<>>
    /\ queue = <<>>
    /\ jobs' = Tail(jobs)
    /\ prev' = <<>>
    /\ UNCHANGED <<snap, ask, pc, queue, tree, trees, view, path>>

NothingToJoin ==
    /\ pc = "joining"
    /\ jobs = <<>>
    /\ pc' = "done"
    /\ UNCHANGED <<snap, ask, jobs, queue, tree, trees, view, prev, path>>

Next ==
    \/ Start \/ Plant \/ TakeFromQueue \/ Merge \/ AllMerged
    \/ Draw \/ Highlight \/ Seek \/ SeekOn \/ PathFound \/ NoPath \/ NothingToJoin

Spec == Init /\ [][Next]_vars
----------------------------------------------------------------------------
(* Properties.                                                             *)

TypeOK ==
    /\ pc \in {"ready", "growing", "merged", "drawn", "joining", "done"}
    /\ IsInjective(tree.nodes) /\ IsInjective(trees.nodes) /\ IsInjective(view.nodes)
    /\ Grown(tree) \union Grown(trees) \subseteq Present(head)
    /\ ToSet(view.nodes) \subseteq Present(head) \union Present(base)
    /\ DOMAIN prev \subseteq Present(head)
    /\ ToSet(path) \subseteq Present(head)

\* The ids within d steps of those of S.
Within(s, S, d, kinds) ==
    LET r[k \in 0..d] ==
          IF k = 0 THEN S
          ELSE UNION {T \union {e[2] : e \in {f \in Edges(s) : f[1] \in T /\ f[3] \in kinds}} : T \in {r[k - 1]}}
    IN r[d]

(* A call tree holds no more nodes than its budget, none beyond its depth  *)
(* and none its own edges do not lead to.  It is said to be cut only where *)
(* the budget is used up, and it is whole, nothing within the depth is     *)
(* missing, where the budget exceeds the edges it keeps: an id waits in    *)
(* the queue once for every edge into it, so the room may be gone earlier  *)
(* (buildCallTree).                                                        *)
TreeIsWhole ==
    pc = "growing" /\ queue = <<>> /\ tree # NoTree =>
        LET all == Within(head, {Job.root}, Job.depth, Kinds)
            inside == {e \in tree.edges : {e[1], e[2]} \subseteq Grown(tree)}
        IN /\ Grown(tree) \subseteq all
           /\ Len(tree.nodes) <= Job.max
           /\ \A S \in SUBSET Grown(tree) :
                 Job.root \in S /\ (\A e \in inside : e[1] \in S => e[2] \in S) => S = Grown(tree)
           /\ tree.truncated => Len(tree.nodes) = Job.max
           /\ Cardinality(tree.edges) < Job.max => all = Grown(tree) /\ ~tree.truncated

(* The delta view shows every symbol that was removed and every changed    *)
(* one that the trees reached; if the changed are no more than the roots   *)
(* it starts from, every changed entry symbol too.  Nothing else is shown  *)
(* than what edges join to a changed symbol, and no edge of what is shown  *)
(* is missing, removed or not (buildDeltaPanoramaGraph, applyDeltaOverlay, *)
(* filterDeltaRelevant).                                                   *)
DeltaIsShown ==
    pc = "drawn" /\ ask.delta =>
        LET changed == Added \union Modified \union Removed
            shown == ToSet(view.nodes)
            asked == ask.root # Absent \/ ask.seeds # <<>>
            symbols == {i \in Added \union Modified : Rank[i] <= 2}
            drawn == trees.edges \union RemovedEdges
        IN /\ Removed \union (changed \intersect Grown(trees)) \subseteq shown
           /\ ~asked /\ Cardinality(Impacted) <= Budget.entries => symbols \subseteq shown
           /\ changed \intersect shown # {} =>
                 /\ \A i \in shown : \E j \in changed \intersect shown : i \in Joined(view.edges, {j})
                 /\ {e \in drawn : {e[1], e[2]} \intersect shown # {}} \subseteq view.edges

(* The highlighted path is a shortest chain of calls from a shown entry to *)
(* a shown symbol of the trace, and none is highlighted only where there   *)
(* is no such chain (applyTraceHighlight, findPath).                       *)
PathIsCalled ==
    pc = "done" =>
        LET starts == ToSet(Shown(trees.roots))
            Calls(k) == <<path[k], path[k + 1], "calls">>
        IN IF path = <<>>
           THEN Within(head, starts, Len(Ids), {"calls"}) \intersect ToSet(Targets) = {}
           ELSE /\ path[1] \in starts /\ Last(path) \in ToSet(Targets)
                /\ \A k \in 1..(Len(path) - 1) : Calls(k) \in Edges(head)
                /\ Len(path) > 1 => Last(path) \notin Within(head, {path[1]}, Len(path) - 2, {"calls"})

(* The picture of a graph is whole within its bounds, in each of its parts. *)
PictureIsWhole == TypeOK /\ TreeIsWhole /\ DeltaIsShown /\ PathIsCalled

\* A comparison that shows nothing although edges changed (an option's comment
\* keeps branches that touch changed nodes or edges).
EdgesAreShown ==
    pc = "drawn" /\ ask.delta /\ AddedEdges \union RemovedEdges # {} => view.nodes # <<>>
============================================================================

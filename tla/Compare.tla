------------------------------ MODULE Compare ------------------------------
(***************************************************************************)
(* What a comparison of two commits reports.  A CodeGraph export has one   *)
(* row per symbol; the snapshot keeps one node per semantic id, which is   *)
(* the symbol's qualified name and not unique, and maps the edges to these *)
(* ids (packages/codedelta-snapshot-manager/src/semantic-id.ts).           *)
(* computeGraphDiff compares two snapshots and walks the head's calls and  *)
(* imports from everything that changed                                    *)
(* (packages/codedelta-graph-diff/src/index.ts).                           *)
(*                                                                         *)
(* An attribute stands for the five fields detectNodeChanges compares.     *)
(* The code is synchronous; a step is one iteration of the walk.           *)
(***************************************************************************)
EXTENDS Integers, Sequences, FiniteSets

CONSTANTS
    Rows,       \* the symbols an export may hold, in the order of their rows
    SemanticId, \* SemanticId[s] is the qualified name of symbol s
    Attrs,      \* values of the compared fields of a node
    Links,      \* edges <<source, target, kind>> an export may hold
    Followed,   \* kinds of edge the walk follows: calls and imports
    Absent      \* "no node of this id"

ASSUME CompareAssumption ==
    /\ Rows \in Seq(DOMAIN SemanticId)
    /\ \A s \in DOMAIN SemanticId : \E r \in DOMAIN Rows : Rows[r] = s
    /\ Absent \notin Attrs
    /\ \A l \in Links : l[1] \in DOMAIN SemanticId /\ l[2] \in DOMAIN SemanticId
    /\ IsFiniteSet({SemanticId[s] : s \in DOMAIN SemanticId})

VARIABLES
    base,     \* the export of the base commit: its symbols and its edges
    head,     \* the export of the head commit
    pc,       \* "ready", "walking" or "done"
    diff,     \* what computeGraphDiff has found, without the affected ids
    queue,    \* ids the walk has yet to expand
    affected  \* ids the walk has found

vars == <<base, head, pc, diff, queue, affected>>

----------------------------------------------------------------------------
(* Exports and snapshots.                                                  *)

Symbols == DOMAIN SemanticId
Ids == {SemanticId[s] : s \in Symbols}

(* symbols[s] is Absent where the commit has no such symbol; the database's *)
(* foreign keys leave no edge without its two ends.                         *)
Exports ==
    {x \in [symbols : [Symbols -> Attrs \union {Absent}], edges : SUBSET Links] :
        \A e \in x.edges : x.symbols[e[1]] # Absent /\ x.symbols[e[2]] # Absent}

(* Rows of x with this semantic id. *)
RowsOf(x, id) ==
    {r \in DOMAIN Rows : x.symbols[Rows[r]] # Absent /\ SemanticId[Rows[r]] = id}

FirstRow(x, id) == CHOOSE r \in RowsOf(x, id) : \A q \in RowsOf(x, id) : r <= q

(* normalizeNodes: the first row of an id is its node, the others are      *)
(* dropped.                                                                *)
NodeOf(x, id) ==
    IF RowsOf(x, id) = {} THEN Absent ELSE x.symbols[Rows[FirstRow(x, id)]]

(* normalizeEdges: every edge is kept, between the ids of its two symbols. *)
EdgesOf(x) == {<<SemanticId[e[1]], SemanticId[e[2]], e[3]>> : e \in x.edges}

----------------------------------------------------------------------------
(* computeGraphDiff.                                                       *)

AllEdges == {<<i, j, l[3]>> : i, j \in Ids, l \in Links}

Diffs ==
    [added : SUBSET Ids, removed : SUBSET Ids,
     modified : SUBSET Ids,
     addedEdges : SUBSET AllEdges, removedEdges : SUBSET AllEdges]

NoDiff ==
    [added |-> {}, removed |-> {}, modified |-> {}, addedEdges |-> {}, removedEdges |-> {}]

Kept(b, h) == {i \in Ids : NodeOf(b, i) # Absent /\ NodeOf(h, i) # Absent}

(* The lists hold nodes; the ids and the two snapshots determine them.     *)
Diff_KeepsRemovedEdges(b, h) ==
    [added    |-> {i \in Ids : NodeOf(b, i) = Absent /\ NodeOf(h, i) # Absent},
     removed  |-> {i \in Ids : NodeOf(b, i) # Absent /\ NodeOf(h, i) = Absent},
     modified |-> {i \in Kept(b, h) : NodeOf(b, i) # NodeOf(h, i)},
     addedEdges   |-> EdgesOf(h) \ EdgesOf(b),
     removedEdges |-> {e \in EdgesOf(b) \ EdgesOf(h) : NodeOf(h, e[1]) # Absent}]
Diff(b, h) ==
    [added    |-> {i \in Ids : NodeOf(b, i) = Absent /\ NodeOf(h, i) # Absent},
     removed  |-> {i \in Ids : NodeOf(b, i) # Absent /\ NodeOf(h, i) = Absent},
     modified |-> {i \in Kept(b, h) : NodeOf(b, i) # NodeOf(h, i)},
     addedEdges   |-> EdgesOf(h) \ EdgesOf(b),
     removedEdges |-> EdgesOf(b) \ EdgesOf(h)]

Ends(E) == {e[1] : e \in E} \union {e[2] : e \in E}

ChangedIds(d) ==
    d.added \union d.removed \union d.modified
      \union Ends(d.addedEdges) \union Ends(d.removedEdges)

(* computeAffectedNodeIds: the adjacency lists, in both directions. *)
Near_CalleesOnly(i) ==
    {j \in Ids : \E e \in EdgesOf(head) : e[3] \in Followed /\ e[1] = i /\ e[2] = j}
Near(i) ==
    {j \in Ids : \E e \in EdgesOf(head) :
        e[3] \in Followed /\ (<<e[1], e[2]>> = <<i, j>> \/ <<e[1], e[2]>> = <<j, i>>)}

(* The orders in which the ids of S may be pushed: the iteration orders of *)
(* the maps and of the edges do not matter here.                           *)
Listings(S) ==
    {q \in [1..Cardinality(S) -> S] : \A i \in S : \E k \in 1..Cardinality(S) : q[k] = i}

----------------------------------------------------------------------------
Init ==
    /\ base \in Exports
    /\ head \in Exports
    /\ pc = "ready"
    /\ diff = NoDiff
    /\ queue = <<>>
    /\ affected = {}

(* The maps, the lists and the changed ids, which start the walk. *)
CompareSnapshots ==
    /\ pc = "ready"
    /\ pc' = "walking"
    /\ diff' = Diff(base, head)
    /\ queue' \in Listings(ChangedIds(Diff(base, head)))
    /\ affected' = ChangedIds(Diff(base, head))
    /\ UNCHANGED <<base, head>>

Expand ==
    /\ pc = "walking"
    /\ queue # <<>>
    /\ LET fresh == Near(Head(queue)) \ affected
       IN /\ affected' = affected \union fresh
          /\ \E new \in Listings(fresh) : queue' = Tail(queue) \o new
    /\ UNCHANGED <<base, head, pc, diff>>

Return ==
    /\ pc = "walking"
    /\ queue = <<>>
    /\ pc' = "done"
    /\ UNCHANGED <<base, head, diff, queue, affected>>

Next == CompareSnapshots \/ Expand \/ Return

Spec == Init /\ [][Next]_vars

----------------------------------------------------------------------------
(* Properties.                                                             *)

TypeOK ==
    /\ base \in Exports
    /\ head \in Exports
    /\ pc \in {"ready", "walking", "done"}
    /\ diff \in Diffs
    /\ queue \in Seq(Ids)
    /\ affected \subseteq Ids

(* A set of ids that no followed edge of the head leaves or enters. *)
Closed(S) ==
    \A e \in EdgesOf(head) : e[3] \in Followed => (e[1] \in S <=> e[2] \in S)

(* The affected ids the server scores and the graph view colours are the   *)
(* least set that holds every changed id and is closed under the head's    *)
(* calls and imports, whatever the cycles and the order of the walk.       *)
BlastRadius ==
    pc = "done" =>
        /\ ChangedIds(diff) \subseteq affected
        /\ Closed(affected)
        /\ \A S \in SUBSET Ids : ChangedIds(diff) \subseteq S /\ Closed(S) => affected \subseteq S

(* The lists of a comparison, replayed on the base snapshot, give the head *)
(* snapshot: nothing is reported twice, in the wrong list or not at all.   *)
Replayed(i) ==
    IF i \in diff.added \union diff.modified THEN NodeOf(head, i)
    ELSE IF i \in diff.removed THEN Absent ELSE NodeOf(base, i)

DiffReplays ==
    pc = "done" =>
        /\ \A i \in Ids : Replayed(i) = NodeOf(head, i)
        /\ (EdgesOf(base) \ diff.removedEdges) \union diff.addedEdges = EdgesOf(head)

(* A symbol whose id is not affected has the edges it had, and if it gives *)
(* its id its node in both commits, the fields it had.  A symbol that      *)
(* shares its qualified name with an earlier row is hidden: a change of    *)
(* its own fields is not reported.                                         *)
Shows(x, s) == x.symbols[s] # Absent /\ Rows[FirstRow(x, SemanticId[s])] = s
EdgesAt(x, s) == {e \in EdgesOf(x) : SemanticId[s] \in {e[1], e[2]}}

UnaffectedIsUntouched ==
    pc = "done" =>
        \A s \in Symbols :
            SemanticId[s] \notin affected =>
                /\ EdgesAt(base, s) = EdgesAt(head, s)
                /\ Shows(base, s) /\ Shows(head, s) => base.symbols[s] = head.symbols[s]

(* The lists of a comparison turn the base into the head, and what is not  *)
(* affected has not changed.                                               *)
CompareInv == TypeOK /\ DiffReplays /\ UnaffectedIsUntouched
============================================================================

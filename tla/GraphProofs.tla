----------------------------- MODULE GraphProofs -----------------------------
(***************************************************************************)
(* Proofs about the graph: what a comparison of two graphs reports         *)
(* (Compare) first, how the edges of one come and go (Resolution) second.  *)
(*                                                                         *)
(* What a comparison reports is exact for any two exports, any collisions  *)
(* of qualified names and any order of the walk.                           *)
(* The walk keeps three things: the changed ids are found, whatever is     *)
(* found and no longer queued has its neighbours found (Frontier), and     *)
(* nothing is found outside a closed set that holds the changes            *)
(* (Contained).  When the queue is empty the first two make the result     *)
(* closed and the third makes it least.                                    *)
(***************************************************************************)
EXTENDS Compare, Resolution, FiniteSetTheorems, TLAPS

Compared == pc # "ready" => diff = Diff(base, head)
Seeded == pc # "ready" => ChangedIds(diff) \subseteq affected
Frontier ==
    pc # "ready" =>
        \A i \in affected : (\E k \in DOMAIN queue : queue[k] = i) \/ Near(i) \subseteq affected
Contained ==
    pc # "ready" =>
        \A S \in SUBSET Ids : ChangedIds(diff) \subseteq S /\ Closed(S) => affected \subseteq S
QueuedIsFound == \A k \in DOMAIN queue : queue[k] \in affected
Walked == pc = "done" => queue = <<>>

IInv ==
    TypeOK /\ Compared /\ Seeded /\ Frontier /\ Contained /\ QueuedIsFound /\ Walked

----------------------------------------------------------------------------
(* A listing of a set of ids is a sequence of exactly its members. *)
LEMMA ListingType ==
    ASSUME NEW S, S \subseteq Ids, NEW q \in Listings(S)
    PROVE  /\ q \in Seq(Ids)
           /\ \A k \in DOMAIN q : q[k] \in S
           /\ \A i \in S : \E k \in DOMAIN q : q[k] = i
<1>1. IsFiniteSet(S)
  BY FS_Subset, CompareAssumption DEF Ids, Symbols
<1>2. Cardinality(S) \in Nat
  BY <1>1, FS_CardinalityType
<1>3. q \in [1..Cardinality(S) -> S]
  BY DEF Listings
<1>4. q \in Seq(Ids)
  BY <1>2, <1>3
<1>5. DOMAIN q = 1..Cardinality(S)
  BY <1>3
<1> QED
  BY <1>3, <1>4, <1>5 DEF Listings

(* What is in queue r, made of q by taking its head and appending new. *)
Advanced(q, new, r) ==
    /\ \E k \in DOMAIN q : q[k] = Head(q)
    /\ \A k \in DOMAIN r :
          (\E j \in DOMAIN q : q[j] = r[k]) \/ (\E j \in DOMAIN new : new[j] = r[k])
    /\ \A k \in DOMAIN q : q[k] # Head(q) => \E j \in DOMAIN r : r[j] = q[k]
    /\ \A k \in DOMAIN new : \E j \in DOMAIN r : r[j] = new[k]

LEMMA QueueStep ==
    ASSUME NEW S, NEW q \in Seq(S), q # <<>>, NEW new \in Seq(S),
           NEW r, r = Tail(q) \o new
    PROVE  Head(q) \in S /\ r \in Seq(S) /\ Advanced(q, new, r)
<1> DEFINE t == Tail(q)
<1>1. /\ Len(q) \in Nat /\ Len(q) > 0 /\ DOMAIN q = 1..Len(q)
      /\ Len(new) \in Nat /\ DOMAIN new = 1..Len(new)
  OBVIOUS
<1>2. /\ t \in Seq(S) /\ Len(t) = Len(q) - 1
      /\ \A k \in 1..Len(t) : t[k] = q[k + 1]
  BY <1>1
<1>3. /\ r \in Seq(S) /\ Len(r) = Len(t) + Len(new) /\ DOMAIN r = 1..Len(r)
      /\ \A k \in 1..Len(r) : r[k] = IF k <= Len(t) THEN t[k] ELSE new[k - Len(t)]
  BY <1>2
<1>4. Head(q) = q[1] /\ q[1] \in S
  BY <1>1
<1>5. ASSUME NEW k \in DOMAIN r
      PROVE  (\E j \in DOMAIN q : q[j] = r[k]) \/ (\E j \in DOMAIN new : new[j] = r[k])
  <2>1. CASE k <= Len(t)
    <3>1. k + 1 \in DOMAIN q /\ r[k] = q[k + 1]
      BY <2>1, <1>1, <1>2, <1>3
    <3> QED BY <3>1
  <2>2. CASE ~ (k <= Len(t))
    <3>1. k - Len(t) \in DOMAIN new /\ r[k] = new[k - Len(t)]
      BY <2>2, <1>1, <1>2, <1>3
    <3> QED BY <3>1
  <2> QED BY <2>1, <2>2
<1>6. ASSUME NEW k \in DOMAIN q, q[k] # Head(q)
      PROVE  \E j \in DOMAIN r : r[j] = q[k]
  <2>1. k - 1 \in DOMAIN r /\ r[k - 1] = q[k]
    BY <1>1, <1>2, <1>3, <1>4, <1>6
  <2> QED BY <2>1
<1>7. ASSUME NEW k \in DOMAIN new PROVE \E j \in DOMAIN r : r[j] = new[k]
  <2>1. Len(t) + k \in DOMAIN r /\ r[Len(t) + k] = new[k]
    BY <1>1, <1>2, <1>3
  <2> QED BY <2>1
<1>8. \E k \in DOMAIN q : q[k] = Head(q)
  BY <1>1, <1>4
<1> QED BY <1>3, <1>4, <1>5, <1>6, <1>7, <1>8 DEF Advanced

----------------------------------------------------------------------------
(* Types of what is computed from two exports. *)
LEMMA EdgesType ==
    ASSUME NEW x \in Exports
    PROVE  /\ EdgesOf(x) \subseteq AllEdges
           /\ \A e \in EdgesOf(x) : e[1] \in Ids /\ e[2] \in Ids
<1>1. ASSUME NEW l \in x.edges
      PROVE  <<SemanticId[l[1]], SemanticId[l[2]], l[3]>> \in AllEdges
             /\ SemanticId[l[1]] \in Ids /\ SemanticId[l[2]] \in Ids
  <2>1. l \in Links
    BY DEF Exports
  <2>2. SemanticId[l[1]] \in Ids /\ SemanticId[l[2]] \in Ids
    BY <2>1, CompareAssumption DEF Ids, Symbols
  <2> QED BY <2>1, <2>2 DEF AllEdges
<1> QED BY <1>1 DEF EdgesOf

LEMMA DiffType ==
    ASSUME NEW b \in Exports, NEW h \in Exports
    PROVE  Diff(b, h) \in Diffs /\ ChangedIds(Diff(b, h)) \subseteq Ids
<1> DEFINE d == Diff(b, h)
<1>1. d.added \subseteq Ids /\ d.removed \subseteq Ids /\ d.modified \subseteq Ids
  BY DEF Diff, Kept
<1>2. d.addedEdges \subseteq EdgesOf(h) /\ d.removedEdges \subseteq EdgesOf(b)
  BY DEF Diff
<1>3. d.addedEdges \subseteq AllEdges /\ d.removedEdges \subseteq AllEdges
  BY <1>2, EdgesType
<1>4. Ends(d.addedEdges) \subseteq Ids /\ Ends(d.removedEdges) \subseteq Ids
  BY <1>2, EdgesType DEF Ends
<1>5. d \in Diffs
  BY <1>1, <1>3 DEF Diff, Diffs
<1> HIDE DEF d
<1> QED BY <1>1, <1>4, <1>5 DEF ChangedIds, d

(* A closed set that holds an id holds its neighbours, and a set that holds *)
(* the neighbours of its ids is closed.                                     *)
LEMMA ClosedByNear ==
    ASSUME head \in Exports, NEW S \in SUBSET Ids
    PROVE  Closed(S) <=> \A i \in S : Near(i) \subseteq S
<1>1. ASSUME Closed(S), NEW i \in S, NEW j \in Near(i) PROVE j \in S
  BY <1>1 DEF Closed, Near
<1>2. ASSUME \A i \in S : Near(i) \subseteq S, NEW e \in EdgesOf(head), e[3] \in Followed
      PROVE  e[1] \in S <=> e[2] \in S
  <2>1. e[1] \in Ids /\ e[2] \in Ids
    BY EdgesType
  <2>2. e[2] \in Near(e[1]) /\ e[1] \in Near(e[2])
    BY <1>2, <2>1 DEF Near
  <2> QED BY <1>2, <2>2
<1> QED BY <1>1, <1>2 DEF Closed

----------------------------------------------------------------------------
LEMMA StartsRight == Init => IInv
<1> SUFFICES ASSUME Init PROVE IInv
  OBVIOUS
<1>1. TypeOK
  BY DEF Init, TypeOK, NoDiff, Diffs
<1> QED
  BY <1>1 DEF Init, IInv, Compared, Seeded, Frontier, Contained, QueuedIsFound, Walked

LEMMA ComparePreserves == IInv /\ CompareSnapshots => IInv'
<1> SUFFICES ASSUME IInv, CompareSnapshots PROVE IInv'
  OBVIOUS
<1> DEFINE c == ChangedIds(Diff(base, head))
<1>0. base \in Exports /\ head \in Exports
  BY DEF IInv, TypeOK
<1>1. Diff(base, head) \in Diffs /\ c \subseteq Ids
  BY <1>0, DiffType
<1>2. /\ pc' = "walking" /\ diff' = Diff(base, head) /\ affected' = c
      /\ queue' \in Listings(c) /\ base' = base /\ head' = head
  BY DEF CompareSnapshots
<1> HIDE DEF c
<1>3. /\ queue' \in Seq(Ids)
      /\ \A k \in DOMAIN queue' : queue'[k] \in c
      /\ \A i \in c : \E k \in DOMAIN queue' : queue'[k] = i
  BY <1>1, <1>2, ListingType
<1>4. TypeOK'
  BY <1>0, <1>1, <1>2, <1>3 DEF TypeOK
<1>5. Compared' /\ Walked'
  BY <1>2 DEF Compared, Walked
<1>6. ChangedIds(diff') = affected'
  BY <1>2 DEF c
<1>7. Seeded' /\ Contained'
  BY <1>6 DEF Seeded, Contained
<1>8. Frontier' /\ QueuedIsFound'
  BY <1>2, <1>3 DEF Frontier, QueuedIsFound
<1> QED BY <1>4, <1>5, <1>7, <1>8 DEF IInv

LEMMA ExpandPreserves == IInv /\ Expand => IInv'
<1> SUFFICES ASSUME IInv, Expand PROVE IInv'
  OBVIOUS
<1> DEFINE i == Head(queue)
           fresh == Near(i) \ affected
<1>0. head \in Exports /\ queue \in Seq(Ids) /\ affected \subseteq Ids
  BY DEF IInv, TypeOK
<1>1. PICK new \in Listings(fresh) : queue' = Tail(queue) \o new
  BY DEF Expand
<1>2. /\ pc = "walking" /\ queue # <<>> /\ affected' = affected \union fresh
      /\ UNCHANGED <<base, head, pc, diff>>
  BY DEF Expand
<1>3. fresh \subseteq Ids
  BY DEF Near
<1>4. /\ new \in Seq(Ids)
      /\ \A k \in DOMAIN new : new[k] \in fresh
      /\ \A j \in fresh : \E k \in DOMAIN new : new[k] = j
  BY <1>3, ListingType
<1>5. /\ i \in Ids
      /\ queue' \in Seq(Ids)
      /\ \E k \in DOMAIN queue : queue[k] = i
      /\ \A k \in DOMAIN queue' :
            (\E j \in DOMAIN queue : queue[j] = queue'[k])
              \/ (\E j \in DOMAIN new : new[j] = queue'[k])
      /\ \A k \in DOMAIN queue : queue[k] # i =>
            \E j \in DOMAIN queue' : queue'[j] = queue[k]
      /\ \A k \in DOMAIN new : \E j \in DOMAIN queue' : queue'[j] = new[k]
  <2>1. /\ queue \in Seq(Ids) /\ queue # <<>> /\ new \in Seq(Ids)
        /\ queue' = Tail(queue) \o new
    BY <1>0, <1>1, <1>2, <1>4
  <2>2. Head(queue) \in Ids /\ queue' \in Seq(Ids) /\ Advanced(queue, new, queue')
    BY <2>1, QueueStep
  <2> QED BY <2>2 DEF Advanced
<1>6. TypeOK'
  BY <1>0, <1>2, <1>3, <1>5 DEF IInv, TypeOK
<1>7. Compared' /\ Walked'
  BY <1>2 DEF IInv, Compared, Walked
<1>8. Seeded'
  BY <1>2 DEF IInv, Seeded
<1>9. QueuedIsFound'
  BY <1>2, <1>4, <1>5 DEF IInv, QueuedIsFound
<1>10. Frontier'
  <2>1. \A j \in Ids : Near(j)' = Near(j)
    BY <1>2 DEF Near, EdgesOf
  <2> SUFFICES ASSUME NEW j \in affected'
               PROVE  (\E k \in DOMAIN queue' : queue'[k] = j) \/ Near(j)' \subseteq affected'
    BY DEF Frontier
  <2>2. CASE j \in fresh
    BY <2>2, <1>4, <1>5
  <2>3. CASE j = i
    BY <2>1, <2>3, <1>2, <1>5
  <2>4. CASE j \in affected /\ j # i
    <3>1. (\E k \in DOMAIN queue : queue[k] = j) \/ Near(j) \subseteq affected
      BY <2>4, <1>2 DEF IInv, Frontier
    <3>2. j \in Ids
      BY <2>4, <1>0
    <3> HIDE DEF i, fresh
    <3> QED BY <3>1, <3>2, <2>1, <2>4, <1>2, <1>5
  <2> QED BY <2>2, <2>3, <2>4, <1>2
<1>11. Contained'
  <2> SUFFICES ASSUME NEW S \in SUBSET Ids, (ChangedIds(diff) \subseteq S)', Closed(S)'
               PROVE  (affected \subseteq S)'
    BY DEF Contained
  <2>1. ChangedIds(diff) \subseteq S /\ Closed(S)
    BY <1>2 DEF ChangedIds, Ends, Closed, EdgesOf
  <2>2. affected \subseteq S
    BY <2>1, <1>2 DEF IInv, Contained
  <2>3. i \in S
    BY <2>2, <1>5 DEF IInv, QueuedIsFound
  <2>4. Near(i) \subseteq S
    BY <2>1, <2>3, <1>0, ClosedByNear
  <2> QED BY <2>2, <2>4, <1>2
<1> QED BY <1>6, <1>7, <1>8, <1>9, <1>10, <1>11 DEF IInv

LEMMA ReturnPreserves == IInv /\ Return => IInv'
<1> SUFFICES ASSUME IInv, Return PROVE IInv'
  OBVIOUS
<1>1. TypeOK'
  BY DEF IInv, TypeOK, Return
<1>2. Compared' /\ Seeded' /\ Walked' /\ QueuedIsFound'
  BY DEF IInv, Compared, Seeded, Walked, QueuedIsFound, Return, ChangedIds, Ends
<1>3. Frontier'
  BY DEF IInv, Frontier, Return, Near, EdgesOf
<1>4. Contained'
  BY DEF IInv, Contained, Return, Closed, EdgesOf, ChangedIds, Ends
<1> QED BY <1>1, <1>2, <1>3, <1>4 DEF IInv

LEMMA StutterPreserves == IInv /\ UNCHANGED vars => IInv'
<1> SUFFICES ASSUME IInv, UNCHANGED vars PROVE IInv'
  OBVIOUS
<1> USE DEF vars
<1>1. TypeOK'
  BY DEF IInv, TypeOK
<1>2. Compared' /\ Seeded' /\ Walked' /\ QueuedIsFound'
  BY DEF IInv, Compared, Seeded, Walked, QueuedIsFound, ChangedIds, Ends
<1>3. Frontier'
  BY DEF IInv, Frontier, Near, EdgesOf
<1>4. Contained'
  BY DEF IInv, Contained, Closed, EdgesOf, ChangedIds, Ends
<1> QED BY <1>1, <1>2, <1>3, <1>4 DEF IInv

LEMMA Inductive == Spec => []IInv
<1>1. IInv /\ [Next]_vars => IInv'
  BY ComparePreserves, ExpandPreserves, ReturnPreserves, StutterPreserves DEF Next
<1> QED BY <1>1, StartsRight, PTL DEF Spec

----------------------------------------------------------------------------
\* Every variable stays in its range, for any exports, names and edges.
THEOREM TypeCorrect == Spec => []TypeOK
<1>1. IInv => TypeOK
  BY DEF IInv
<1> QED BY <1>1, Inductive, PTL

\* The affected ids are the least set that holds the changed ids and is closed
\* under the head's followed edges.
THEOREM AffectedIsLeast == Spec => []BlastRadius
<1>1. ASSUME IInv, pc = "done"
      PROVE  /\ ChangedIds(diff) \subseteq affected
             /\ Closed(affected)
             /\ \A S \in SUBSET Ids :
                   ChangedIds(diff) \subseteq S /\ Closed(S) => affected \subseteq S
  <2>1. queue = <<>>
    BY <1>1 DEF IInv, Walked
  <2>2. \A i \in affected : Near(i) \subseteq affected
    BY <1>1, <2>1 DEF IInv, Frontier
  <2>3. Closed(affected)
    BY <1>1, <2>2, ClosedByNear DEF IInv, TypeOK
  <2> QED BY <1>1, <2>3 DEF IInv, Seeded, Contained
<1>2. IInv => BlastRadius
  BY <1>1 DEF BlastRadius
<1> QED BY <1>2, Inductive, PTL

\* The reported lists turn the base snapshot into the head snapshot.
THEOREM ListsReplay == Spec => []DiffReplays
<1>1. ASSUME IInv, pc = "done" PROVE \A i \in Ids : Replayed(i) = NodeOf(head, i)
  <2>1. diff = Diff(base, head)
    BY <1>1 DEF IInv, Compared
  <2> QED BY <2>1 DEF Replayed, Diff, Kept
<1>2. ASSUME IInv, pc = "done"
      PROVE  (EdgesOf(base) \ diff.removedEdges) \union diff.addedEdges = EdgesOf(head)
  <2>1. diff = Diff(base, head)
    BY <1>2 DEF IInv, Compared
  <2> QED BY <2>1 DEF Diff
<1>3. IInv => DiffReplays
  BY <1>1, <1>2 DEF DiffReplays
<1> QED BY <1>3, Inductive, PTL

(* A symbol that gives its id its node is that node. *)
LEMMA ShownIsNode ==
    ASSUME NEW x, NEW s \in Symbols, Shows(x, s)
    PROVE  NodeOf(x, SemanticId[s]) = x.symbols[s]
<1>1. PICK r \in DOMAIN Rows : Rows[r] = s
  BY CompareAssumption DEF Symbols
<1>2. r \in RowsOf(x, SemanticId[s])
  BY <1>1 DEF RowsOf, Shows
<1> QED BY <1>2 DEF NodeOf, Shows

\* No edge of a symbol outside the affected ids has changed, and no compared
\* field of one that its id shows.
THEOREM NothingElseChanged == Spec => []UnaffectedIsUntouched
<1>1. ASSUME IInv, pc = "done", NEW s \in Symbols, SemanticId[s] \notin affected
      PROVE  /\ EdgesAt(base, s) = EdgesAt(head, s)
             /\ Shows(base, s) /\ Shows(head, s) => base.symbols[s] = head.symbols[s]
  <2>1. /\ diff = Diff(base, head)
        /\ SemanticId[s] \notin ChangedIds(diff)
    BY <1>1 DEF IInv, Compared, Seeded
  <2>2. /\ SemanticId[s] \notin Ends(EdgesOf(head) \ EdgesOf(base))
        /\ SemanticId[s] \notin Ends(EdgesOf(base) \ EdgesOf(head))
    BY <2>1 DEF ChangedIds, Diff
  <2>3. EdgesAt(base, s) = EdgesAt(head, s)
    BY <2>2 DEF EdgesAt, Ends
  <2>4. SemanticId[s] \in Ids
    BY DEF Ids
  <2>5. NodeOf(base, SemanticId[s]) = NodeOf(head, SemanticId[s])
    BY <2>1, <2>4 DEF ChangedIds, Diff, Kept
  <2>6. Shows(base, s) /\ Shows(head, s) => base.symbols[s] = head.symbols[s]
    BY <2>5, ShownIsNode
  <2> QED BY <2>3, <2>6
<1>2. IInv => UnaffectedIsUntouched
  BY <1>1 DEF UnaffectedIsUntouched
<1> QED BY <1>2, Inductive, PTL

(* The lists of a comparison replay and nothing else has changed, in typed *)
(* states only.                                                            *)
THEOREM ComparisonHolds == Spec => []CompareInv
<1>1. TypeOK /\ DiffReplays /\ UnaffectedIsUntouched => CompareInv
  BY DEF CompareInv
<1> QED BY <1>1, TypeCorrect, ListsReplay, NothingElseChanged, PTL

-----------------------------------------------------------------------------
(***************************************************************************)
(* The edges of the index.  EdgesIInv, the part of EdgesInv that is about  *)
(* the tables, is inductive: it needs RowsAreOwed, without which the next  *)
(* batch could make an edge a second time.  ResolveIInv adds what a        *)
(* running operation owes.  The caches are accurate from when they are     *)
(* cleared.  A file of a sync has no edge and all its rows until the batch *)
(* is resolved, then its edges (Owed, Paid).  A batch of indexAll is the   *)
(* first rows, in the order of the lines, so a row that goes with a        *)
(* namesake goes after an earlier line (BatchIsPrefix, RowsInOrder).       *)
(***************************************************************************)

(* Positions kept of a sequence.                                           *)
Rank(I, i) == Cardinality({j \in I : j <= i})

(* The ranks of the members of a set of positions are all the numbers up to *)
(* its size, each of them once. *)
LEMMA RanksAreAll ==
    ASSUME NEW n \in Nat, NEW I \in SUBSET (1..n)
    PROVE  /\ Cardinality(I) \in Nat
           /\ \A i \in I : Rank(I, i) \in 1..Cardinality(I)
           /\ \A k \in 1..Cardinality(I) : \E i \in I : Rank(I, i) = k
           /\ \A i, j \in I : Rank(I, i) = Rank(I, j) => i = j
<1> DEFINE Up(i) == {j \in I : j <= i}
<1>1. IsFiniteSet(I) /\ Cardinality(I) \in Nat
  <2>1. IsFiniteSet(1..n)
    BY FS_Interval
  <2> QED
    BY <2>1, FS_Subset, FS_CardinalityType
<1>2. ASSUME NEW i \in I
      PROVE  Rank(I, i) \in 1..Cardinality(I)
  <2>1. Up(i) \in SUBSET I /\ i \in Up(i)
    OBVIOUS
  <2>2. IsFiniteSet(Up(i)) /\ Cardinality(Up(i)) <= Cardinality(I)
    BY <1>1, <2>1, FS_Subset
  <2>3. Cardinality(Up(i)) \in Nat /\ Cardinality(Up(i)) # 0
    BY <2>1, <2>2, FS_CardinalityType, FS_EmptySet
  <2> QED
    BY <1>1, <2>2, <2>3 DEF Rank
<1>3. ASSUME NEW i \in I, NEW j \in I, i < j
      PROVE  Rank(I, i) # Rank(I, j)
  <2>1. Up(j) \in SUBSET I /\ j \in Up(j) /\ j \notin Up(i)
    BY <1>3
  <2>2. ASSUME NEW k \in Up(i)
        PROVE  k \in Up(j)
    BY <1>3, <2>2
  <2>3. IsFiniteSet(Up(j))
    BY <1>1, <2>1, FS_Subset
  <2>4. Up(i) \in SUBSET Up(j)
    BY <2>2
  <2>5. Cardinality(Up(j)) = Cardinality(Up(i)) => Up(j) = Up(i)
    BY <2>3, <2>4, FS_Subset
  <2> QED
    BY <2>1, <2>5 DEF Rank
<1>4. \A i, j \in I : Rank(I, i) = Rank(I, j) => i = j
  <2> SUFFICES ASSUME NEW i \in I, NEW j \in I, i # j
               PROVE  Rank(I, i) # Rank(I, j)
    OBVIOUS
  <2>1. i < j \/ j < i
    OBVIOUS
  <2> QED
    BY <1>3, <2>1
<1>5. \A k \in 1..Cardinality(I) : \E i \in I : Rank(I, i) = k
  <2> DEFINE m == Cardinality(I)
             r == [i \in I |-> Rank(I, i)]
  <2>1. r \in [I -> 1..m]
    BY <1>2
  <2>2. \A i, j \in I : r[i] = r[j] => i = j
    BY <1>4
  <2>3. r \in Injection(I, 1..m)
    BY <2>1, <2>2 DEF Injection, IsInjective
  <2>4. IsFiniteSet(1..m) /\ Cardinality(1..m) = m
    BY <1>1, FS_Interval
  <2>5. r \in Surjection(I, 1..m)
    BY <2>3, <2>4, FS_Injection
  <2> QED
    BY <2>5 DEF Surjection
<1> QED
  BY <1>1, <1>2, <1>4, <1>5

(* Keeping positions of a sequence gives a sequence of the members at these *)
(* positions and of no others, each once. *)
LEMMA PickedType ==
    ASSUME NEW X, NEW s \in Seq(X), NEW I \in SUBSET DOMAIN s
    PROVE  /\ Picked(s, I) \in Seq(X)
           /\ \A k \in DOMAIN Picked(s, I) : \E i \in I : Picked(s, I)[k] = s[i]
           /\ \A i \in I : \E k \in DOMAIN Picked(s, I) : Picked(s, I)[k] = s[i]
           /\ (\A i, j \in DOMAIN s : s[i] = s[j] => i = j) =>
                \A k, l \in DOMAIN Picked(s, I) : Picked(s, I)[k] = Picked(s, I)[l] => k = l
<1> DEFINE m == Cardinality(I)
           At(k) == CHOOSE i \in I : Rank(I, i) = k
<1>1. Len(s) \in Nat /\ I \in SUBSET (1..Len(s)) /\ DOMAIN s = 1..Len(s)
  OBVIOUS
<1>2. /\ m \in Nat
      /\ \A i \in I : Rank(I, i) \in 1..m
      /\ \A k \in 1..m : \E i \in I : Rank(I, i) = k
      /\ \A i, j \in I : Rank(I, i) = Rank(I, j) => i = j
  BY <1>1, RanksAreAll
<1>3. \A k \in 1..m : At(k) \in I /\ Rank(I, At(k)) = k
  BY <1>2
<1>4. \A i \in I : At(Rank(I, i)) = i
  BY <1>2, <1>3
<1>5. Picked(s, I) = [k \in 1..m |-> s[At(k)]]
  BY DEF Picked, Rank
<1> HIDE DEF m, At
<1>6. \A k \in 1..m : s[At(k)] \in X
  BY <1>3, <1>1
<1>7. Picked(s, I) \in [1..m -> X] /\ DOMAIN Picked(s, I) = 1..m
  BY <1>5, <1>6
<1>8. Picked(s, I) \in Seq(X)
  BY <1>7, <1>2
<1>9. \A k \in 1..m : Picked(s, I)[k] = s[At(k)]
  BY <1>5
<1>10. \A i \in I : Rank(I, i) \in 1..m /\ Picked(s, I)[Rank(I, i)] = s[i]
  BY <1>2, <1>4, <1>9
<1>11. ASSUME \A i, j \in DOMAIN s : s[i] = s[j] => i = j,
              NEW k \in 1..m, NEW l \in 1..m, Picked(s, I)[k] = Picked(s, I)[l]
       PROVE  k = l
  <2>1. s[At(k)] = s[At(l)]
    BY <1>9, <1>11
  <2>2. At(k) \in DOMAIN s /\ At(l) \in DOMAIN s
    BY <1>3
  <2>3. At(k) = At(l)
    BY <1>11, <2>1, <2>2
  <2> QED
    BY <1>3, <2>3
<1>12. \A k \in DOMAIN Picked(s, I) : \E i \in I : Picked(s, I)[k] = s[i]
  BY <1>3, <1>7, <1>9
<1>13. \A i \in I : \E k \in DOMAIN Picked(s, I) : Picked(s, I)[k] = s[i]
  BY <1>7, <1>10
<1> QED
  BY <1>7, <1>8, <1>11, <1>12, <1>13

----------------------------------------------------------------------------
(* The matcher.                                                            *)

(* Whatever strategy finds a symbol, it is one of those it was shown, and *)
(* what the reference asks for. *)
LEMMA MatchesFit ==
    ASSUME NEW f, NEW ref, NEW nodes, NEW x \in Matches(f, ref, nodes)
    PROVE  x \in nodes /\ Fits(f, ref, x)
<1> DEFINE Is(S) == \A y \in S : y \in nodes /\ Fits(f, ref, y)
<1>1. Is(MethodCall(f, ref, nodes))
  <2>1. CASE ref.recv = None
    BY <2>1 DEF MethodCall
  <2>2. CASE ref.recv # None
    <3>1. \A c : Is(OnClass(f, c, ref.name, nodes))
      BY <2>2 DEF OnClass, Named, Fits
    <3>2. Is(AnyMethod(f, ref, nodes))
      <4> DEFINE S == {y \in Named(nodes, ref.name) : y.sym.kind = "method"}
                 T == IF SameLang(f, S) # {} THEN SameLang(f, S) ELSE S
      <4>1. \A y \in T : y \in nodes /\ y.sym # None /\ y.sym.name = ref.name /\ y.sym.kind = "method"
        BY DEF SameLang, Named
      <4>2. \A y \in AnyMethod(f, ref, nodes) :
              y \in T /\ (Lang[y.file] = Lang[f] \/ Likeness(f, ref, y) >= 2)
        BY DEF AnyMethod, SameLang
      <4> QED
        BY <2>2, <4>1, <4>2 DEF Fits
    <3>3. MethodCall(f, ref, nodes) =
            First(OnClass(f, ref.recv, ref.name, nodes),
            First(OnClass(f, Capital[ref.recv], ref.name, nodes), AnyMethod(f, ref, nodes)))
      BY <2>2 DEF MethodCall
    <3> QED
      BY <3>1, <3>2, <3>3 DEF First
  <2> QED
    BY <2>1, <2>2
<1>2. Is(Exact(f, ref, nodes))
  <2>1. \A y \in Exact(f, ref, nodes) : ref.recv = None /\ y \in Named(nodes, ref.name)
    BY DEF Exact, FindBest
  <2> QED
    BY <2>1 DEF Named, Fits
<1>3. Is(Fuzzy(f, ref, nodes))
  <2> DEFINE S == {y \in nodes : y.sym # None /\ ref.recv = None /\ Lower[y.sym.name] = Lower[ref.name]}
  <2>1. Fuzzy(f, ref, nodes) \subseteq S
    BY DEF Fuzzy, SameLang
  <2> QED
    BY <2>1 DEF Fits
<1> QED
  BY <1>1, <1>2, <1>3 DEF Matches, First

LEMMA SharedBound ==
    ASSUME NEW f \in Files, NEW g \in Files
    PROVE  /\ Shared(f, g) \in Nat /\ Shared(f, f) \in Nat
           /\ Shared(f, g) <= Shared(f, f)
<1> DEFINE Common(h) == {k \in 1..LeastOf(Len(Dir[f]), Len(Dir[h])) :
                          \A i \in 1..k : Dir[f][i] = Dir[h][i]}
<1>1. Len(Dir[f]) \in Nat /\ Len(Dir[g]) \in Nat
  BY NamesAssumption
<1>2. Common(f) = 1..Len(Dir[f])
  BY <1>1 DEF LeastOf
<1>3. Common(g) \in SUBSET Common(f)
  BY <1>1, <1>2 DEF LeastOf
<1>4. IsFiniteSet(Common(f))
  <2>1. 1 \in Int /\ Len(Dir[f]) \in Int
    BY <1>1
  <2>2. IsFiniteSet(1..Len(Dir[f]))
    BY <2>1, FS_Interval
  <2> QED
    BY <1>2, <2>2
<1>5. /\ IsFiniteSet(Common(g)) /\ Cardinality(Common(g)) <= Cardinality(Common(f))
  BY <1>3, <1>4, FS_Subset
<1>6. Cardinality(Common(g)) \in Nat /\ Cardinality(Common(f)) \in Nat
  BY <1>4, <1>5, FS_CardinalityType
<1> QED
  BY <1>5, <1>6 DEF Shared

LEMMA ProximityBound ==
    ASSUME NEW f \in Files, NEW g \in Files
    PROVE  /\ Proximity(f, g) \in 0..80 /\ Proximity(f, f) \in 0..80
           /\ Proximity(f, g) <= Proximity(f, f)
BY SharedBound DEF Proximity, LeastOf

LEMMA PointsBound ==
    ASSUME NEW f \in Files, NEW ref \in Ref, NEW x \in Node
    PROVE  /\ Points(f, ref, x) \in Int
           /\ x.file = f => Points(f, ref, x) >= 150 + Proximity(f, f)
           /\ x.file # f => Points(f, ref, x) <= 85 + Proximity(f, f)
           /\ Lang[x.file] = Lang[f] => Points(f, ref, x) >= 50
           /\ Lang[x.file] # Lang[f] => Points(f, ref, x) <= 35
<1>1. x.file \in Files
  BY DEF Node
<1>2. /\ Proximity(f, x.file) \in 0..80 /\ Proximity(f, f) \in 0..80
      /\ Proximity(f, x.file) <= Proximity(f, f)
  BY <1>1, ProximityBound
<1>3. Preference(ref, x) \in 0..25
  BY DEF Preference
<1>4. If(x.file = f, 100) = (IF x.file = f THEN 100 ELSE 0) /\ If(x.sym.exported, 10) \in 0..10
  BY DEF If
<1>5. Language(f, x.file) = IF Lang[x.file] = Lang[f] THEN 50 ELSE -80
  BY DEF Language
<1>6. x.file = f => Lang[x.file] = Lang[f]
  OBVIOUS
<1> DEFINE p == Proximity(f, x.file)  q == Preference(ref, x)
           e == If(x.sym.exported, 10)  same == Lang[x.file] = Lang[f]
<1>7. Points(f, ref, x) =
        (IF x.file = f THEN 100 ELSE 0) + p + (IF same THEN 50 ELSE -80) + q + e
  BY <1>4, <1>5 DEF Points
<1> HIDE DEF p, q, e, same
<1>8. p \in 0..80 /\ p <= Proximity(f, f) /\ q \in 0..25 /\ e \in 0..10
  BY <1>2, <1>3, <1>4 DEF p, q, e
<1>9. x.file = f => p = Proximity(f, f) /\ same
  BY DEF p, same
<1>10. CASE x.file = f
  BY <1>2, <1>7, <1>8, <1>9, <1>10 DEF same
<1>11. CASE x.file # f
  BY <1>2, <1>7, <1>8, <1>11 DEF same
<1> QED
  BY <1>10, <1>11

LEMMA BestIsNearest ==
    ASSUME NEW f \in Files, NEW ref \in Ref, NEW S \in SUBSET Node,
           NEW x \in FindBest(f, ref, S), NEW y \in S
    PROVE  /\ y.file = f => x.file = f
           /\ Lang[y.file] = Lang[f] => Lang[x.file] = Lang[f]
<1>1. x \in S /\ (Points(f, ref, y) > -1 => Points(f, ref, x) >= Points(f, ref, y))
  BY DEF FindBest
<1>2. x \in Node /\ y \in Node
  BY <1>1
<1>3. /\ Points(f, ref, x) \in Int
      /\ x.file # f => Points(f, ref, x) <= 85 + Proximity(f, f)
      /\ Lang[x.file] # Lang[f] => Points(f, ref, x) <= 35
  BY <1>2, PointsBound
<1>4. /\ Points(f, ref, y) \in Int
      /\ y.file = f => Points(f, ref, y) >= 150 + Proximity(f, f)
      /\ Lang[y.file] = Lang[f] => Points(f, ref, y) >= 50
  BY <1>2, PointsBound
<1>5. Proximity(f, f) \in 0..80
  BY ProximityBound
<1> QED
  BY <1>1, <1>3, <1>4, <1>5

(* Without a symbol of the name no exact strategy finds anything. *)
LEMMA UnnamedHasNoExact ==
    ASSUME NEW f, NEW ref, NEW nodes, Named(nodes, ref.name) = {}
    PROVE  MethodCall(f, ref, nodes) = {} /\ Exact(f, ref, nodes) = {}
<1>1. Cardinality({}) = 0
  BY FS_EmptySet
<1>2. \A c : OnClass(f, c, ref.name, nodes) = {}
  BY DEF OnClass
<1>3. AnyMethod(f, ref, nodes) = {}
  BY <1>1 DEF AnyMethod, SameLang
<1>4. MethodCall(f, ref, nodes) = {}
  BY <1>2, <1>3 DEF MethodCall, First
<1>5. Exact(f, ref, nodes) = {}
  BY <1>1 DEF Exact, FindBest
<1> QED
  BY <1>4, <1>5

----------------------------------------------------------------------------
(* What the tables hold.                                                   *)

RowsOnce == \A i, j \in DOMAIN rows : rows[i] = rows[j] => i = j

\* IsReference(r) of the contents ix.
Refers(ix, r) ==
  /\ ix[r.from] # None
  /\ r.line \in DOMAIN ix[r.from].refs /\ ix[r.from].refs[r.line] = r.ref

EdgesIInv == ResolutionTypeOK /\ EdgesAreSound /\ ReferencesHaveOneEdge /\ RowsAreOwed

LEMMA ContentIs ==
    ASSUME ResolutionTypeOK, NEW f \in Files, indexed[f] # None
    PROVE  indexed[f] \in Contents /\ indexed[f].defs \subseteq Symbol /\ indexed[f].refs \in Seq(Ref)
<1>1. indexed[f] \in Contents
  BY DEF ResolutionTypeOK
<1> QED
  BY <1>1, ResolutionAssumption

LEMMA NodesAre ==
    \A x : x \in Nodes <=>
      \E f \in Files : /\ indexed[f] # None
                       /\ \E d \in indexed[f].defs \cup {None} : x = [file |-> f, sym |-> d]
BY DEF Nodes

LEMMA NodesType ==
    ASSUME ResolutionTypeOK
    PROVE  Nodes \subseteq Node
<1> SUFFICES ASSUME NEW x \in Nodes
             PROVE  x \in Node
  OBVIOUS
<1>1. PICK f \in Files : /\ indexed[f] # None
                         /\ \E d \in indexed[f].defs \cup {None} : x = [file |-> f, sym |-> d]
  BY NodesAre
<1>2. indexed[f].defs \subseteq Symbol
  BY <1>1, ContentIs
<1> QED
  BY <1>1, <1>2 DEF Node

(* A node is still there when its file is stored as it was. *)
LEMMA NodeStays ==
    ASSUME NEW x \in Nodes, indexed'[x.file] = indexed[x.file]
    PROVE  x \in Nodes'
<1>1. PICK f \in Files : /\ indexed[f] # None
                         /\ \E d \in indexed[f].defs \cup {None} : x = [file |-> f, sym |-> d]
  BY NodesAre
<1>2. x.file = f
  BY <1>1
<1>3. indexed'[f] = indexed[f]
  BY <1>2
<1> QED
  BY <1>1, <1>3 DEF Nodes

LEMMA ViewType ==
    ASSUME ResolutionTypeOK
    PROVE  View \subseteq Node
<1> SUFFICES ASSUME NEW x \in View
             PROVE  x \in Node
  OBVIOUS
<1>1. PICK n \in Names : x \in IF looked[n] = None THEN Named(Nodes, n) ELSE looked[n]
  BY DEF View
<1>2. looked[n] \in (SUBSET Node) \cup {None}
  BY DEF ResolutionTypeOK
<1>3. CASE looked[n] = None
  BY <1>1, <1>3, NodesType DEF Named
<1>4. CASE looked[n] # None
  BY <1>1, <1>2, <1>4
<1> QED
  BY <1>3, <1>4

LEMMA KnownType ==
    ASSUME ResolutionTypeOK
    PROVE  Known \in SUBSET Names
<1>1. \A x \in Nodes : x.sym # None => x.sym.name \in Names
  <2> SUFFICES ASSUME NEW x \in Nodes, x.sym # None
               PROVE  x.sym.name \in Names
    OBVIOUS
  <2>1. x.sym \in Symbol
    BY NodesType DEF Node
  <2> QED
    BY <2>1 DEF Symbol
<1>2. {x.sym.name : x \in {y \in Nodes : y.sym # None}} \in SUBSET Names
  BY <1>1
<1>3. known # None => known \in SUBSET Names
  BY DEF ResolutionTypeOK
<1> QED
  BY <1>2, <1>3 DEF Known

LEMMA TargetIs ==
    ASSUME NEW r, NEW nodes, Matches(r.from, r.ref, nodes) # {}
    PROVE  LET e == Target(r, nodes)
           IN /\ e.from = r.from /\ e.line = r.line
              /\ e.to \in nodes /\ Fits(r.from, r.ref, e.to)
              /\ e.kind = EdgeKind(r.ref, e.to)
              /\ e = [from |-> e.from, line |-> e.line, kind |-> e.kind, to |-> e.to]
<1> DEFINE x == CHOOSE y \in Matches(r.from, r.ref, nodes) : TRUE
<1>1. x \in Matches(r.from, r.ref, nodes)
  OBVIOUS
<1>2. x \in nodes /\ Fits(r.from, r.ref, x)
  BY <1>1, MatchesFit
<1>3. Target(r, nodes) = [from |-> r.from, line |-> r.line, kind |-> EdgeKind(r.ref, x), to |-> x]
  BY DEF Target
<1> HIDE DEF x
<1> QED
  BY <1>2, <1>3

(* What resolving rows adds: edges between nodes that exist, each of them  *)
(* what one of the rows resolved asks for. *)
AddedFor(F, R) ==
  /\ edges' = edges \cup F /\ twice' = twice \cup (F \cap edges)
  /\ \A e \in F : e.to \in Nodes /\ FileNode(e.from) \in Nodes
  /\ \A e \in F : \E j \in DOMAIN work'.resolved : \E k \in DOMAIN R :
       /\ work'.resolved[j] = R[k]
       /\ e.from = R[k].from /\ e.line = R[k].line
       /\ Fits(e.from, R[k].ref, e.to) /\ e.kind = EdgeKind(R[k].ref, e.to)

LEMMA ResolveAdds ==
    ASSUME ResolutionTypeOK, NEW R \in Seq(Row), Resolve(R)
    PROVE  /\ indexed' = indexed /\ rows' = rows
           /\ known' \in SUBSET Names
           /\ looked' \in [Names -> (SUBSET Node) \cup {None}]
           /\ work' \in [rows : Seq(Row), resolved : Seq(Row)]
           /\ \E F \in SUBSET Edge : AddedFor(F, R)
<1> DEFINE V == View
           I == {i \in DOMAIN R : Resolvable(R[i], Known, V)}
           D == Picked(R, I)
           E == {Target(D[i], V) : i \in DOMAIN D}
           F == {e \in E : e.to \in Nodes /\ FileNode(e.from) \in Nodes}
<1>1. /\ known' = Known
      /\ looked' = [n \in Names |-> IF n \in AskedFor(R, Known) THEN Named(V, n) ELSE looked[n]]
      /\ Insert(E)
      /\ work' = [rows |-> R, resolved |-> D]
      /\ indexed' = indexed /\ rows' = rows
  <2>1. PICK names \in {Known}, view \in {View} :
          \E hits \in {{i \in DOMAIN R : Resolvable(R[i], names, view)}} :
          \E resolved \in {Picked(R, hits)} :
            /\ known' = names
            /\ looked' = [n \in Names |-> IF n \in AskedFor(R, names) THEN Named(view, n) ELSE looked[n]]
            /\ Insert({Target(resolved[i], view) : i \in DOMAIN resolved})
            /\ work' = [rows |-> R, resolved |-> resolved]
            /\ UNCHANGED <<indexed, rows>>
    BY DEF Resolve
  <2>2. names = Known /\ view = V
    OBVIOUS
  <2>3. PICK hits \in {I} :
          \E resolved \in {Picked(R, hits)} :
            /\ known' = Known
            /\ looked' = [n \in Names |-> IF n \in AskedFor(R, Known) THEN Named(V, n) ELSE looked[n]]
            /\ Insert({Target(resolved[i], V) : i \in DOMAIN resolved})
            /\ work' = [rows |-> R, resolved |-> resolved]
            /\ UNCHANGED <<indexed, rows>>
    BY <2>1, <2>2
  <2>4. hits = I
    OBVIOUS
  <2> HIDE DEF I
  <2> QED
    BY <2>3, <2>4
<1>2. V \subseteq Node
  BY ViewType
<1>3. /\ D \in Seq(Row)
      /\ \A j \in DOMAIN D : \E k \in I : D[j] = R[k]
  BY PickedType, I \in SUBSET DOMAIN R
<1>4. edges' = edges \cup F /\ twice' = twice \cup (F \cap edges)
  BY <1>1 DEF Insert
<1>5. looked' \in [Names -> (SUBSET Node) \cup {None}]
  <2>1. \A n \in Names : Named(V, n) \in SUBSET Node
    BY <1>2 DEF Named
  <2>2. looked \in [Names -> (SUBSET Node) \cup {None}]
    BY DEF ResolutionTypeOK
  <2> HIDE DEF V
  <2> QED
    BY <1>1, <2>1, <2>2
<1>6. work' \in [rows : Seq(Row), resolved : Seq(Row)] /\ work'.resolved = D
  BY <1>1, <1>3
<1> HIDE DEF V, I
<1>7. \A k \in I : k \in DOMAIN R /\ Matches(R[k].from, R[k].ref, V) # {}
  BY DEF I, Resolvable
<1> HIDE DEF D
<1>8. ASSUME NEW e \in F
      PROVE  /\ e \in Edge
             /\ \E j \in DOMAIN D : \E k \in DOMAIN R :
                  /\ D[j] = R[k]
                  /\ e.from = R[k].from /\ e.line = R[k].line
                  /\ Fits(e.from, R[k].ref, e.to) /\ e.kind = EdgeKind(R[k].ref, e.to)
  <2>1. PICK j \in DOMAIN D : e = Target(D[j], V)
    OBVIOUS
  <2>2. PICK k \in I : D[j] = R[k]
    BY <1>3
  <2>3. k \in DOMAIN R /\ Matches(R[k].from, R[k].ref, V) # {} /\ R[k] \in Row
    BY <1>7
  <2>4. /\ e.from = R[k].from /\ e.line = R[k].line
        /\ e.to \in V /\ Fits(R[k].from, R[k].ref, e.to)
        /\ e.kind = EdgeKind(R[k].ref, e.to)
        /\ e = [from |-> e.from, line |-> e.line, kind |-> e.kind, to |-> e.to]
    <3>1. e = Target(R[k], V)
      BY <2>1, <2>2
    <3> QED
      BY <2>3, <3>1, TargetIs
  <2>5. R[k].from \in Files /\ R[k].line \in Nat /\ R[k].ref \in Ref
    BY <2>3 DEF Row
  <2>6. EdgeKind(R[k].ref, e.to) \in EdgeKinds
    <3>1. R[k].ref.kind \in EdgeKinds
      BY <2>5 DEF Ref
    <3> QED
      BY <3>1 DEF EdgeKind, EdgeKinds
  <2>7. e \in Edge
    BY <1>2, <2>4, <2>5, <2>6 DEF Edge
  <2> QED
    BY <2>2, <2>3, <2>4, <2>7
<1>9. F \in SUBSET Edge
  BY <1>8
<1>10. \A e \in F : e.to \in Nodes /\ FileNode(e.from) \in Nodes
  OBVIOUS
<1> HIDE DEF F
<1>11. AddedFor(F, R)
  BY <1>4, <1>6, <1>8, <1>10 DEF AddedFor
<1> QED
  BY <1>1, <1>5, <1>6, <1>9, <1>11, KnownType

----------------------------------------------------------------------------
(* What an action does to the edges and the rows.                          *)

(* The rows and edges after dropping the files F, of which the others are   *)
(* stored as before: all that is said of them stays true. *)
LEMMA DroppingKeeps ==
    ASSUME EdgesIInv, NEW F \in SUBSET Files,
           edges' = Remains(edges, F), twice' = Remains(twice, F),
           \A g \in Files \ F : indexed'[g] = indexed[g]
    PROVE  LET K == Picked(rows, {i \in DOMAIN rows : rows[i].from \notin F})
           IN /\ edges' \subseteq Edge /\ twice' \subseteq edges'
              /\ \A e \in edges' : e \in edges /\ e.to \in Nodes' /\ FileNode(e.from) \in Nodes'
              /\ \A e \in edges' : e.line > 0 => IsResolution(e)'
              /\ \A e \in twice' : e \in twice
              /\ K \in Seq(Row)
              /\ \A i \in DOMAIN K : K[i].from \notin F /\ Refers(indexed', K[i])
              /\ \A i \in DOMAIN K : \E j \in DOMAIN rows : K[i] = rows[j]
              /\ \A i, j \in DOMAIN K : K[i] = K[j] => i = j
<1> DEFINE I == {i \in DOMAIN rows : rows[i].from \notin F}
           K == Picked(rows, I)
<1>1. /\ rows \in Seq(Row) /\ edges \subseteq Edge /\ twice \subseteq edges
      /\ RowsOnce
  BY DEF EdgesIInv, ResolutionTypeOK, ReferencesHaveOneEdge, RowsOnce
<1>2. /\ \A e \in edges : e.to \in Nodes /\ FileNode(e.from) \in Nodes
      /\ \A e \in edges : e.line > 0 => IsResolution(e)
      /\ \A i \in DOMAIN rows : IsReference(rows[i])
  BY DEF EdgesIInv, EdgesAreSound, Resolved
<1>3. /\ K \in Seq(Row)
      /\ \A k \in DOMAIN K : \E i \in I : K[k] = rows[i]
      /\ \A k, l \in DOMAIN K : K[k] = K[l] => k = l
  BY <1>1, PickedType, I \in SUBSET DOMAIN rows DEF RowsOnce
<1>4. ASSUME NEW e \in edges'
      PROVE  /\ e \in edges /\ e.from \in Files \ F /\ e.to \in Node /\ e.to.file \in Files \ F
             /\ e.line \in Nat
  BY <1>1, <1>4 DEF Remains, Edge, Node
<1>5. ASSUME NEW e \in edges'
      PROVE  e.to \in Nodes' /\ FileNode(e.from) \in Nodes'
  <2>1. e.to \in Nodes /\ FileNode(e.from) \in Nodes
    BY <1>2, <1>4
  <2>2. indexed'[e.to.file] = indexed[e.to.file]
    BY <1>4
  <2>3. indexed'[FileNode(e.from).file] = indexed[FileNode(e.from).file]
    BY <1>4 DEF FileNode
  <2> QED
    BY <2>1, <2>2, <2>3, NodeStays
<1>6. ASSUME NEW e \in edges', e.line > 0
      PROVE  IsResolution(e)'
  <2>1. IsResolution(e) /\ indexed'[e.from] = indexed[e.from]
    BY <1>2, <1>4, <1>6
  <2> QED
    BY <2>1 DEF IsResolution
<1>7. ASSUME NEW k \in DOMAIN K
      PROVE  K[k].from \notin F /\ Refers(indexed', K[k])
  <2>1. PICK i \in I : K[k] = rows[i]
    BY <1>3
  <2>2. rows[i] \in Row /\ rows[i].from \notin F
    BY <1>1
  <2>3. Refers(indexed, rows[i])
    BY <1>2 DEF IsReference, Refers
  <2>4. indexed'[rows[i].from] = indexed[rows[i].from]
    BY <2>2 DEF Row
  <2>5. Refers(indexed', rows[i])
    BY <2>3, <2>4 DEF Refers
  <2> QED
    BY <2>1, <2>2, <2>5
<1>8. \A e \in twice' : e \in twice /\ e \in edges'
  BY <1>1 DEF Remains
<1>9. \A i \in DOMAIN K : \E j \in DOMAIN rows : K[i] = rows[j]
  BY <1>3
<1> QED
  BY <1>1, <1>3, <1>4, <1>5, <1>6, <1>7, <1>8, <1>9

(* Dropping files keeps the invariant's parts about the tables. *)
LEMMA CascadeKeeps ==
    ASSUME EdgesIInv, NEW F \in SUBSET Files, Cascade(F),
           \A g \in Files \ F : indexed'[g] = indexed[g],
           torn' = torn, phase # "resolved"
    PROVE  /\ EdgesAreSound' /\ ReferencesHaveOneEdge' /\ RowsAreOwed'
           /\ rows' \in Seq(Row) /\ edges' \subseteq Edge /\ twice' \subseteq edges'
<1> DEFINE K == Picked(rows, {i \in DOMAIN rows : rows[i].from \notin F})
<1>1. rows' = K /\ edges' = Remains(edges, F) /\ twice' = Remains(twice, F)
  BY DEF Cascade
<1>2. /\ edges' \subseteq Edge /\ twice' \subseteq edges'
      /\ \A e \in edges' : e \in edges /\ e.to \in Nodes' /\ FileNode(e.from) \in Nodes'
      /\ \A e \in edges' : e.line > 0 => IsResolution(e)'
      /\ \A e \in twice' : e \in twice
      /\ K \in Seq(Row)
      /\ \A i \in DOMAIN K : K[i].from \notin F /\ Refers(indexed', K[i])
      /\ \A i \in DOMAIN K : \E j \in DOMAIN rows : K[i] = rows[j]
      /\ \A i, j \in DOMAIN K : K[i] = K[j] => i = j
  BY <1>1, DroppingKeeps
<1> HIDE DEF K
<1>3. EdgesAreSound'
  <2>1. \A i \in DOMAIN rows' : Refers(indexed', rows'[i])
    BY <1>1, <1>2
  <2>2. \A i \in DOMAIN rows' : IsReference(rows[i])'
    BY <2>1 DEF IsReference, Refers
  <2> QED
    BY <1>2, <2>2 DEF EdgesAreSound, Resolved
<1>4. ReferencesHaveOneEdge'
  BY <1>1, <1>2 DEF ReferencesHaveOneEdge, EdgesIInv
<1>5. RowsAreOwed'
  BY <1>1, <1>2 DEF RowsAreOwed, EdgesIInv
<1> QED
  BY <1>1, <1>2, <1>3, <1>4, <1>5

(* Storing a file anew drops it and adds the rows of its content. *)
LEMMA StoredKeeps ==
    ASSUME EdgesIInv, NEW f \in Files, NEW c \in Contents, Stored(f, c),
           torn' = torn, phase # "resolved", phase' = phase
    PROVE  /\ EdgesAreSound' /\ ReferencesHaveOneEdge' /\ RowsAreOwed'
           /\ indexed' \in [Files -> Contents \cup {None}]
           /\ rows' \in Seq(Row) /\ edges' \subseteq Edge /\ twice' \subseteq edges'
<1> DEFINE K == Picked(rows, {i \in DOMAIN rows : rows[i].from \notin {f}})
           N == RowsFor(f, c)
<1>1. indexed \in [Files -> Contents \cup {None}] /\ c # None /\ c.refs \in Seq(Ref)
  BY ResolutionAssumption DEF EdgesIInv, ResolutionTypeOK
<1>2. CASE indexed[f] = c
  <2>1. UNCHANGED <<indexed, rows, edges, twice>>
    BY <1>2 DEF Stored, tableVars
  <2>2. EdgesAreSound'
    BY <2>1 DEF EdgesIInv, EdgesAreSound, Resolved, IsResolution, IsReference, Nodes
  <2>3. ReferencesHaveOneEdge'
    BY <2>1 DEF EdgesIInv, ReferencesHaveOneEdge
  <2>4. RowsAreOwed'
    BY <2>1 DEF EdgesIInv, RowsAreOwed
  <2> QED
    BY <1>1, <2>1, <2>2, <2>3, <2>4 DEF EdgesIInv, ResolutionTypeOK
<1>3. CASE indexed[f] # c
  <2>1. /\ indexed' = [indexed EXCEPT ![f] = c]
        /\ edges' = Remains(edges, {f}) /\ twice' = Remains(twice, {f})
        /\ rows' = Picked(rows, {i \in DOMAIN rows : rows[i].from # f}) \o N
    BY <1>3 DEF Stored
  <2>2. rows' = K \o N
    <3>1. {i \in DOMAIN rows : rows[i].from # f} = {i \in DOMAIN rows : rows[i].from \notin {f}}
      OBVIOUS
    <3> QED
      BY <2>1, <3>1
  <2>3. \A g \in Files \ {f} : indexed'[g] = indexed[g]
    BY <1>1, <2>1
  <2>4. /\ edges' \subseteq Edge /\ twice' \subseteq edges'
        /\ \A e \in edges' : e \in edges /\ e.to \in Nodes' /\ FileNode(e.from) \in Nodes'
        /\ \A e \in edges' : e.line > 0 => IsResolution(e)'
        /\ \A e \in twice' : e \in twice
        /\ K \in Seq(Row)
        /\ \A i \in DOMAIN K : K[i].from \notin {f} /\ Refers(indexed', K[i])
        /\ \A i \in DOMAIN K : \E j \in DOMAIN rows : K[i] = rows[j]
        /\ \A i, j \in DOMAIN K : K[i] = K[j] => i = j
    <3>1. {f} \in SUBSET Files
      OBVIOUS
    <3> HIDE DEF K
    <3> QED
      BY <2>1, <2>3, <3>1, DroppingKeeps DEF K
  <2>5. /\ N \in Seq(Row) /\ Len(N) = Len(c.refs)
        /\ \A i \in 1..Len(N) : N[i] = [from |-> f, ref |-> c.refs[i], line |-> i]
    <3>1. Len(c.refs) \in Nat /\ \A i \in 1..Len(c.refs) : c.refs[i] \in Ref
      BY <1>1
    <3>2. N = [i \in 1..Len(c.refs) |-> [from |-> f, ref |-> c.refs[i], line |-> i]]
      BY DEF RowsFor
    <3>3. \A i \in 1..Len(c.refs) : [from |-> f, ref |-> c.refs[i], line |-> i] \in Row
      BY <3>1 DEF Row
    <3> HIDE DEF N
    <3>4. N \in Seq(Row) /\ Len(N) = Len(c.refs)
      BY <3>1, <3>2, <3>3
    <3> QED
      BY <3>2, <3>4
  <2>6. \A i \in 1..Len(N) : Refers(indexed', N[i]) /\ N[i].from = f /\ N[i].line = i
    <3> SUFFICES ASSUME NEW i \in 1..Len(N)
                 PROVE  Refers(indexed', N[i]) /\ N[i].from = f /\ N[i].line = i
      OBVIOUS
    <3>1. indexed'[f] = c /\ DOMAIN c.refs = 1..Len(c.refs)
      BY <1>1, <2>1
    <3> HIDE DEF N
    <3>2. N[i] = [from |-> f, ref |-> c.refs[i], line |-> i] /\ i \in 1..Len(c.refs)
      BY <2>5
    <3>3. N[i].from = f /\ N[i].line = i /\ N[i].ref = c.refs[i] /\ i \in DOMAIN c.refs
      BY <3>1, <3>2
    <3> QED
      BY <1>1, <3>1, <3>3 DEF Refers
  <2> HIDE DEF K, N
  <2>7. /\ rows' \in Seq(Row) /\ Len(rows') = Len(K) + Len(N)
        /\ DOMAIN rows' = 1..(Len(K) + Len(N))
        /\ \A i \in 1..Len(K) : rows'[i] = K[i]
        /\ \A i \in (Len(K) + 1)..(Len(K) + Len(N)) : i - Len(K) \in 1..Len(N) /\ rows'[i] = N[i - Len(K)]
        /\ Len(K) \in Nat /\ Len(N) \in Nat /\ DOMAIN K = 1..Len(K)
    <3>1. K \in Seq(Row) /\ N \in Seq(Row)
      BY <2>4, <2>5
    <3>2. rows' \in Seq(Row) /\ Len(rows') = Len(K) + Len(N)
      BY <2>2, <3>1
    <3>3. Len(K) \in Nat /\ Len(N) \in Nat /\ DOMAIN K = 1..Len(K)
      BY <3>1
    <3>4. DOMAIN rows' = 1..(Len(K) + Len(N))
      BY <3>2, <3>3
    <3>5. \A i \in 1..(Len(K) + Len(N)) :
            rows'[i] = IF i <= Len(K) THEN K[i] ELSE N[i - Len(K)]
      BY <2>2, <3>1
    <3> QED
      BY <3>2, <3>3, <3>4, <3>5
  <2>8. \A i \in DOMAIN rows' : i \in 1..Len(K) \/ i \in (Len(K) + 1)..(Len(K) + Len(N))
    BY <2>7
  <2>9. \A i \in DOMAIN rows' : Refers(indexed', rows'[i])
    BY <2>4, <2>6, <2>7, <2>8
  <2>10. EdgesAreSound'
    <3>1. \A i \in DOMAIN rows' : IsReference(rows[i])'
      BY <2>9 DEF IsReference, Refers
    <3> QED
      BY <2>4, <3>1 DEF EdgesAreSound, Resolved
  <2>11. ASSUME NEW i \in DOMAIN rows', NEW j \in DOMAIN rows', rows'[i] = rows'[j]
         PROVE  i = j
    <3>1. CASE i \in 1..Len(K) /\ j \in 1..Len(K)
      BY <2>4, <2>7, <2>11, <3>1
    <3>2. CASE i \in 1..Len(K) /\ j \in (Len(K) + 1)..(Len(K) + Len(N))
      <4>1. rows'[i].from \notin {f}
        BY <2>4, <2>7, <3>2
      <4>2. rows'[j].from = f
        BY <2>6, <2>7, <3>2
      <4> QED
        BY <2>11, <4>1, <4>2
    <3>3. CASE i \in (Len(K) + 1)..(Len(K) + Len(N)) /\ j \in 1..Len(K)
      <4>1. rows'[j].from \notin {f}
        BY <2>4, <2>7, <3>3
      <4>2. rows'[i].from = f
        BY <2>6, <2>7, <3>3
      <4> QED
        BY <2>11, <4>1, <4>2
    <3>4. CASE i \in (Len(K) + 1)..(Len(K) + Len(N)) /\ j \in (Len(K) + 1)..(Len(K) + Len(N))
      <4>1. i - Len(K) = j - Len(K)
        BY <2>6, <2>7, <2>11, <3>4
      <4> QED
        BY <2>7, <3>4, <4>1
    <3> QED
      BY <2>8, <3>1, <3>2, <3>3, <3>4
  <2>12. ReferencesHaveOneEdge'
    BY <2>4, <2>11 DEF ReferencesHaveOneEdge, EdgesIInv
  <2>13. ASSUME ~torn, NEW i \in DOMAIN rows', NEW e \in edges',
                e.from = rows'[i].from, e.line = rows'[i].line
         PROVE  FALSE
    <3>1. e \in edges /\ e.from # f
      BY <2>1 DEF Remains
    <3>2. i \in 1..Len(K)
      BY <2>6, <2>7, <2>8, <2>13, <3>1
    <3>3. PICK j \in DOMAIN rows : rows'[i] = rows[j]
      BY <2>4, <2>7, <3>2
    <3> QED
      BY <2>13, <3>1, <3>3 DEF EdgesIInv, RowsAreOwed
  <2>14. RowsAreOwed'
    BY <2>13 DEF RowsAreOwed
  <2> QED
    BY <1>1, <2>1, <2>4, <2>7, <2>10, <2>12, <2>14
<1> QED
  BY <1>2, <1>3

LEMMA ReferencesAreOwed ==
    ASSUME EdgesIInv, NEW i \in DOMAIN rows, NEW e \in edges, ~torn, phase # "resolved"
    PROVE  ~(e.from = rows[i].from /\ e.line = rows[i].line)
BY DEF EdgesIInv, RowsAreOwed

(* Resolving rows of the table adds edges of what is stored, none of them   *)
(* a second time unless a kill left the rows of edges behind. *)
LEMMA ResolveKeeps ==
    ASSUME EdgesIInv, NEW R \in Seq(Row), Resolve(R),
           \A k \in DOMAIN R : \E i \in DOMAIN rows : R[k] = rows[i],
           torn' = torn, phase # "resolved", phase' = "resolved"
    PROVE  /\ EdgesAreSound' /\ ReferencesHaveOneEdge' /\ RowsAreOwed'
           /\ indexed' = indexed /\ rows' = rows
           /\ edges' \subseteq Edge /\ twice' \subseteq edges'
           /\ known' \in SUBSET Names
           /\ looked' \in [Names -> (SUBSET Node) \cup {None}]
           /\ work' \in [rows : Seq(Row), resolved : Seq(Row)]
<1>1. ResolutionTypeOK /\ RowsOnce
  BY DEF EdgesIInv, ReferencesHaveOneEdge, RowsOnce
<1>2. /\ indexed' = indexed /\ rows' = rows
      /\ known' \in SUBSET Names
      /\ looked' \in [Names -> (SUBSET Node) \cup {None}]
      /\ work' \in [rows : Seq(Row), resolved : Seq(Row)]
      /\ \E F \in SUBSET Edge : AddedFor(F, R)
  BY <1>1, ResolveAdds
<1>3. PICK F \in SUBSET Edge : AddedFor(F, R)
  BY <1>2
<1>4. /\ edges' = edges \cup F /\ twice' = twice \cup (F \cap edges)
      /\ \A e \in F : e.to \in Nodes /\ FileNode(e.from) \in Nodes
  BY <1>3 DEF AddedFor
<1>5. /\ edges \subseteq Edge /\ twice \subseteq edges
      /\ \A e \in edges : e.to \in Nodes /\ FileNode(e.from) \in Nodes
      /\ \A e \in edges : e.line > 0 => IsResolution(e)
      /\ \A i \in DOMAIN rows : IsReference(rows[i])
  BY DEF EdgesIInv, ResolutionTypeOK, EdgesAreSound, Resolved
<1>6. ASSUME NEW e \in F
      PROVE  \E j \in DOMAIN work'.resolved : \E i \in DOMAIN rows :
               /\ work'.resolved[j] = rows[i]
               /\ e.from = rows[i].from /\ e.line = rows[i].line
               /\ Fits(e.from, rows[i].ref, e.to) /\ e.kind = EdgeKind(rows[i].ref, e.to)
  <2>1. PICK j \in DOMAIN work'.resolved, k \in DOMAIN R :
          /\ work'.resolved[j] = R[k]
          /\ e.from = R[k].from /\ e.line = R[k].line
          /\ Fits(e.from, R[k].ref, e.to) /\ e.kind = EdgeKind(R[k].ref, e.to)
    BY <1>3 DEF AddedFor
  <2>2. PICK i \in DOMAIN rows : R[k] = rows[i]
    OBVIOUS
  <2> QED
    BY <2>1, <2>2
<1>7. \A e \in F : IsResolution(e)
  <2> SUFFICES ASSUME NEW e \in F
               PROVE  IsResolution(e)
    OBVIOUS
  <2>1. PICK i \in DOMAIN rows :
          /\ e.from = rows[i].from /\ e.line = rows[i].line
          /\ Fits(e.from, rows[i].ref, e.to) /\ e.kind = EdgeKind(rows[i].ref, e.to)
    BY <1>6
  <2>2. /\ indexed[e.from] # None /\ e.line \in DOMAIN indexed[e.from].refs
        /\ indexed[e.from].refs[e.line] = rows[i].ref
    BY <1>5, <2>1 DEF IsReference
  <2> QED
    BY <2>1, <2>2 DEF IsResolution
<1>8. Nodes' = Nodes
  BY <1>2 DEF Nodes
<1>9. EdgesAreSound'
  <2>1. \A e \in edges' : e.to \in Nodes' /\ FileNode(e.from) \in Nodes'
    BY <1>4, <1>5, <1>8
  <2>2. \A e \in edges' : e.line > 0 => IsResolution(e)
    BY <1>4, <1>5, <1>7
  <2>3. \A e \in edges' : e.line > 0 => IsResolution(e)'
    BY <1>2, <2>2 DEF IsResolution
  <2>4. \A i \in DOMAIN rows' : IsReference(rows[i])'
    BY <1>2, <1>5 DEF IsReference
  <2> QED
    BY <2>1, <2>3, <2>4 DEF EdgesAreSound, Resolved
<1>10. ASSUME NEW e \in F \cap edges, ~torn
       PROVE  FALSE
  <2>1. PICK i \in DOMAIN rows : e.from = rows[i].from /\ e.line = rows[i].line
    BY <1>6
  <2> QED
    BY <1>10, <2>1, ReferencesAreOwed
<1>11. ReferencesHaveOneEdge'
  <2>1. \A e \in twice : torn \/ e.line = 0
    BY DEF EdgesIInv, ReferencesHaveOneEdge
  <2>2. \A e \in twice' : torn' \/ e.line = 0
    BY <1>4, <1>10, <2>1
  <2>3. \A i, j \in DOMAIN rows' : rows'[i] = rows'[j] => i = j
    BY <1>1, <1>2 DEF RowsOnce
  <2> QED
    BY <2>2, <2>3 DEF ReferencesHaveOneEdge
<1>12. ASSUME ~torn, NEW i \in DOMAIN rows, NEW e \in edges',
              e.from = rows[i].from, e.line = rows[i].line
       PROVE  \E j \in DOMAIN work'.resolved : work'.resolved[j] = rows[i]
  <2>1. e \in F
    BY <1>4, <1>12, ReferencesAreOwed
  <2>2. PICK j \in DOMAIN work'.resolved, l \in DOMAIN rows :
          work'.resolved[j] = rows[l] /\ e.from = rows[l].from /\ e.line = rows[l].line
    BY <1>6, <2>1
  <2>3. rows[l].from = rows[i].from /\ rows[l].line = rows[i].line
    BY <1>12, <2>2
  <2>4. rows[l].ref = rows[i].ref
    <3>1. indexed[rows[l].from].refs[rows[l].line] = rows[l].ref
      BY <1>5 DEF IsReference
    <3>2. indexed[rows[i].from].refs[rows[i].line] = rows[i].ref
      BY <1>5 DEF IsReference
    <3> QED
      BY <2>3, <3>1, <3>2
  <2>5. rows[l] \in Row /\ rows[i] \in Row
    BY <1>1 DEF ResolutionTypeOK
  <2>6. rows[l] = rows[i]
    BY <2>3, <2>4, <2>5 DEF Row
  <2> QED
    BY <2>2, <2>6
<1>13. RowsAreOwed'
  BY <1>2, <1>12 DEF RowsAreOwed
<1> QED
  BY <1>2, <1>4, <1>5, <1>9, <1>11, <1>13

(* Deleting the rows of a batch: those of resolved references are gone     *)
(* whatever their line. *)
LEMMA WithoutKeeps ==
    ASSUME EdgesIInv, NEW gone \in Seq(Row), rows' = Without(rows, gone),
           UNCHANGED <<indexed, edges, twice, torn>>,
           \A e \in edges, i \in DOMAIN rows' :
             ~(~torn /\ e.from = rows'[i].from /\ e.line = rows'[i].line)
    PROVE  /\ EdgesAreSound' /\ ReferencesHaveOneEdge' /\ RowsAreOwed'
           /\ rows' \in Seq(Row)
<1> DEFINE I == {i \in DOMAIN rows :
                   \A j \in DOMAIN gone : gone[j].from # rows[i].from \/ gone[j].ref # rows[i].ref}
<1>1. rows \in Seq(Row) /\ RowsOnce
  BY DEF EdgesIInv, ResolutionTypeOK, ReferencesHaveOneEdge, RowsOnce
<1>2. rows' = Picked(rows, I) /\ I \in SUBSET DOMAIN rows
  BY DEF Without
<1> HIDE DEF I
<1>3. /\ rows' \in Seq(Row)
      /\ \A k \in DOMAIN rows' : \E i \in I : rows'[k] = rows[i]
      /\ \A k, l \in DOMAIN rows' : rows'[k] = rows'[l] => k = l
  BY <1>1, <1>2, PickedType DEF RowsOnce
<1>4. \A k \in DOMAIN rows' : Refers(indexed', rows'[k])
  <2>1. \A i \in DOMAIN rows : Refers(indexed, rows[i])
    BY DEF EdgesIInv, EdgesAreSound, IsReference, Refers
  <2> QED
    BY <1>2, <1>3, <2>1
<1>5. EdgesAreSound'
  <2>1. \A i \in DOMAIN rows' : IsReference(rows[i])'
    BY <1>4 DEF IsReference, Refers
  <2>2. /\ \A e \in edges : e.to \in Nodes /\ FileNode(e.from) \in Nodes
        /\ \A e \in edges : e.line > 0 => IsResolution(e)
    BY DEF EdgesIInv, EdgesAreSound, Resolved
  <2>3. Nodes' = Nodes /\ \A e \in edges' : e.line > 0 => IsResolution(e)'
    BY <2>2 DEF Nodes, IsResolution
  <2> QED
    BY <2>1, <2>2, <2>3 DEF EdgesAreSound, Resolved
<1>6. ReferencesHaveOneEdge'
  BY <1>3 DEF EdgesIInv, ReferencesHaveOneEdge
<1>7. RowsAreOwed'
  BY DEF RowsAreOwed
<1> QED
  BY <1>3, <1>5, <1>6, <1>7

----------------------------------------------------------------------------
(* One lemma for each action.                                              *)

TreeOK == disk \in [Files -> Contents \cup {None}] /\ edits \in 0..MaxEdits
TablesOK ==
  /\ indexed \in [Files -> Contents \cup {None}]
  /\ rows \in Seq(Row)
  /\ edges \subseteq Edge /\ twice \subseteq edges
CachesOK ==
  /\ known \in (SUBSET Names) \cup {None}
  /\ looked \in [Names -> (SUBSET Node) \cup {None}]
OpOK ==
  /\ op \in Ops \cup {None} /\ (Idle <=> phase = "idle")
  /\ phase \in {"idle", "store", "batch", "persist", "resolved", "unresolved", "synthesize"}
  /\ todo \subseteq Files /\ changed \subseteq Files
WorkOK == work \in [rows : Seq(Row), resolved : Seq(Row)]
LastOK == last \in [op : Ops \cup {"scratch", None}, stored : SUBSET Files]

LEMMA TypeSplit ==
    ResolutionTypeOK <=>
      TreeOK /\ TablesOK /\ CachesOK /\ OpOK /\ WorkOK /\ LastOK /\ torn \in BOOLEAN
BY DEF ResolutionTypeOK, TreeOK, TablesOK, CachesOK, OpOK, WorkOK, LastOK

LEMMA TypeSplitNext ==
    ResolutionTypeOK' <=>
      TreeOK' /\ TablesOK' /\ CachesOK' /\ OpOK' /\ WorkOK' /\ LastOK' /\ torn' \in BOOLEAN
BY DEF ResolutionTypeOK, TreeOK, TablesOK, CachesOK, OpOK, WorkOK, LastOK, Idle

LEMMA NoWorkOK == NoWork \in [rows : Seq(Row), resolved : Seq(Row)]
<1>1. <<>> \in Seq(Row)
  OBVIOUS
<1> QED
  BY <1>1 DEF NoWork

LEMMA TreeStands == ASSUME TreeOK, UNCHANGED treeVars PROVE TreeOK'
BY DEF TreeOK, treeVars

LEMMA TablesStand == ASSUME TablesOK, UNCHANGED tableVars PROVE TablesOK'
BY DEF TablesOK, tableVars

LEMMA CachesStand == ASSUME CachesOK, UNCHANGED cacheVars PROVE CachesOK'
BY DEF CachesOK, cacheVars

LEMMA ClearedOK == ASSUME Clear PROVE CachesOK'
BY DEF CachesOK, Clear

LEMMA EndOK ==
    ASSUME NEW o \in Ops \cup {"scratch", None}, NEW S \in SUBSET Files, End(o, S)
    PROVE  OpOK' /\ WorkOK' /\ LastOK' /\ phase' = "idle"
<1>1. OpOK'
  BY DEF End, OpOK, Idle
<1>2. WorkOK'
  BY NoWorkOK DEF End, WorkOK
<1>3. LastOK'
  BY DEF End, LastOK
<1> QED
  BY <1>1, <1>2, <1>3 DEF End

LEMMA BeginOK ==
    ASSUME NEW o, Begin(o), phase' # "idle",
           phase' \in {"idle", "store", "batch", "persist", "resolved", "unresolved", "synthesize"},
           todo' \subseteq Files, changed' \subseteq Files
    PROVE  OpOK' /\ LastOK'
<1>1. o \in Ops /\ op' = o /\ None \notin Ops
  BY ResolutionAssumption DEF Begin
<1>2. OpOK'
  BY <1>1 DEF OpOK, Idle
<1>3. LastOK'
  BY DEF Begin, LastOK
<1> QED
  BY <1>2, <1>3

(* What is said of the tables stands while they do, unless the batch that  *)
(* was resolved is forgotten. *)
LEMMA GraphStands ==
    ASSUME EdgesIInv, UNCHANGED tableVars, torn => torn',
           phase = "resolved" => torn' \/ (phase' = "resolved" /\ work' = work)
    PROVE  EdgesAreSound' /\ ReferencesHaveOneEdge' /\ RowsAreOwed'
<1>1. UNCHANGED <<indexed, rows, edges, twice>>
  BY DEF tableVars
<1>2. EdgesAreSound'
  <2>1. /\ \A e \in edges : e.to \in Nodes /\ FileNode(e.from) \in Nodes
        /\ \A e \in edges : e.line > 0 => IsResolution(e)
        /\ \A i \in DOMAIN rows : Refers(indexed, rows[i])
    BY DEF EdgesIInv, EdgesAreSound, Resolved, IsReference, Refers
  <2>2. Nodes' = Nodes
    BY <1>1 DEF Nodes
  <2>3. \A e \in edges' : e.line > 0 => IsResolution(e)'
    BY <1>1, <2>1 DEF IsResolution
  <2>4. \A i \in DOMAIN rows' : IsReference(rows[i])'
    BY <1>1, <2>1 DEF IsReference, Refers
  <2> QED
    BY <1>1, <2>1, <2>2, <2>3, <2>4 DEF EdgesAreSound, Resolved
<1>3. ReferencesHaveOneEdge'
  BY <1>1 DEF EdgesIInv, ReferencesHaveOneEdge
<1>4. RowsAreOwed'
  BY <1>1 DEF EdgesIInv, RowsAreOwed
<1> QED
  BY <1>2, <1>3, <1>4

LEMMA IdlePhase == ASSUME EdgesIInv, Idle PROVE phase = "idle"
BY DEF EdgesIInv, ResolutionTypeOK

LEMMA EditPreserves ==
    ASSUME EdgesIInv, NEW f \in Files, NEW c \in Choices[f] \cup {None}, Edit(f, c)
    PROVE  EdgesIInv'
<1>1. /\ UNCHANGED <<tableVars, cacheVars, op, phase, todo, changed, work, last, torn>>
      /\ edits < MaxEdits /\ edits' = edits + 1 /\ disk' = [disk EXCEPT ![f] = c]
  BY DEF Edit, opVars
<1>2. ResolutionTypeOK
  BY DEF EdgesIInv
<1>3. c \in Contents \cup {None}
  BY DEF Contents
<1>4. TreeOK'
  BY <1>1, <1>2, <1>3, ResolutionAssumption DEF ResolutionTypeOK, TreeOK
<1>5. TablesOK' /\ CachesOK'
  BY <1>1, <1>2, TypeSplit, TablesStand, CachesStand
<1>6. OpOK' /\ WorkOK' /\ LastOK' /\ torn' \in BOOLEAN
  BY <1>1, <1>2 DEF ResolutionTypeOK, OpOK, WorkOK, LastOK, Idle
<1>7. EdgesAreSound' /\ ReferencesHaveOneEdge' /\ RowsAreOwed'
  BY <1>1, GraphStands
<1> QED
  BY <1>4, <1>5, <1>6, <1>7, TypeSplitNext DEF EdgesIInv

LEMMA IndexAllPreserves == ASSUME EdgesIInv, IndexAll PROVE EdgesIInv'
<1>1. /\ Begin("indexAll") /\ Idle
      /\ phase' = "store" /\ todo' = OnDisk /\ changed' = {}
      /\ UNCHANGED treeVars /\ UNCHANGED tableVars /\ UNCHANGED cacheVars
      /\ work' = work /\ torn' = torn
  BY DEF IndexAll, Begin
<1>2. ResolutionTypeOK /\ phase = "idle"
  BY <1>1, IdlePhase DEF EdgesIInv
<1>3. OpOK' /\ LastOK'
  BY <1>1, BeginOK DEF OnDisk
<1>4. TreeOK' /\ TablesOK' /\ CachesOK' /\ WorkOK' /\ torn' \in BOOLEAN
  BY <1>1, <1>2, TypeSplit, TreeStands, TablesStand, CachesStand DEF WorkOK
<1>5. EdgesAreSound' /\ ReferencesHaveOneEdge' /\ RowsAreOwed'
  BY <1>1, <1>2, GraphStands
<1> QED
  BY <1>3, <1>4, <1>5, TypeSplitNext DEF EdgesIInv

LEMMA IndexFilesPreserves == ASSUME EdgesIInv, IndexFiles PROVE EdgesIInv'
<1>1. /\ Begin("indexFiles") /\ Idle
      /\ phase' = "store" /\ (\E f \in Files : todo' = {f}) /\ changed' = {}
      /\ UNCHANGED treeVars /\ UNCHANGED tableVars /\ UNCHANGED cacheVars
      /\ work' = work /\ torn' = torn
  BY DEF IndexFiles, Begin
<1>2. ResolutionTypeOK /\ phase = "idle"
  BY <1>1, IdlePhase DEF EdgesIInv
<1>3. OpOK' /\ LastOK'
  BY <1>1, BeginOK
<1>4. TreeOK' /\ TablesOK' /\ CachesOK' /\ WorkOK' /\ torn' \in BOOLEAN
  BY <1>1, <1>2, TypeSplit, TreeStands, TablesStand, CachesStand DEF WorkOK
<1>5. EdgesAreSound' /\ ReferencesHaveOneEdge' /\ RowsAreOwed'
  BY <1>1, <1>2, GraphStands
<1> QED
  BY <1>3, <1>4, <1>5, TypeSplitNext DEF EdgesIInv

LEMMA SyncPreserves == ASSUME EdgesIInv, Sync PROVE EdgesIInv'
<1> DEFINE gone == {f \in Files : indexed[f] # None /\ disk[f] = None}
<1>1. /\ Begin("sync") /\ Idle
      /\ indexed' = [f \in Files |-> IF f \in gone THEN None ELSE indexed[f]]
      /\ Cascade(gone)
      /\ todo' = {f \in OnDisk : disk[f] # indexed[f]} /\ changed' = todo'
      /\ phase' = "store"
      /\ UNCHANGED treeVars /\ UNCHANGED cacheVars /\ work' = work /\ torn' = torn
  BY DEF Sync, Begin
<1>2. ResolutionTypeOK /\ phase = "idle"
  BY <1>1, IdlePhase DEF EdgesIInv
<1>3. OpOK' /\ LastOK'
  BY <1>1, BeginOK DEF OnDisk
<1>4. TreeOK' /\ CachesOK' /\ WorkOK' /\ torn' \in BOOLEAN
  BY <1>1, <1>2, TypeSplit, TreeStands, CachesStand DEF WorkOK
<1>5. gone \in SUBSET Files /\ \A g \in Files \ gone : indexed'[g] = indexed[g]
  BY <1>1
<1> HIDE DEF gone
<1>6. /\ EdgesAreSound' /\ ReferencesHaveOneEdge' /\ RowsAreOwed'
      /\ rows' \in Seq(Row) /\ edges' \subseteq Edge /\ twice' \subseteq edges'
  BY <1>1, <1>2, <1>5, CascadeKeeps
<1>7. indexed' \in [Files -> Contents \cup {None}]
  BY <1>1, <1>2 DEF ResolutionTypeOK
<1>8. TablesOK'
  BY <1>6, <1>7 DEF TablesOK
<1> QED
  BY <1>3, <1>4, <1>6, <1>8, TypeSplitNext DEF EdgesIInv

LEMMA ResolveReferencesPreserves == ASSUME EdgesIInv, ResolveReferences PROVE EdgesIInv'
<1>1. /\ Begin("resolveReferences") /\ Idle
      /\ Resolve(rows) /\ phase' = "resolved"
      /\ UNCHANGED treeVars /\ todo' = todo /\ changed' = changed /\ torn' = torn
  BY DEF ResolveReferences, Begin
<1>2. ResolutionTypeOK /\ phase = "idle"
  BY <1>1, IdlePhase DEF EdgesIInv
<1>3. rows \in Seq(Row) /\ todo \subseteq Files /\ changed \subseteq Files
  BY <1>2 DEF ResolutionTypeOK
<1>4. OpOK' /\ LastOK'
  BY <1>1, <1>3, BeginOK
<1>5. /\ EdgesAreSound' /\ ReferencesHaveOneEdge' /\ RowsAreOwed'
      /\ indexed' = indexed /\ rows' = rows
      /\ edges' \subseteq Edge /\ twice' \subseteq edges'
      /\ known' \in SUBSET Names
      /\ looked' \in [Names -> (SUBSET Node) \cup {None}]
      /\ work' \in [rows : Seq(Row), resolved : Seq(Row)]
  BY <1>1, <1>2, <1>3, ResolveKeeps
<1>6. TreeOK' /\ torn' \in BOOLEAN
  BY <1>1, <1>2, TypeSplit, TreeStands
<1>7. TablesOK' /\ CachesOK' /\ WorkOK'
  BY <1>2, <1>5 DEF ResolutionTypeOK, TablesOK, CachesOK, WorkOK
<1> QED
  BY <1>4, <1>5, <1>6, <1>7, TypeSplitNext DEF EdgesIInv

LEMMA ClearTablesPreserves == ASSUME EdgesIInv, ClearTables PROVE EdgesIInv'
<1>1. /\ Idle /\ "clear" \in Ops
      /\ indexed' = [f \in Files |-> None]
      /\ rows' = <<>> /\ edges' = {} /\ twice' = {}
      /\ last' = [op |-> "clear", stored |-> {}]
      /\ UNCHANGED treeVars /\ UNCHANGED cacheVars /\ torn' = torn
      /\ UNCHANGED <<op, phase, todo, changed, work>>
  BY DEF ClearTables, opVars
<1>2. ResolutionTypeOK
  BY DEF EdgesIInv
<1>3. TreeOK' /\ CachesOK' /\ torn' \in BOOLEAN
  BY <1>1, <1>2, TypeSplit, TreeStands, CachesStand
<1>4. OpOK' /\ WorkOK' /\ LastOK'
  BY <1>1, <1>2 DEF ResolutionTypeOK, OpOK, WorkOK, LastOK, Idle
<1>5. TablesOK'
  BY <1>1 DEF TablesOK
<1>6. EdgesAreSound' /\ ReferencesHaveOneEdge' /\ RowsAreOwed'
  BY <1>1 DEF EdgesAreSound, Resolved, ReferencesHaveOneEdge, RowsAreOwed
<1> QED
  BY <1>3, <1>4, <1>5, <1>6, TypeSplitNext DEF EdgesIInv

LEMMA StoreFilePreserves == ASSUME EdgesIInv, StoreFile PROVE EdgesIInv'
<1>1. /\ phase = "store" /\ UNCHANGED treeVars /\ UNCHANGED cacheVars
      /\ op' = op /\ phase' = phase /\ work' = work /\ torn' = torn
  BY DEF StoreFile
<1>2. PICK f \in todo :
        /\ todo' = todo \ {f}
        /\ IF disk[f] = None
             THEN UNCHANGED <<tableVars, changed, last>>
             ELSE /\ Stored(f, disk[f])
                  /\ changed' = changed \cup {f}
                  /\ last' = IF indexed[f] = disk[f] THEN last ELSE [last EXCEPT !.stored = @ \cup {f}]
  BY DEF StoreFile
<1>3. ResolutionTypeOK /\ f \in Files
  BY DEF EdgesIInv, ResolutionTypeOK
<1>4. TreeOK' /\ CachesOK' /\ WorkOK' /\ torn' \in BOOLEAN
  BY <1>1, <1>3, TypeSplit, TreeStands, CachesStand DEF WorkOK
<1>5. changed' \subseteq Files /\ LastOK'
  <2>1. changed \subseteq Files /\ last \in [op : Ops \cup {"scratch", None}, stored : SUBSET Files]
    BY <1>3 DEF ResolutionTypeOK
  <2>2. changed' = changed \/ changed' = changed \cup {f}
    BY <1>2
  <2>3. last' = last \/ last' = [last EXCEPT !.stored = @ \cup {f}]
    BY <1>2
  <2>4. last' \in [op : Ops \cup {"scratch", None}, stored : SUBSET Files]
    BY <1>3, <2>1, <2>3
  <2> QED
    BY <1>3, <2>1, <2>2, <2>4 DEF LastOK
<1>6. OpOK'
  BY <1>1, <1>2, <1>3, <1>5 DEF ResolutionTypeOK, OpOK, Idle
<1>7. TablesOK' /\ EdgesAreSound' /\ ReferencesHaveOneEdge' /\ RowsAreOwed'
  <2>1. CASE disk[f] = None
    <3>1. UNCHANGED tableVars
      BY <1>2, <2>1
    <3> QED
      BY <1>1, <1>3, <3>1, TypeSplit, TablesStand, GraphStands
  <2>2. CASE disk[f] # None
    <3>1. disk[f] \in Contents /\ Stored(f, disk[f])
      BY <1>2, <1>3, <2>2 DEF ResolutionTypeOK
    <3>2. /\ EdgesAreSound' /\ ReferencesHaveOneEdge' /\ RowsAreOwed'
          /\ indexed' \in [Files -> Contents \cup {None}]
          /\ rows' \in Seq(Row) /\ edges' \subseteq Edge /\ twice' \subseteq edges'
      BY <1>1, <1>3, <3>1, StoredKeeps
    <3> QED
      BY <3>2 DEF TablesOK
  <2> QED
    BY <2>1, <2>2
<1> QED
  BY <1>4, <1>5, <1>6, <1>7, TypeSplitNext DEF EdgesIInv

LEMMA AllStoredPreserves == ASSUME EdgesIInv, AllStored PROVE EdgesIInv'
<1>1. /\ phase = "store" /\ UNCHANGED treeVars /\ UNCHANGED tableVars /\ torn' = torn
      /\ \/ \E o \in {op, None} : End(o, last.stored) /\ UNCHANGED cacheVars
         \/ /\ Clear /\ phase' \in {"batch", "persist"}
            /\ UNCHANGED <<op, todo, changed, work, last>>
  BY DEF AllStored
<1>2. ResolutionTypeOK
  BY DEF EdgesIInv
<1>3. TreeOK' /\ TablesOK' /\ torn' \in BOOLEAN
  BY <1>1, <1>2, TypeSplit, TreeStands, TablesStand
<1>4. EdgesAreSound' /\ ReferencesHaveOneEdge' /\ RowsAreOwed'
  BY <1>1, GraphStands
<1>5. CASE \E o \in {op, None} : End(o, last.stored) /\ UNCHANGED cacheVars
  <2>1. PICK o \in {op, None} : End(o, last.stored) /\ UNCHANGED cacheVars
    BY <1>5
  <2>2. o \in Ops \cup {"scratch", None} /\ last.stored \in SUBSET Files
    BY <1>2 DEF ResolutionTypeOK
  <2>3. OpOK' /\ WorkOK' /\ LastOK' /\ CachesOK'
    BY <1>2, <2>1, <2>2, EndOK, TypeSplit, CachesStand
  <2> QED
    BY <1>3, <1>4, <2>3, TypeSplitNext DEF EdgesIInv
<1>6. CASE /\ Clear /\ phase' \in {"batch", "persist"}
           /\ UNCHANGED <<op, todo, changed, work, last>>
  <2>1. CachesOK'
    BY <1>6, ClearedOK
  <2>2. OpOK' /\ WorkOK' /\ LastOK'
    BY <1>1, <1>2, <1>6 DEF ResolutionTypeOK, OpOK, WorkOK, LastOK, Idle
  <2> QED
    BY <1>3, <1>4, <2>1, <2>2, TypeSplitNext DEF EdgesIInv
<1> QED
  BY <1>1, <1>5, <1>6

(* A batch of rows R is resolved. *)
LEMMA BatchResolved ==
    ASSUME EdgesIInv, NEW R \in Seq(Row), Resolve(R),
           \A k \in DOMAIN R : \E i \in DOMAIN rows : R[k] = rows[i],
           phase \in {"persist", "batch"}, phase' = "resolved",
           UNCHANGED <<treeVars, op, todo, changed, last, torn>>
    PROVE  EdgesIInv'
<1>1. ResolutionTypeOK
  BY DEF EdgesIInv
<1>2. /\ EdgesAreSound' /\ ReferencesHaveOneEdge' /\ RowsAreOwed'
      /\ indexed' = indexed /\ rows' = rows
      /\ edges' \subseteq Edge /\ twice' \subseteq edges'
      /\ known' \in SUBSET Names
      /\ looked' \in [Names -> (SUBSET Node) \cup {None}]
      /\ work' \in [rows : Seq(Row), resolved : Seq(Row)]
  BY ResolveKeeps
<1>3. TreeOK' /\ torn' \in BOOLEAN
  BY <1>1, TypeSplit, TreeStands
<1>4. TablesOK' /\ CachesOK' /\ WorkOK'
  BY <1>1, <1>2 DEF ResolutionTypeOK, TablesOK, CachesOK, WorkOK
<1>5. OpOK' /\ LastOK'
  BY <1>1 DEF ResolutionTypeOK, OpOK, LastOK, Idle
<1> QED
  BY <1>2, <1>3, <1>4, <1>5, TypeSplitNext DEF EdgesIInv

LEMMA PersistPreserves == ASSUME EdgesIInv, Persist PROVE EdgesIInv'
<1> DEFINE I == {i \in DOMAIN rows : rows[i].from \in changed}
           R == Picked(rows, I)
<1>1. /\ Resolve(R) /\ phase \in {"persist", "batch"} /\ phase' = "resolved"
      /\ UNCHANGED <<treeVars, op, todo, changed, last, torn>>
  BY DEF Persist
<1>2. rows \in Seq(Row) /\ I \in SUBSET DOMAIN rows
  BY DEF EdgesIInv, ResolutionTypeOK
<1> HIDE DEF I
<1>3. R \in Seq(Row) /\ \A k \in DOMAIN R : \E i \in I : R[k] = rows[i]
  BY <1>2, PickedType
<1> HIDE DEF R
<1> QED
  BY <1>1, <1>2, <1>3, BatchResolved

LEMMA TakeBatchPreserves == ASSUME EdgesIInv, TakeBatch PROVE EdgesIInv'
<1> DEFINE n == IF Len(rows) < Batch THEN Len(rows) ELSE Batch
           R == SubSeq(rows, 1, n)
<1>1. /\ Resolve(R) /\ phase \in {"persist", "batch"} /\ phase' = "resolved"
      /\ UNCHANGED <<treeVars, op, todo, changed, last, torn>>
  BY DEF TakeBatch
<1>2. rows \in Seq(Row) /\ Len(rows) \in Nat /\ n \in 0..Len(rows) /\ DOMAIN rows = 1..Len(rows)
  BY ResolutionAssumption DEF EdgesIInv, ResolutionTypeOK
<1> HIDE DEF n
<1>3. R \in Seq(Row) /\ \A k \in DOMAIN R : k \in DOMAIN rows /\ R[k] = rows[k]
  BY <1>2
<1> HIDE DEF R
<1> QED
  BY <1>1, <1>3, BatchResolved

LEMMA NoMoreRowsPreserves == ASSUME EdgesIInv, NoMoreRows PROVE EdgesIInv'
<1>1. /\ phase = "batch" /\ phase' = "synthesize" /\ torn' = torn
      /\ UNCHANGED treeVars /\ UNCHANGED tableVars /\ UNCHANGED cacheVars
      /\ UNCHANGED <<op, todo, changed, work, last>>
  BY DEF NoMoreRows
<1>2. ResolutionTypeOK
  BY DEF EdgesIInv
<1>3. TreeOK' /\ TablesOK' /\ CachesOK' /\ torn' \in BOOLEAN
  BY <1>1, <1>2, TypeSplit, TreeStands, TablesStand, CachesStand
<1>4. OpOK' /\ WorkOK' /\ LastOK'
  BY <1>1, <1>2 DEF ResolutionTypeOK, OpOK, WorkOK, LastOK, Idle
<1>5. EdgesAreSound' /\ ReferencesHaveOneEdge' /\ RowsAreOwed'
  BY <1>1, GraphStands
<1> QED
  BY <1>3, <1>4, <1>5, TypeSplitNext DEF EdgesIInv

(* After the rows of resolved references are deleted, no row has an edge. *)
LEMMA WithoutResolved ==
    ASSUME EdgesIInv, rows' = Without(rows, work.resolved), UNCHANGED <<edges, torn>>,
           NEW e \in edges, NEW i \in DOMAIN rows', ~torn,
           e.from = rows'[i].from, e.line = rows'[i].line
    PROVE  FALSE
<1> DEFINE gone == work.resolved
           I == {k \in DOMAIN rows :
                   \A j \in DOMAIN gone : gone[j].from # rows[k].from \/ gone[j].ref # rows[k].ref}
<1>1. rows \in Seq(Row) /\ I \in SUBSET DOMAIN rows /\ rows' = Picked(rows, I)
  BY DEF EdgesIInv, ResolutionTypeOK, Without
<1> HIDE DEF I
<1>2. PICK k \in I : rows'[i] = rows[k]
  <2>1. \A l \in DOMAIN Picked(rows, I) : \E k \in I : Picked(rows, I)[l] = rows[k]
    BY <1>1, PickedType
  <2> QED
    BY <1>1, <2>1
<1>3. PICK j \in DOMAIN work.resolved : work.resolved[j] = rows[k]
  BY <1>1, <1>2 DEF EdgesIInv, RowsAreOwed
<1> QED
  BY <1>2, <1>3 DEF I

LEMMA DeleteResolvedPreserves == ASSUME EdgesIInv, DeleteResolved PROVE EdgesIInv'
<1>1. /\ phase = "resolved" /\ rows' = Without(rows, work.resolved)
      /\ UNCHANGED treeVars /\ UNCHANGED cacheVars
      /\ UNCHANGED <<indexed, edges, twice, torn>>
      /\ \/ phase' = "unresolved" /\ UNCHANGED <<op, todo, changed, work, last>>
         \/ End(op, last.stored)
  BY DEF DeleteResolved
<1>2. ResolutionTypeOK
  BY DEF EdgesIInv
<1>3. work.resolved \in Seq(Row)
  BY <1>2 DEF ResolutionTypeOK
<1>4. \A e \in edges, i \in DOMAIN rows' :
        ~(~torn /\ e.from = rows'[i].from /\ e.line = rows'[i].line)
  BY <1>1, WithoutResolved
<1>5. EdgesAreSound' /\ ReferencesHaveOneEdge' /\ RowsAreOwed' /\ rows' \in Seq(Row)
  BY <1>1, <1>3, <1>4, WithoutKeeps
<1>6. TreeOK' /\ CachesOK' /\ torn' \in BOOLEAN
  BY <1>1, <1>2, TypeSplit, TreeStands, CachesStand
<1>7. TablesOK'
  BY <1>1, <1>2, <1>5 DEF ResolutionTypeOK, TablesOK
<1>8. OpOK' /\ WorkOK' /\ LastOK'
  <2>1. CASE phase' = "unresolved" /\ UNCHANGED <<op, todo, changed, work, last>>
    BY <1>1, <1>2, <2>1 DEF ResolutionTypeOK, OpOK, WorkOK, LastOK, Idle
  <2>2. CASE End(op, last.stored)
    <3>1. op \in Ops \cup {"scratch", None} /\ last.stored \in SUBSET Files
      BY <1>2 DEF ResolutionTypeOK
    <3> QED
      BY <2>2, <3>1, EndOK
  <2> QED
    BY <1>1, <2>1, <2>2
<1> QED
  BY <1>5, <1>6, <1>7, <1>8, TypeSplitNext DEF EdgesIInv

LEMMA DeleteUnresolvedPreserves == ASSUME EdgesIInv, DeleteUnresolved PROVE EdgesIInv'
<1>1. /\ phase = "unresolved" /\ rows' = Without(rows, Failed)
      /\ phase' \in {"synthesize", "batch"} /\ work' = NoWork
      /\ UNCHANGED treeVars /\ UNCHANGED cacheVars
      /\ UNCHANGED <<indexed, edges, twice, torn>>
      /\ UNCHANGED <<op, todo, changed, last>>
  BY DEF DeleteUnresolved
<1>2. ResolutionTypeOK
  BY DEF EdgesIInv
<1>3. Failed \in Seq(Row)
  <2> DEFINE I == {i \in DOMAIN work.rows :
                     \A j \in DOMAIN work.resolved : work.resolved[j] # work.rows[i]}
  <2>1. work.rows \in Seq(Row) /\ I \in SUBSET DOMAIN work.rows
    BY <1>2 DEF ResolutionTypeOK
  <2> QED
    BY <2>1, PickedType DEF Failed
<1>4. \A e \in edges, i \in DOMAIN rows' :
        ~(~torn /\ e.from = rows'[i].from /\ e.line = rows'[i].line)
  <2> SUFFICES ASSUME NEW e \in edges, NEW i \in DOMAIN rows', ~torn,
                      e.from = rows'[i].from, e.line = rows'[i].line
               PROVE  FALSE
    OBVIOUS
  <2> DEFINE I == {k \in DOMAIN rows :
                     \A j \in DOMAIN Failed : Failed[j].from # rows[k].from \/ Failed[j].ref # rows[k].ref}
  <2>1. rows \in Seq(Row) /\ I \in SUBSET DOMAIN rows /\ rows' = Picked(rows, I)
    BY <1>1, <1>2 DEF ResolutionTypeOK, Without
  <2> HIDE DEF I
  <2>2. PICK k \in I : rows'[i] = rows[k]
    <3>1. \A l \in DOMAIN Picked(rows, I) : \E k \in I : Picked(rows, I)[l] = rows[k]
      BY <2>1, PickedType
    <3> QED
      BY <2>1, <3>1
  <2> QED
    BY <1>1, <2>1, <2>2, ReferencesAreOwed
<1>5. EdgesAreSound' /\ ReferencesHaveOneEdge' /\ RowsAreOwed' /\ rows' \in Seq(Row)
  BY <1>1, <1>3, <1>4, WithoutKeeps
<1>6. TreeOK' /\ CachesOK' /\ torn' \in BOOLEAN
  BY <1>1, <1>2, TypeSplit, TreeStands, CachesStand
<1>7. TablesOK'
  BY <1>1, <1>2, <1>5 DEF ResolutionTypeOK, TablesOK
<1>8. OpOK' /\ WorkOK' /\ LastOK'
  BY <1>1, <1>2, NoWorkOK DEF ResolutionTypeOK, OpOK, WorkOK, LastOK, Idle
<1> QED
  BY <1>5, <1>6, <1>7, <1>8, TypeSplitNext DEF EdgesIInv

LEMMA SynthesizePreserves == ASSUME EdgesIInv, Synthesize PROVE EdgesIInv'
<1> DEFINE F == {e \in Synthesized : e.to \in Nodes /\ FileNode(e.from) \in Nodes}
<1>1. /\ phase = "synthesize" /\ Insert(Synthesized)
      /\ \E o \in {op, "scratch"} : End(o, last.stored)
      /\ UNCHANGED treeVars /\ UNCHANGED cacheVars /\ UNCHANGED <<indexed, rows, torn>>
  BY DEF Synthesize
<1>2. edges' = edges \cup F /\ twice' = twice \cup (F \cap edges)
  BY <1>1 DEF Insert
<1>3. ResolutionTypeOK
  BY DEF EdgesIInv
<1>4. ASSUME NEW e \in F
      PROVE  e \in Edge /\ e.line = 0 /\ e.to \in Nodes /\ FileNode(e.from) \in Nodes
  <2>1. PICK d \in edges : e = [from |-> d.to.file, line |-> 0, kind |-> "calls", to |-> FileNode(d.from)]
    BY DEF Synthesized
  <2>2. d \in Edge
    BY <1>3 DEF ResolutionTypeOK
  <2>3. d.to.file \in Files /\ FileNode(d.from) \in Node
    BY <2>2 DEF Edge, Node, FileNode
  <2>4. e \in Edge
    BY <2>1, <2>3 DEF Edge, EdgeKinds
  <2> QED
    BY <2>1, <2>4
<1> HIDE DEF F
<1>5. /\ \A e \in edges : e.to \in Nodes /\ FileNode(e.from) \in Nodes
      /\ \A e \in edges : e.line > 0 => IsResolution(e)
      /\ \A i \in DOMAIN rows : Refers(indexed, rows[i])
  BY DEF EdgesIInv, EdgesAreSound, Resolved, IsReference, Refers
<1>6. ASSUME NEW i \in DOMAIN rows
      PROVE  rows[i].line # 0
  <2>1. rows[i] \in Row
    BY <1>3 DEF ResolutionTypeOK
  <2>2. /\ rows[i].from \in Files /\ indexed[rows[i].from] # None
        /\ rows[i].line \in DOMAIN indexed[rows[i].from].refs
    BY <1>5, <2>1 DEF Refers, Row
  <2>3. indexed[rows[i].from].refs \in Seq(Ref)
    BY <1>3, <2>2, ContentIs
  <2> QED
    BY <2>2, <2>3
<1>7. EdgesAreSound'
  <2>1. Nodes' = Nodes
    BY <1>1 DEF Nodes
  <2>2. \A e \in edges' : e.to \in Nodes' /\ FileNode(e.from) \in Nodes'
    BY <1>2, <1>4, <1>5, <2>1
  <2>3. \A e \in edges' : e.line > 0 => IsResolution(e)
    BY <1>2, <1>4, <1>5
  <2>4. \A e \in edges' : e.line > 0 => IsResolution(e)'
    BY <1>1, <2>3 DEF IsResolution
  <2>5. \A i \in DOMAIN rows' : IsReference(rows[i])'
    BY <1>1, <1>5 DEF IsReference, Refers
  <2> QED
    BY <2>2, <2>4, <2>5 DEF EdgesAreSound, Resolved
<1>8. ReferencesHaveOneEdge'
  <2>1. \A e \in twice' : torn \/ e.line = 0
    BY <1>2, <1>4 DEF EdgesIInv, ReferencesHaveOneEdge
  <2> QED
    BY <1>1, <2>1 DEF EdgesIInv, ReferencesHaveOneEdge
<1>9. RowsAreOwed'
  <2> SUFFICES ASSUME ~torn, NEW i \in DOMAIN rows, NEW e \in edges',
                      e.from = rows[i].from, e.line = rows[i].line
               PROVE  FALSE
    BY <1>1 DEF RowsAreOwed
  <2>1. e \in edges
    BY <1>2, <1>4, <1>6
  <2> QED
    BY <1>1, <2>1, ReferencesAreOwed
<1>10. TreeOK' /\ CachesOK' /\ torn' \in BOOLEAN
  BY <1>1, <1>3, TypeSplit, TreeStands, CachesStand
<1>11. TablesOK'
  BY <1>1, <1>2, <1>3, <1>4 DEF ResolutionTypeOK, TablesOK
<1>12. OpOK' /\ WorkOK' /\ LastOK'
  <2>1. op \in Ops \cup {"scratch", None} /\ last.stored \in SUBSET Files
    BY <1>3 DEF ResolutionTypeOK
  <2>2. PICK o \in {op, "scratch"} : End(o, last.stored)
    BY <1>1
  <2> QED
    BY <2>1, <2>2, EndOK
<1> QED
  BY <1>7, <1>8, <1>9, <1>10, <1>11, <1>12, TypeSplitNext DEF EdgesIInv

LEMMA KillPreserves == ASSUME EdgesIInv, Kill PROVE EdgesIInv'
<1>1. /\ Clear /\ End(None, {}) /\ torn' = (torn \/ phase = "resolved")
      /\ UNCHANGED treeVars /\ UNCHANGED tableVars
  BY DEF Kill
<1>2. ResolutionTypeOK
  BY DEF EdgesIInv
<1>3. TreeOK' /\ TablesOK' /\ CachesOK'
  BY <1>1, <1>2, TypeSplit, TreeStands, TablesStand, ClearedOK
<1>4. torn' \in BOOLEAN
  BY <1>1
<1>5. OpOK' /\ WorkOK' /\ LastOK'
  BY <1>1, EndOK
<1>6. (torn => torn') /\ (phase = "resolved" => torn')
  BY <1>1
<1>7. EdgesAreSound' /\ ReferencesHaveOneEdge' /\ RowsAreOwed'
  BY <1>1, <1>6, GraphStands
<1> QED
  BY <1>3, <1>4, <1>5, <1>7, TypeSplitNext DEF EdgesIInv

LEMMA NothingPreserves == ASSUME EdgesIInv, UNCHANGED resolutionVars PROVE EdgesIInv'
<1>1. /\ UNCHANGED treeVars /\ UNCHANGED tableVars /\ UNCHANGED cacheVars
      /\ UNCHANGED <<op, phase, todo, changed, work, last>> /\ torn' = torn
  BY DEF resolutionVars, opVars
<1>2. ResolutionTypeOK
  BY DEF EdgesIInv
<1>3. TreeOK' /\ TablesOK' /\ CachesOK' /\ torn' \in BOOLEAN
  BY <1>1, <1>2, TypeSplit, TreeStands, TablesStand, CachesStand
<1>4. OpOK' /\ WorkOK' /\ LastOK'
  BY <1>1, <1>2 DEF ResolutionTypeOK, OpOK, WorkOK, LastOK, Idle
<1>5. EdgesAreSound' /\ ReferencesHaveOneEdge' /\ RowsAreOwed'
  BY <1>1, GraphStands
<1> QED
  BY <1>3, <1>4, <1>5, TypeSplitNext DEF EdgesIInv

LEMMA ResolutionStarts == ASSUME ResolutionInit PROVE EdgesIInv
<1>1. <<>> \in Seq(Row)
  OBVIOUS
<1>2. ResolutionTypeOK
  <2>1. TreeOK /\ TablesOK /\ CachesOK
    BY <1>1, ResolutionAssumption DEF ResolutionInit, TreeOK, TablesOK, CachesOK, Cold
  <2>2. OpOK /\ WorkOK /\ LastOK /\ torn \in BOOLEAN
    BY NoWorkOK DEF ResolutionInit, OpOK, WorkOK, LastOK, Idle
  <2> QED
    BY <2>1, <2>2, TypeSplit
<1>3. EdgesAreSound
  BY DEF ResolutionInit, EdgesAreSound, Resolved
<1>4. ReferencesHaveOneEdge /\ RowsAreOwed
  BY DEF ResolutionInit, ReferencesHaveOneEdge, RowsAreOwed
<1> QED
  BY <1>2, <1>3, <1>4 DEF EdgesIInv

LEMMA ResolutionInductive == ResolutionSpec => []EdgesIInv
<1>1. ResolutionInit => EdgesIInv
  BY ResolutionStarts
<1>2. EdgesIInv /\ [ResolutionNext]_resolutionVars => EdgesIInv'
  <2> SUFFICES ASSUME EdgesIInv, [ResolutionNext]_resolutionVars
               PROVE  EdgesIInv'
    OBVIOUS
  <2>1. CASE IndexAll
    BY <2>1, IndexAllPreserves
  <2>2. CASE IndexFiles
    BY <2>2, IndexFilesPreserves
  <2>3. CASE Sync
    BY <2>3, SyncPreserves
  <2>4. CASE ResolveReferences
    BY <2>4, ResolveReferencesPreserves
  <2>5. CASE ClearTables
    BY <2>5, ClearTablesPreserves
  <2>6. CASE Step
    BY <2>6, StoreFilePreserves, AllStoredPreserves, PersistPreserves, TakeBatchPreserves,
       NoMoreRowsPreserves, DeleteResolvedPreserves, DeleteUnresolvedPreserves,
       SynthesizePreserves DEF Step
  <2>7. CASE Kill
    BY <2>7, KillPreserves
  <2>8. CASE \E f \in Files : \E c \in Choices[f] \cup {None} : Edit(f, c)
    BY <2>8, EditPreserves
  <2>9. CASE UNCHANGED resolutionVars
    BY <2>9, NothingPreserves
  <2> QED
    BY <2>1, <2>2, <2>3, <2>4, <2>5, <2>6, <2>7, <2>8, <2>9 DEF ResolutionNext
<1> QED
  BY <1>1, <1>2, PTL DEF ResolutionSpec

LEMMA ReferencesType ==
    ASSUME ResolutionTypeOK, NEW r \in References
    PROVE  r.from \in Files /\ r.ref \in Ref
<1>1. PICK f \in Files : indexed[f] # None /\ \E i \in DOMAIN indexed[f].refs : r = RowsFor(f, indexed[f])[i]
  BY DEF References
<1>2. PICK i \in DOMAIN indexed[f].refs : r = RowsFor(f, indexed[f])[i]
  BY <1>1
<1>3. indexed[f].refs \in Seq(Ref)
  BY <1>1, ContentIs
<1>4. i \in 1..Len(indexed[f].refs) /\ indexed[f].refs[i] \in Ref
  BY <1>3
<1>5. r = [from |-> f, ref |-> indexed[f].refs[i], line |-> i]
  BY <1>2, <1>4 DEF RowsFor
<1> QED
  BY <1>4, <1>5

(* The matcher finds the nearest symbol whatever the index holds. *)
LEMMA MatcherHolds == ASSUME ResolutionTypeOK PROVE MatchInv
<1>1. PrefilterStopsOnlyFuzzy
  <2> SUFFICES ASSUME NEW r \in References, ~Possible(r.ref, FreshNames)
               PROVE  MethodCall(r.from, r.ref, Nodes) = {} /\ Exact(r.from, r.ref, Nodes) = {}
    BY DEF PrefilterStopsOnlyFuzzy
  <2>1. r.ref.name \notin FreshNames
    BY DEF Possible
  <2>2. Named(Nodes, r.ref.name) = {}
    BY <2>1 DEF Named, FreshNames
  <2> QED
    BY <2>2, UnnamedHasNoExact
<1>2. NearestWins
  <2> SUFFICES ASSUME NEW r \in References, r.ref.recv = None,
                      Cardinality(Named(Nodes, r.ref.name)) > 1,
                      NEW x \in Exact(r.from, r.ref, Nodes),
                      NEW y \in Named(Nodes, r.ref.name)
               PROVE  /\ y.file = r.from => x.file = r.from
                      /\ Lang[y.file] = Lang[r.from] => Lang[x.file] = Lang[r.from]
    BY DEF NearestWins
  <2> DEFINE S == Named(Nodes, r.ref.name)
  <2>1. S \in SUBSET Node
    BY NodesType DEF Named
  <2>2. x \in FindBest(r.from, r.ref, S)
    BY DEF Exact
  <2>3. r.from \in Files /\ r.ref \in Ref
    BY ReferencesType
  <2> HIDE DEF S
  <2>4. \A z \in S : /\ z.file = r.from => x.file = r.from
                     /\ Lang[z.file] = Lang[r.from] => Lang[x.file] = Lang[r.from]
    BY <2>1, <2>2, <2>3, BestIsNearest
  <2> QED
    BY <2>4 DEF S
<1> QED
  BY <1>1, <1>2 DEF MatchInv

(* In every state of every run, for any files, names, contents and batch    *)
(* size and any order of operations, edits and kills: both ends of an edge  *)
(* exist, the line it came from still holds a reference that asks for its   *)
(* target, every row is a reference of what is stored, a reference has one  *)
(* row and one edge and not both at once, but for a kill between the two    *)
(* writes of a batch, and the matcher takes the nearest of several symbols. *)
THEOREM EdgesHold == ResolutionSpec => []EdgesInv
<1>1. EdgesIInv => EdgesInv
  BY MatcherHolds DEF EdgesIInv, EdgesInv
<1> QED
  BY <1>1, ResolutionInductive, PTL

----------------------------------------------------------------------------
(* What a sync and an indexAll owe.                                        *)

\* The caches show the names and the symbols that are stored.
Accurate ==
  /\ known # None => known = FreshNames
  /\ \A n \in Names : looked[n] # None => looked[n] = Named(Nodes, n)

\* An operation that has cleared the caches and is not done with its rows.
Cleared ==
  \/ op = "sync" /\ phase = "persist"
  \/ op = "indexAll" /\ phase \in {"batch", "resolved", "unresolved"}

CachesAreAccurate == Cleared => Accurate

\* The rows of a file are in the order of its lines.
RowsInOrder ==
  \A i, j \in DOMAIN rows : rows[i].from = rows[j].from /\ i < j => rows[i].line < rows[j].line

Waits(f, i) ==
  \E k \in DOMAIN rows : rows[k].from = f /\ rows[k].line = i

\* File f has no edge yet and a row for each of its references.
Owed(f) ==
  /\ \A e \in edges : e.from # f
  /\ \A i \in DOMAIN indexed[f].refs : Waits(f, i)

\* File f has the edges of a fresh index, once each.
Paid(f) ==
  /\ \A e \in Resolved : e.from = f => e \in IdealGraph
  /\ \A e \in IdealGraph : e.from = f => e \in edges
  /\ \A e \in twice : e.line > 0 => e.from # f

SyncOwes ==
  /\ op = "sync" => last.op = None
  /\ op = "sync" => \A f \in last.stored : f \in changed /\ indexed[f] # None
  /\ op = "sync" /\ phase \in {"store", "persist"} => \A f \in last.stored : Owed(f)
  /\ (op = "sync" /\ phase = "resolved") \/ last.op = "sync" => \A f \in last.stored : Paid(f)
  /\ op = "sync" => phase \in {"store", "persist", "resolved"}

Explained(r) ==
  \/ Target(r, Nodes) \in edges
  \/ \E i \in DOMAIN rows : rows[i] = r
  \/ \E q \in References : /\ q.from = r.from /\ q.ref = r.ref /\ q.line < r.line
                           /\ Target(q, Nodes) \in edges

ScratchOwes ==
  /\ op = "indexAll" /\ last.op = "scratch" /\ phase = "store" =>
       \A r \in References : \E i \in DOMAIN rows : rows[i] = r
  /\ last.op = "scratch" /\ phase # "store" => \A r \in Resolving : Explained(r)

\* The batch: distinct references, of which the resolvable ones are resolved.
BatchIs ==
  op = "indexAll" /\ phase \in {"resolved", "unresolved"} =>
    /\ \A k \in DOMAIN work.rows : work.rows[k] \in References
    /\ \A k, l \in DOMAIN work.rows : work.rows[k] = work.rows[l] => k = l
    /\ \A k \in DOMAIN work.rows : (\E j \in DOMAIN work.resolved : work.resolved[j] = work.rows[k])
                                     <=> work.rows[k] \in Resolving
    /\ \A j \in DOMAIN work.resolved : \E k \in DOMAIN work.rows : work.resolved[j] = work.rows[k]
    /\ \A j \in DOMAIN work.resolved : Target(work.resolved[j], Nodes) \in edges
    /\ Len(work.rows) <= Batch

BatchIsPrefix ==
  op = "indexAll" /\ phase = "resolved" =>
    \A k \in DOMAIN work.rows : k \in DOMAIN rows /\ rows[k] = work.rows[k]

BatchIsFull ==
  op = "indexAll" /\ phase \in {"resolved", "unresolved"} /\ Len(work.rows) # Batch =>
    \A i \in DOMAIN rows : \E k \in DOMAIN work.rows : work.rows[k] = rows[i]

LeftBehind ==
  phase = "synthesize" \/ last.op = "indexAll" \/ (last.op = "scratch" /\ phase = "idle") =>
    (rows # <<>> => Cardinality(References \ Resolving) >= Batch)

PhasesOf ==
  /\ phase = "store" => op \in {"indexAll", "sync", "indexFiles"}
  /\ phase = "persist" => op = "sync"
  /\ phase \in {"batch", "unresolved", "synthesize"} => op = "indexAll"
  /\ last.op = "scratch" => op \in {"indexAll", None}
  /\ last.op \in {"sync", "indexAll"} => Idle

ResolveIInv ==
  /\ CachesAreAccurate /\ RowsInOrder /\ SyncOwes /\ ScratchOwes
  /\ BatchIs /\ BatchIsPrefix /\ BatchIsFull /\ LeftBehind /\ PhasesOf

(* Keeping positions keeps the order of the members. *)
LEMMA PickedInOrder ==
    ASSUME NEW X, NEW s \in Seq(X), NEW I \in SUBSET DOMAIN s,
           NEW k \in DOMAIN Picked(s, I), NEW l \in DOMAIN Picked(s, I), k < l
    PROVE  \E i, j \in I : i < j /\ Picked(s, I)[k] = s[i] /\ Picked(s, I)[l] = s[j]
<1> DEFINE m == Cardinality(I)
           At(n) == CHOOSE i \in I : Rank(I, i) = n
           Up(i) == {j \in I : j <= i}
<1>1. Len(s) \in Nat /\ I \in SUBSET (1..Len(s)) /\ DOMAIN s = 1..Len(s)
  OBVIOUS
<1>2. /\ m \in Nat /\ \A n \in 1..m : \E i \in I : Rank(I, i) = n
  BY <1>1, RanksAreAll
<1>3. Picked(s, I) = [n \in 1..m |-> s[At(n)]]
  BY DEF Picked, Rank
<1>4. k \in 1..m /\ l \in 1..m
  BY <1>3
<1>5. /\ At(k) \in I /\ Rank(I, At(k)) = k
      /\ At(l) \in I /\ Rank(I, At(l)) = l
  BY <1>2, <1>4
<1>6. Picked(s, I)[k] = s[At(k)] /\ Picked(s, I)[l] = s[At(l)]
  BY <1>3, <1>4
<1> HIDE DEF At
<1>7. At(k) < At(l)
  <2> SUFFICES ASSUME At(l) <= At(k)
               PROVE  l <= k
    BY <1>1, <1>4, <1>5
  <2>1. ASSUME NEW j \in Up(At(l))
        PROVE  j \in Up(At(k))
    BY <1>1, <1>5, <2>1
  <2>2. IsFiniteSet(1..Len(s))
    BY <1>1, FS_Interval
  <2>3. Up(At(k)) \in SUBSET (1..Len(s)) /\ Up(At(l)) \in SUBSET Up(At(k))
    BY <1>1, <2>1
  <2>4. IsFiniteSet(Up(At(k)))
    BY <2>2, <2>3, FS_Subset
  <2>5. Cardinality(Up(At(l))) <= Cardinality(Up(At(k)))
    BY <2>3, <2>4, FS_Subset
  <2> QED
    BY <1>5, <2>5 DEF Rank
<1> QED
  BY <1>5, <1>6, <1>7

(* The matcher sees symbols only: the nodes of the files change nothing. *)
LEMMA MatchesIgnoreFiles ==
    ASSUME NEW nodes, NEW f, NEW ref
    PROVE  LET V == {x \in nodes : x.sym # None}
           IN Matches(f, ref, V) = Matches(f, ref, nodes)
<1> DEFINE V == {x \in nodes : x.sym # None}
<1>1. \A n : Named(V, n) = Named(nodes, n)
  BY DEF Named
<1> HIDE DEF V
<1>2. ASSUME NEW c
      PROVE  OnClass(f, c, ref.name, V) = OnClass(f, c, ref.name, nodes)
  <2>1. Named(V, c) = Named(nodes, c) /\ Named(V, ref.name) = Named(nodes, ref.name)
    BY <1>1
  <2>2. \A x : x \in OnClass(f, c, ref.name, V) <=> x \in OnClass(f, c, ref.name, nodes)
    BY <2>1 DEF OnClass
  <2> QED
    BY <2>2
<1>3. AnyMethod(f, ref, V) = AnyMethod(f, ref, nodes)
  <2>1. {x \in Named(V, ref.name) : x.sym.kind = "method"}
          = {x \in Named(nodes, ref.name) : x.sym.kind = "method"}
    BY <1>1
  <2> DEFINE Likest(S) ==
               LET T == IF SameLang(f, S) # {} THEN SameLang(f, S) ELSE S
               IN IF Cardinality(T) = 1 THEN SameLang(f, T)
                  ELSE {x \in T : Likeness(f, ref, x) >= 2 /\ \A y \in T : Likeness(f, ref, x) >= Likeness(f, ref, y)}
  <2>2. AnyMethod(f, ref, V) = Likest({x \in Named(V, ref.name) : x.sym.kind = "method"})
    BY DEF AnyMethod
  <2>3. AnyMethod(f, ref, nodes) = Likest({x \in Named(nodes, ref.name) : x.sym.kind = "method"})
    BY DEF AnyMethod
  <2> HIDE DEF Likest
  <2> QED
    BY <2>1, <2>2, <2>3
<1>4. MethodCall(f, ref, V) = MethodCall(f, ref, nodes)
  BY <1>2, <1>3 DEF MethodCall
<1>5. Exact(f, ref, V) = Exact(f, ref, nodes)
  BY <1>1 DEF Exact
<1>6. {x \in V : x.sym # None /\ ref.recv = None /\ Lower[x.sym.name] = Lower[ref.name]}
        = {x \in nodes : x.sym # None /\ ref.recv = None /\ Lower[x.sym.name] = Lower[ref.name]}
  BY DEF V
<1>7. Fuzzy(f, ref, V) = Fuzzy(f, ref, nodes)
  <2> DEFINE Sole(S) ==
               LET T == IF SameLang(f, S) # {} THEN SameLang(f, S) ELSE S
               IN IF Cardinality(T) = 1 THEN T ELSE {}
             Alike(N) == {x \in N : x.sym # None /\ ref.recv = None /\ Lower[x.sym.name] = Lower[ref.name]}
  <2>1. Fuzzy(f, ref, V) = Sole(Alike(V)) /\ Fuzzy(f, ref, nodes) = Sole(Alike(nodes))
    BY DEF Fuzzy
  <2>2. Alike(V) = Alike(nodes)
    BY <1>6
  <2> HIDE DEF Sole, Alike
  <2> QED
    BY <2>1, <2>2
<1>8. Matches(f, ref, V) = Matches(f, ref, nodes)
  BY <1>4, <1>5, <1>7 DEF Matches
<1> QED
  BY <1>8 DEF V

LEMMA ReferencesAre ==
    ASSUME ResolutionTypeOK
    PROVE  /\ References \subseteq Row
           /\ \A r \in Row : r \in References <=> IsReference(r)
           /\ \A q, r \in References : q.from = r.from /\ q.line = r.line => q = r
           /\ \A r \in References : r.line > 0
<1>1. ASSUME NEW r \in References
      PROVE  r \in Row /\ IsReference(r) /\ r.line > 0
  <2>1. PICK f \in Files : indexed[f] # None /\ \E i \in DOMAIN indexed[f].refs : r = RowsFor(f, indexed[f])[i]
    BY DEF References
  <2>2. PICK i \in DOMAIN indexed[f].refs : r = RowsFor(f, indexed[f])[i]
    BY <2>1
  <2>3. indexed[f].refs \in Seq(Ref)
    BY <2>1, ContentIs
  <2>4. i \in 1..Len(indexed[f].refs) /\ indexed[f].refs[i] \in Ref /\ i \in Nat /\ i > 0
    BY <2>3
  <2>5. r = [from |-> f, ref |-> indexed[f].refs[i], line |-> i]
    BY <2>2, <2>4 DEF RowsFor
  <2>6. r.from = f /\ r.line = i /\ r.ref = indexed[f].refs[i] /\ r \in Row
    BY <2>4, <2>5 DEF Row
  <2> QED
    BY <2>1, <2>4, <2>6 DEF IsReference
<1>2. ASSUME NEW r \in Row, IsReference(r)
      PROVE  r \in References
  <2>1. r.from \in Files /\ r = [from |-> r.from, ref |-> r.ref, line |-> r.line]
    BY DEF Row
  <2>2. /\ indexed[r.from] # None /\ r.line \in DOMAIN indexed[r.from].refs
        /\ indexed[r.from].refs[r.line] = r.ref
    BY <1>2 DEF IsReference
  <2>3. indexed[r.from].refs \in Seq(Ref)
    BY <2>1, <2>2, ContentIs
  <2>4. RowsFor(r.from, indexed[r.from])[r.line] = r
    BY <2>1, <2>2, <2>3 DEF RowsFor
  <2> QED
    BY <2>1, <2>2, <2>4 DEF References
<1>3. ASSUME NEW q \in References, NEW r \in References, q.from = r.from, q.line = r.line
      PROVE  q = r
  <2>1. q \in Row /\ r \in Row /\ q.ref = r.ref
    BY <1>1, <1>3 DEF IsReference
  <2> QED
    BY <1>3, <2>1 DEF Row
<1> QED
  BY <1>1, <1>2, <1>3

(* Whether and to what a reference is resolved depends on its file and on   *)
(* what it says, not on its line. *)
LEMMA NamesakesResolve ==
    ASSUME NEW q \in References, NEW r \in Resolving, q.from = r.from, q.ref = r.ref
    PROVE  q \in Resolving
BY DEF Resolving, Resolvable

LEMMA SymbolsOnly ==
    ASSUME ResolutionTypeOK, Accurate
    PROVE  View = {x \in Nodes : x.sym # None} /\ Known = FreshNames
<1>1. Known = FreshNames
  BY DEF Accurate, Known, FreshNames
<1>2. \A n \in Names : (IF looked[n] = None THEN Named(Nodes, n) ELSE looked[n]) = Named(Nodes, n)
  BY DEF Accurate
<1>3. \A x : x \in View <=> \E n \in Names : x \in Named(Nodes, n)
  BY <1>2 DEF View
<1>4. \A x \in Nodes : x.sym # None => x.sym.name \in Names
  <2> SUFFICES ASSUME NEW x \in Nodes, x.sym # None
               PROVE  x.sym.name \in Names
    OBVIOUS
  <2>1. x.sym \in Symbol
    BY NodesType DEF Node
  <2> QED
    BY <2>1 DEF Symbol
<1>5. \A x : (\E n \in Names : x \in Named(Nodes, n)) <=> x \in Nodes /\ x.sym # None
  BY <1>4 DEF Named
<1> QED
  BY <1>1, <1>3, <1>5

LEMMA AccurateResolves ==
    ASSUME ResolutionTypeOK, Accurate, NEW r
    PROVE  /\ Matches(r.from, r.ref, View) = Matches(r.from, r.ref, Nodes)
           /\ Resolvable(r, Known, View) <=> Resolvable(r, FreshNames, Nodes)
           /\ Target(r, View) = Target(r, Nodes)
<1>1. View = {x \in Nodes : x.sym # None} /\ Known = FreshNames
  BY SymbolsOnly
<1>2. Matches(r.from, r.ref, {x \in Nodes : x.sym # None}) = Matches(r.from, r.ref, Nodes)
  BY MatchesIgnoreFiles
<1>3. Matches(r.from, r.ref, View) = Matches(r.from, r.ref, Nodes)
  BY <1>1, <1>2
<1>4. Resolvable(r, Known, View) <=> Resolvable(r, FreshNames, Nodes)
  BY <1>1, <1>3 DEF Resolvable
<1>5. Target(r, View) = Target(r, Nodes)
  <2> DEFINE To(S) == LET x == CHOOSE y \in S : TRUE
                      IN [from |-> r.from, line |-> r.line, kind |-> EdgeKind(r.ref, x), to |-> x]
  <2>1. Target(r, View) = To(Matches(r.from, r.ref, View))
    BY DEF Target
  <2>2. Target(r, Nodes) = To(Matches(r.from, r.ref, Nodes))
    BY DEF Target
  <2> HIDE DEF To
  <2> QED
    BY <1>3, <2>1, <2>2
<1> QED
  BY <1>3, <1>4, <1>5

(* What resolving the references R with accurate caches does: the edges of *)
(* a fresh index. *)
PaidFor(R) ==
  /\ work'.rows = R
  /\ \A k \in DOMAIN R :
       (\E j \in DOMAIN work'.resolved : work'.resolved[j] = R[k]) <=> R[k] \in Resolving
  /\ \A j \in DOMAIN work'.resolved : \E k \in DOMAIN R : work'.resolved[j] = R[k] /\ R[k] \in Resolving
  /\ \A j \in DOMAIN work'.resolved : Target(work'.resolved[j], Nodes) \in edges'
  /\ \A e \in edges' : e \in edges \/ \E j \in DOMAIN work'.resolved : e = Target(work'.resolved[j], Nodes)
  /\ \A e \in twice' : e \in twice \/ e \in edges

LEMMA ResolvePays ==
    ASSUME ResolutionTypeOK, Accurate, NEW R \in Seq(Row), Resolve(R),
           \A k \in DOMAIN R : R[k] \in References
    PROVE  indexed' = indexed /\ rows' = rows /\ Accurate' /\ PaidFor(R)
<1> DEFINE I == {i \in DOMAIN R : Resolvable(R[i], Known, View)}
           D == Picked(R, I)
           E == {Target(D[i], View) : i \in DOMAIN D}
           F == {e \in E : e.to \in Nodes /\ FileNode(e.from) \in Nodes}
<1>1. /\ known' = Known
      /\ looked' = [n \in Names |-> IF n \in AskedFor(R, Known) THEN Named(View, n) ELSE looked[n]]
      /\ Insert(E)
      /\ work' = [rows |-> R, resolved |-> D]
      /\ indexed' = indexed /\ rows' = rows
  <2>1. PICK names \in {Known}, view \in {View} :
          \E hits \in {{i \in DOMAIN R : Resolvable(R[i], names, view)}} :
          \E resolved \in {Picked(R, hits)} :
            /\ known' = names
            /\ looked' = [n \in Names |-> IF n \in AskedFor(R, names) THEN Named(view, n) ELSE looked[n]]
            /\ Insert({Target(resolved[i], view) : i \in DOMAIN resolved})
            /\ work' = [rows |-> R, resolved |-> resolved]
            /\ UNCHANGED <<indexed, rows>>
    BY DEF Resolve
  <2>2. names = Known /\ view = View
    OBVIOUS
  <2>3. PICK hits \in {I} :
          \E resolved \in {Picked(R, hits)} :
            /\ known' = Known
            /\ looked' = [n \in Names |-> IF n \in AskedFor(R, Known) THEN Named(View, n) ELSE looked[n]]
            /\ Insert({Target(resolved[i], View) : i \in DOMAIN resolved})
            /\ work' = [rows |-> R, resolved |-> resolved]
            /\ UNCHANGED <<indexed, rows>>
    BY <2>1, <2>2
  <2>4. hits = I
    OBVIOUS
  <2> HIDE DEF I
  <2> QED
    BY <2>3, <2>4
<1>2. I \in SUBSET DOMAIN R /\ \A k \in DOMAIN R : k \in I <=> R[k] \in Resolving
  <2>1. \A k \in DOMAIN R : Resolvable(R[k], Known, View) <=> Resolvable(R[k], FreshNames, Nodes)
    <3> SUFFICES ASSUME NEW k \in DOMAIN R
                 PROVE  Resolvable(R[k], Known, View) <=> Resolvable(R[k], FreshNames, Nodes)
      OBVIOUS
    <3>1. \A r : Resolvable(r, Known, View) <=> Resolvable(r, FreshNames, Nodes)
      BY AccurateResolves
    <3> QED
      BY <3>1
  <2> QED
    BY <2>1 DEF Resolving
<1> HIDE DEF I
<1>3. /\ D \in Seq(Row)
      /\ \A j \in DOMAIN D : \E k \in I : D[j] = R[k]
      /\ \A k \in I : \E j \in DOMAIN D : D[j] = R[k]
  BY <1>2, PickedType
<1>4. work'.rows = R /\ work'.resolved = D
  BY <1>1
<1>5. edges' = edges \cup F /\ twice' = twice \cup (F \cap edges)
  BY <1>1 DEF Insert
<1> HIDE DEF D
<1>6. \A j \in DOMAIN D : \E k \in DOMAIN R : D[j] = R[k] /\ R[k] \in Resolving
  BY <1>2, <1>3
<1>7. \A k \in DOMAIN R : (\E j \in DOMAIN D : D[j] = R[k]) <=> R[k] \in Resolving
  BY <1>2, <1>3, <1>6
<1>8. \A j \in DOMAIN D : Target(D[j], View) = Target(D[j], Nodes)
  <2>1. \A r : Target(r, View) = Target(r, Nodes)
    BY AccurateResolves
  <2> QED
    BY <2>1
<1>9. ASSUME NEW j \in DOMAIN D
      PROVE  Target(D[j], Nodes) \in F
  <2>1. PICK k \in DOMAIN R : D[j] = R[k] /\ R[k] \in Resolving
    BY <1>6
  <2>2. /\ R[k] \in Row /\ IsReference(R[k])
        /\ Matches(R[k].from, R[k].ref, Nodes) # {}
    BY <2>1, ReferencesAre DEF Resolving, Resolvable
  <2>3. Target(R[k], Nodes).from = R[k].from /\ Target(R[k], Nodes).to \in Nodes
    BY <2>2, TargetIs
  <2>4. FileNode(R[k].from) \in Nodes
    BY <2>2, NodesAre DEF IsReference, Row, FileNode
  <2>5. Target(D[j], Nodes) \in E
    BY <1>8
  <2> QED
    BY <2>1, <2>3, <2>4, <2>5
<1>10. \A e \in F : \E j \in DOMAIN D : e = Target(D[j], Nodes)
  BY <1>8
<1> HIDE DEF F
<1>11. PaidFor(R)
  BY <1>4, <1>5, <1>6, <1>7, <1>9, <1>10 DEF PaidFor
<1>12. Accurate'
  <2>1. Nodes' = Nodes /\ FreshNames' = FreshNames
    BY <1>1 DEF Nodes, FreshNames
  <2>2. known' = FreshNames
    BY <1>1, SymbolsOnly
  <2>3. \A n : Named(View, n) = Named(Nodes, n)
    <3>1. View = {x \in Nodes : x.sym # None}
      BY SymbolsOnly
    <3> QED
      BY <3>1 DEF Named
  <2>4. \A n \in Names : looked'[n] # None => looked'[n] = Named(Nodes, n)
    BY <1>1, <2>3 DEF Accurate
  <2> QED
    BY <2>1, <2>2, <2>4 DEF Accurate
<1> QED
  BY <1>1, <1>11, <1>12

(* What is derived from the stored contents alone. *)
LEMMA ContentsStand ==
    ASSUME indexed' = indexed
    PROVE  /\ Nodes' = Nodes /\ FreshNames' = FreshNames /\ References' = References
           /\ Resolving' = Resolving /\ IdealGraph' = IdealGraph
<1>1. Nodes' = Nodes /\ References' = References
  BY DEF Nodes, References
<1>2. FreshNames' = FreshNames
  BY <1>1 DEF FreshNames
<1>3. Resolving' = Resolving
  BY <1>1, <1>2 DEF Resolving
<1>4. IdealGraph' = IdealGraph
  BY <1>1, <1>3 DEF IdealGraph
<1> QED
  BY <1>1, <1>2, <1>3, <1>4

(* A reference stays explained while its edges and its row stay. *)
LEMMA ExplainedStays ==
    ASSUME NEW r \in Resolving, indexed' = indexed, edges \subseteq edges', rows' = rows, Explained(r)
    PROVE  Explained(r)'
<1>1. Nodes' = Nodes /\ References' = References
  BY ContentsStand
<1> QED
  BY <1>1 DEF Explained

(* Whether the files of a sync are owed or paid depends on the tables only. *)
LEMMA OwedStays ==
    ASSUME NEW f, indexed'[f] = indexed[f], edges' \subseteq edges, Owed(f),
           \A i : Waits(f, i) => Waits(f, i)'
    PROVE  Owed(f)'
BY DEF Owed

LEMMA PaidStays ==
    ASSUME NEW f, UNCHANGED <<indexed, edges, twice>>, Paid(f)
    PROVE  Paid(f)'
<1>1. IdealGraph' = IdealGraph
  BY ContentsStand
<1> QED
  BY <1>1 DEF Paid, Resolved

LEMMA NoneIsNoOp ==
    /\ \A o \in {"indexAll", "sync", "indexFiles", "resolveReferences", "clear", "kill", "scratch"} : o # None
    /\ \A o \in Ops : o # "scratch"
BY ResolutionAssumption DEF OpNames

LEMMA BegunIs ==
    ASSUME EdgesIInv, NEW o, Begin(o)
    PROVE  /\ Idle /\ phase = "idle" /\ op' = o /\ last'.stored = {} /\ last'.op \in {"scratch", None}
           /\ last'.op = "scratch" => o = "indexAll" /\ \A f \in Files : indexed[f] = None
<1>1. phase = "idle"
  BY IdlePhase DEF Begin
<1>2. last' = [op |-> IF o = "indexAll" /\ \A f \in Files : indexed[f] = None THEN "scratch" ELSE None,
               stored |-> {}]
  BY DEF Begin
<1>3. last'.stored = {} /\ last'.op = IF o = "indexAll" /\ \A f \in Files : indexed[f] = None THEN "scratch" ELSE None
  BY <1>2
<1> QED
  BY <1>1, <1>3, NoneIsNoOp DEF Begin

LEMMA OrderStands == ASSUME RowsInOrder, rows' = rows PROVE RowsInOrder'
BY DEF RowsInOrder

LEMMA OrderPicked ==
    ASSUME ResolutionTypeOK, RowsInOrder, NEW I \in SUBSET DOMAIN rows
    PROVE  LET K == Picked(rows, I)
           IN \A i, j \in DOMAIN K : K[i].from = K[j].from /\ i < j => K[i].line < K[j].line
<1> DEFINE K == Picked(rows, I)
<1> SUFFICES ASSUME NEW k \in DOMAIN K, NEW l \in DOMAIN K, K[k].from = K[l].from, k < l
             PROVE  K[k].line < K[l].line
  OBVIOUS
<1>1. rows \in Seq(Row)
  BY DEF ResolutionTypeOK
<1>2. PICK i \in I, j \in I : i < j /\ K[k] = rows[i] /\ K[l] = rows[j]
  BY <1>1, PickedInOrder
<1> QED
  BY <1>2 DEF RowsInOrder

LEMMA OrderWithout ==
    ASSUME ResolutionTypeOK, RowsInOrder, NEW gone, rows' = Without(rows, gone)
    PROVE  RowsInOrder'
<1> DEFINE I == {i \in DOMAIN rows :
                   \A j \in DOMAIN gone : gone[j].from # rows[i].from \/ gone[j].ref # rows[i].ref}
           K == Picked(rows, I)
<1>1. rows' = K /\ I \in SUBSET DOMAIN rows
  BY DEF Without
<1> HIDE DEF I
<1>2. \A i, j \in DOMAIN K : K[i].from = K[j].from /\ i < j => K[i].line < K[j].line
  BY <1>1, OrderPicked
<1> QED
  BY <1>1, <1>2 DEF RowsInOrder

LEMMA EditOwes ==
    ASSUME EdgesIInv, ResolveIInv, UNCHANGED <<tableVars, cacheVars, opVars, last>>
    PROVE  ResolveIInv'
<1>1. /\ indexed' = indexed /\ rows' = rows /\ edges' = edges /\ twice' = twice
      /\ known' = known /\ looked' = looked
      /\ op' = op /\ phase' = phase /\ changed' = changed /\ work' = work /\ last' = last
  BY DEF tableVars, cacheVars, opVars
<1>2. /\ Nodes' = Nodes /\ FreshNames' = FreshNames /\ References' = References
      /\ Resolving' = Resolving /\ IdealGraph' = IdealGraph
  BY <1>1, ContentsStand
<1>3. CachesAreAccurate'
  BY <1>1, <1>2 DEF ResolveIInv, CachesAreAccurate, Cleared, Accurate
<1>4. RowsInOrder'
  BY <1>1, OrderStands DEF ResolveIInv
<1>5. SyncOwes'
  <2>1. \A f : Owed(f) => Owed(f)'
    BY <1>1 DEF Owed, Waits
  <2>2. \A f : Paid(f) => Paid(f)'
    BY <1>1, PaidStays
  <2> QED
    BY <1>1, <2>1, <2>2 DEF ResolveIInv, SyncOwes
<1>6. ScratchOwes'
  <2>1. \A r \in Resolving : Explained(r) => Explained(r)'
    BY <1>1, ExplainedStays
  <2> QED
    BY <1>1, <1>2, <2>1 DEF ResolveIInv, ScratchOwes
<1>7. BatchIs'
  BY <1>1, <1>2 DEF ResolveIInv, BatchIs
<1>8. BatchIsPrefix' /\ BatchIsFull'
  BY <1>1 DEF ResolveIInv, BatchIsPrefix, BatchIsFull
<1>9. LeftBehind'
  BY <1>1, <1>2 DEF ResolveIInv, LeftBehind
<1>10. PhasesOf'
  BY <1>1 DEF ResolveIInv, PhasesOf, Idle
<1> QED
  BY <1>3, <1>4, <1>5, <1>6, <1>7, <1>8, <1>9, <1>10 DEF ResolveIInv

LEMMA IndexAllOwes == ASSUME EdgesIInv, ResolveIInv, IndexAll PROVE ResolveIInv'
<1>1. Begin("indexAll") /\ phase' = "store" /\ UNCHANGED tableVars
  BY DEF IndexAll
<1>2. /\ op' = "indexAll" /\ last'.stored = {} /\ last'.op \in {"scratch", None}
      /\ last'.op = "scratch" => \A f \in Files : indexed[f] = None
  BY <1>1, BegunIs
<1>3. CachesAreAccurate'
  BY <1>1, <1>2 DEF CachesAreAccurate, Cleared
<1>4. RowsInOrder'
  BY <1>1, OrderStands DEF ResolveIInv, tableVars
<1>5. SyncOwes'
  BY <1>1, <1>2, NoneIsNoOp DEF SyncOwes
<1>6. ScratchOwes'
  <2>1. last'.op = "scratch" => References = {}
    BY <1>2 DEF References
  <2>2. References' = References
    BY <1>1, ContentsStand DEF tableVars
  <2> QED
    BY <1>1, <2>1, <2>2 DEF ScratchOwes
<1>7. BatchIs' /\ BatchIsPrefix' /\ BatchIsFull'
  BY <1>1 DEF BatchIs, BatchIsPrefix, BatchIsFull
<1>8. LeftBehind'
  BY <1>1, <1>2, NoneIsNoOp DEF LeftBehind
<1>9. PhasesOf'
  BY <1>1, <1>2, NoneIsNoOp DEF PhasesOf
<1> QED
  BY <1>3, <1>4, <1>5, <1>6, <1>7, <1>8, <1>9 DEF ResolveIInv

LEMMA IndexFilesOwes == ASSUME EdgesIInv, ResolveIInv, IndexFiles PROVE ResolveIInv'
<1>1. Begin("indexFiles") /\ phase' = "store" /\ rows' = rows
  BY DEF IndexFiles, tableVars
<1>2. op' = "indexFiles" /\ last'.stored = {} /\ last'.op = None
  BY <1>1, BegunIs
<1>3. RowsInOrder'
  BY <1>1, OrderStands DEF ResolveIInv
<1>4. CachesAreAccurate' /\ SyncOwes' /\ ScratchOwes'
  BY <1>1, <1>2, NoneIsNoOp DEF CachesAreAccurate, Cleared, SyncOwes, ScratchOwes
<1>5. BatchIs' /\ BatchIsPrefix' /\ BatchIsFull' /\ LeftBehind' /\ PhasesOf'
  BY <1>1, <1>2, NoneIsNoOp DEF BatchIs, BatchIsPrefix, BatchIsFull, LeftBehind, PhasesOf
<1> QED
  BY <1>3, <1>4, <1>5 DEF ResolveIInv

LEMMA SyncOwesNothing == ASSUME EdgesIInv, ResolveIInv, Sync PROVE ResolveIInv'
<1> DEFINE gone == {f \in Files : indexed[f] # None /\ disk[f] = None}
           I == {i \in DOMAIN rows : rows[i].from \notin gone}
<1>1. Begin("sync") /\ phase' = "store" /\ rows' = Picked(rows, I)
  BY DEF Sync, Cascade
<1>2. op' = "sync" /\ last'.stored = {} /\ last'.op = None
  BY <1>1, BegunIs
<1> HIDE DEF gone
<1>3. RowsInOrder'
  <2>1. \A i, j \in DOMAIN Picked(rows, I) :
          Picked(rows, I)[i].from = Picked(rows, I)[j].from /\ i < j
            => Picked(rows, I)[i].line < Picked(rows, I)[j].line
    BY OrderPicked, I \in SUBSET DOMAIN rows DEF EdgesIInv, ResolveIInv
  <2> QED
    BY <1>1, <2>1 DEF RowsInOrder
<1>4. CachesAreAccurate' /\ SyncOwes' /\ ScratchOwes'
  BY <1>1, <1>2, NoneIsNoOp DEF CachesAreAccurate, Cleared, SyncOwes, ScratchOwes
<1>5. BatchIs' /\ BatchIsPrefix' /\ BatchIsFull' /\ LeftBehind' /\ PhasesOf'
  BY <1>1, <1>2, NoneIsNoOp DEF BatchIs, BatchIsPrefix, BatchIsFull, LeftBehind, PhasesOf
<1> QED
  BY <1>3, <1>4, <1>5 DEF ResolveIInv

LEMMA ResolveReferencesOwes == ASSUME EdgesIInv, ResolveIInv, ResolveReferences PROVE ResolveIInv'
<1>1. Begin("resolveReferences") /\ phase' = "resolved" /\ rows' = rows
  BY DEF ResolveReferences, Resolve
<1>2. op' = "resolveReferences" /\ last'.stored = {} /\ last'.op = None
  BY <1>1, BegunIs
<1>3. RowsInOrder'
  BY <1>1, OrderStands DEF ResolveIInv
<1>4. CachesAreAccurate' /\ SyncOwes' /\ ScratchOwes'
  BY <1>1, <1>2, NoneIsNoOp DEF CachesAreAccurate, Cleared, SyncOwes, ScratchOwes
<1>5. BatchIs' /\ BatchIsPrefix' /\ BatchIsFull' /\ LeftBehind' /\ PhasesOf'
  BY <1>1, <1>2, NoneIsNoOp DEF BatchIs, BatchIsPrefix, BatchIsFull, LeftBehind, PhasesOf
<1> QED
  BY <1>3, <1>4, <1>5 DEF ResolveIInv

LEMMA ClearTablesOwes == ASSUME EdgesIInv, ResolveIInv, ClearTables PROVE ResolveIInv'
<1>1. Idle /\ phase' = phase /\ op' = op /\ rows' = <<>> /\ last'.op = "clear" /\ last'.stored = {}
  BY DEF ClearTables, opVars
<1>2. phase = "idle" /\ op' = None
  BY <1>1, IdlePhase DEF Idle
<1>3. RowsInOrder'
  BY <1>1 DEF RowsInOrder
<1>4. CachesAreAccurate' /\ SyncOwes' /\ ScratchOwes'
  BY <1>1, <1>2, NoneIsNoOp DEF CachesAreAccurate, Cleared, SyncOwes, ScratchOwes
<1>5. BatchIs' /\ BatchIsPrefix' /\ BatchIsFull' /\ LeftBehind' /\ PhasesOf'
  BY <1>1, <1>2, NoneIsNoOp DEF BatchIs, BatchIsPrefix, BatchIsFull, LeftBehind, PhasesOf
<1> QED
  BY <1>3, <1>4, <1>5 DEF ResolveIInv

LEMMA KillOwes == ASSUME EdgesIInv, ResolveIInv, Kill PROVE ResolveIInv'
<1>1. /\ op' = None /\ phase' = "idle" /\ last'.op = None /\ last'.stored = {} /\ rows' = rows
  BY DEF Kill, End, tableVars
<1>2. RowsInOrder'
  BY <1>1, OrderStands DEF ResolveIInv
<1>3. CachesAreAccurate' /\ SyncOwes' /\ ScratchOwes'
  BY <1>1, NoneIsNoOp DEF CachesAreAccurate, Cleared, SyncOwes, ScratchOwes
<1>4. BatchIs' /\ BatchIsPrefix' /\ BatchIsFull' /\ LeftBehind' /\ PhasesOf'
  BY <1>1, NoneIsNoOp DEF BatchIs, BatchIsPrefix, BatchIsFull, LeftBehind, PhasesOf, Idle
<1> QED
  BY <1>2, <1>3, <1>4 DEF ResolveIInv

(* What storing a changed file leaves: its rows, in order, after those of   *)
(* the other files, and no edge of it. *)
LEMMA StoredRows ==
    ASSUME ResolutionTypeOK, RowsInOrder, NEW f \in Files, NEW c \in Contents,
           Stored(f, c), indexed[f] # c
    PROVE  /\ indexed'[f] = c /\ \A g \in Files \ {f} : indexed'[g] = indexed[g]
           /\ \A e \in edges' : e \in edges /\ e.from # f
           /\ \A i \in DOMAIN c.refs :
                \E k \in DOMAIN rows' : rows'[k] = [from |-> f, ref |-> c.refs[i], line |-> i]
           /\ \A k \in DOMAIN rows : rows[k].from # f => \E l \in DOMAIN rows' : rows'[l] = rows[k]
           /\ RowsInOrder'
<1> DEFINE I == {i \in DOMAIN rows : rows[i].from # f}
           K == Picked(rows, I)
           N == RowsFor(f, c)
<1>1. /\ indexed' = [indexed EXCEPT ![f] = c]
      /\ edges' = Remains(edges, {f})
      /\ rows' = K \o N
  BY DEF Stored
<1>2. indexed \in [Files -> Contents \cup {None}] /\ rows \in Seq(Row) /\ c.refs \in Seq(Ref)
  BY ResolutionAssumption DEF ResolutionTypeOK
<1>3. indexed'[f] = c /\ \A g \in Files \ {f} : indexed'[g] = indexed[g]
  BY <1>1, <1>2
<1>4. \A e \in edges' : e \in edges /\ e.from # f
  BY <1>1 DEF Remains
<1>5. I \in SUBSET DOMAIN rows /\ (\A i \in DOMAIN rows : i \in I <=> rows[i].from # f)
  OBVIOUS
<1> HIDE DEF I
<1>6. /\ K \in Seq(Row)
      /\ \A k \in DOMAIN K : \E i \in I : K[k] = rows[i]
      /\ \A i \in I : \E k \in DOMAIN K : K[k] = rows[i]
  BY <1>2, <1>5, PickedType
<1>7. \A i, j \in DOMAIN K : K[i].from = K[j].from /\ i < j => K[i].line < K[j].line
  BY <1>5, OrderPicked
<1>8. /\ N = [i \in 1..Len(c.refs) |-> [from |-> f, ref |-> c.refs[i], line |-> i]]
      /\ Len(c.refs) \in Nat /\ DOMAIN c.refs = 1..Len(c.refs)
      /\ \A i \in 1..Len(c.refs) : c.refs[i] \in Ref
  BY <1>2 DEF RowsFor
<1>9. N \in Seq(Row) /\ Len(N) = Len(c.refs)
  <2>1. \A i \in 1..Len(c.refs) : [from |-> f, ref |-> c.refs[i], line |-> i] \in Row
    BY <1>8 DEF Row
  <2> HIDE DEF N
  <2> QED
    BY <1>8, <2>1
<1> HIDE DEF K, N
<1>10. /\ Len(K) \in Nat /\ Len(N) \in Nat /\ DOMAIN K = 1..Len(K)
       /\ DOMAIN rows' = 1..(Len(K) + Len(N))
       /\ \A i \in 1..(Len(K) + Len(N)) :
            rows'[i] = IF i <= Len(K) THEN K[i] ELSE N[i - Len(K)]
  <2>1. K \in Seq(Row) /\ N \in Seq(Row)
    BY <1>6, <1>9
  <2>2. rows' \in Seq(Row) /\ Len(rows') = Len(K) + Len(N)
    BY <1>1, <2>1
  <2>3. Len(K) \in Nat /\ Len(N) \in Nat /\ DOMAIN K = 1..Len(K)
    BY <2>1
  <2>4. \A i \in 1..(Len(K) + Len(N)) :
          rows'[i] = IF i <= Len(K) THEN K[i] ELSE N[i - Len(K)]
    BY <1>1, <2>1
  <2> QED
    BY <2>2, <2>3, <2>4
<1>11. \A k \in 1..Len(K) : k \in DOMAIN rows' /\ rows'[k] = K[k]
  BY <1>10
<1>12. ASSUME NEW i \in 1..Len(N)
       PROVE  /\ Len(K) + i \in DOMAIN rows'
              /\ rows'[Len(K) + i] = [from |-> f, ref |-> c.refs[i], line |-> i]
  <2>1. Len(K) + i \in 1..(Len(K) + Len(N)) /\ ~(Len(K) + i <= Len(K)) /\ (Len(K) + i) - Len(K) = i
    BY <1>10
  <2>2. rows'[Len(K) + i] = N[i]
    BY <1>10, <2>1
  <2> QED
    BY <1>8, <1>9, <1>10, <2>1, <2>2
<1>13. ASSUME NEW i \in DOMAIN rows', i \notin 1..Len(K)
       PROVE  rows'[i].from = f /\ rows'[i].line = i - Len(K)
  <2>1. i - Len(K) \in 1..Len(N) /\ Len(K) + (i - Len(K)) = i
    BY <1>10, <1>13
  <2>2. rows'[i] = [from |-> f, ref |-> c.refs[i - Len(K)], line |-> i - Len(K)]
    BY <1>12, <2>1
  <2> QED
    BY <2>2
<1>14. \A i \in DOMAIN c.refs :
         \E k \in DOMAIN rows' : rows'[k] = [from |-> f, ref |-> c.refs[i], line |-> i]
  BY <1>8, <1>9, <1>12
<1>15. ASSUME NEW k \in DOMAIN rows, rows[k].from # f
       PROVE  \E l \in DOMAIN rows' : rows'[l] = rows[k]
  <2>1. k \in I
    BY <1>5, <1>15
  <2>2. PICK l \in DOMAIN K : K[l] = rows[k]
    BY <1>6, <2>1
  <2> QED
    BY <1>10, <1>11, <2>2
<1>16. ASSUME NEW i \in DOMAIN rows', NEW j \in DOMAIN rows', rows'[i].from = rows'[j].from, i < j
       PROVE  rows'[i].line < rows'[j].line
  <2>1. ASSUME NEW k \in 1..Len(K)
        PROVE  rows'[k].from # f
    <3>1. rows'[k] = K[k] /\ k \in DOMAIN K
      BY <1>10, <1>11
    <3>2. PICK h \in I : K[k] = rows[h]
      BY <1>6, <3>1
    <3> QED
      BY <1>5, <3>1, <3>2
  <2>2. i \in Int /\ j \in Int
    BY <1>10
  <2>3. CASE i \in 1..Len(K) /\ j \in 1..Len(K)
    <3>1. K[i].from = K[j].from /\ rows'[i] = K[i] /\ rows'[j] = K[j]
      BY <1>11, <1>16, <2>3
    <3> QED
      BY <1>7, <1>10, <1>16, <2>3, <3>1
  <2>4. CASE i \notin 1..Len(K) /\ j \notin 1..Len(K)
    <3>1. rows'[i].line = i - Len(K) /\ rows'[j].line = j - Len(K)
      BY <1>13, <2>4
    <3> QED
      BY <1>10, <1>16, <2>2, <3>1
  <2>5. CASE i \in 1..Len(K) /\ j \notin 1..Len(K)
    BY <1>13, <1>16, <2>1, <2>5
  <2>6. CASE i \notin 1..Len(K) /\ j \in 1..Len(K)
    BY <1>13, <1>16, <2>1, <2>6
  <2> QED
    BY <2>3, <2>4, <2>5, <2>6
<1>17. RowsInOrder'
  BY <1>16 DEF RowsInOrder
<1> QED
  BY <1>3, <1>4, <1>14, <1>15, <1>17

LEMMA StoreFileOwes == ASSUME EdgesIInv, ResolveIInv, StoreFile PROVE ResolveIInv'
<1>1. /\ phase = "store" /\ op' = op /\ phase' = phase
  BY DEF StoreFile
<1>2. PICK f \in todo :
        /\ todo' = todo \ {f}
        /\ IF disk[f] = None
             THEN UNCHANGED <<tableVars, changed, last>>
             ELSE /\ Stored(f, disk[f])
                  /\ changed' = changed \cup {f}
                  /\ last' = IF indexed[f] = disk[f] THEN last ELSE [last EXCEPT !.stored = @ \cup {f}]
  BY DEF StoreFile
<1>3. ResolutionTypeOK /\ ResolutionTypeOK' /\ f \in Files
  BY StoreFilePreserves DEF EdgesIInv, ResolutionTypeOK
<1>4. op \in {"indexAll", "sync", "indexFiles"} /\ ~Idle
  BY <1>1, NoneIsNoOp DEF ResolveIInv, PhasesOf, Idle
<1>5. last \in [op : Ops \cup {"scratch", None}, stored : SUBSET Files]
  BY <1>3 DEF ResolutionTypeOK
<1>6. last'.op = last.op /\ last.op # "sync" /\ last.op # "indexAll"
  <2>1. last'.op = last.op
    BY <1>2, <1>5
  <2> QED
    BY <1>4, <2>1 DEF ResolveIInv, PhasesOf
<1>7. CachesAreAccurate' /\ BatchIs' /\ BatchIsPrefix' /\ BatchIsFull' /\ LeftBehind' /\ PhasesOf'
  <2>1. CachesAreAccurate' /\ BatchIs' /\ BatchIsPrefix' /\ BatchIsFull'
    BY <1>1 DEF CachesAreAccurate, Cleared, BatchIs, BatchIsPrefix, BatchIsFull
  <2>2. LeftBehind'
    BY <1>1, <1>6 DEF LeftBehind
  <2>3. PhasesOf'
    BY <1>1, <1>6 DEF ResolveIInv, PhasesOf, Idle
  <2> QED
    BY <2>1, <2>2, <2>3
<1>8. CASE UNCHANGED tableVars /\ last' = last
  <2>1. UNCHANGED <<indexed, rows, edges, twice>> /\ changed \subseteq changed'
    BY <1>2, <1>8 DEF tableVars
  <2>2. RowsInOrder'
    BY <2>1, OrderStands DEF ResolveIInv
  <2>3. \A g : Owed(g) => Owed(g)'
    BY <2>1 DEF Owed, Waits
  <2>4. SyncOwes'
    BY <1>1, <1>6, <1>8, <2>1, <2>3 DEF ResolveIInv, SyncOwes
  <2>5. ScratchOwes'
    BY <1>1, <1>8, <2>1, ContentsStand DEF ResolveIInv, ScratchOwes
  <2> QED
    BY <1>7, <2>2, <2>4, <2>5 DEF ResolveIInv
<1>9. CASE disk[f] # None /\ indexed[f] # disk[f]
  <2> DEFINE c == disk[f]
  <2>1. /\ c \in Contents /\ Stored(f, c) /\ changed' = changed \cup {f}
        /\ last' = [last EXCEPT !.stored = @ \cup {f}] /\ c # None
    BY <1>2, <1>3, <1>9 DEF ResolutionTypeOK
  <2>2. last'.stored = last.stored \cup {f} /\ last.stored \subseteq Files
    BY <1>5, <2>1
  <2>3. indexed[f] # c
    BY <1>9
  <2> HIDE DEF c
  <2>4. /\ indexed'[f] = c /\ \A g \in Files \ {f} : indexed'[g] = indexed[g]
        /\ \A e \in edges' : e \in edges /\ e.from # f
        /\ \A i \in DOMAIN c.refs :
             \E k \in DOMAIN rows' : rows'[k] = [from |-> f, ref |-> c.refs[i], line |-> i]
        /\ \A k \in DOMAIN rows : rows[k].from # f => \E l \in DOMAIN rows' : rows'[l] = rows[k]
        /\ RowsInOrder'
    BY <1>3, <2>1, <2>3, StoredRows DEF ResolveIInv
  <2>5. Owed(f)'
    <3>1. \A i \in DOMAIN c.refs : \E k \in DOMAIN rows' : rows'[k].from = f /\ rows'[k].line = i
      BY <2>4
    <3>2. \A i \in DOMAIN indexed'[f].refs : Waits(f, i)'
      BY <2>4, <3>1 DEF Waits
    <3> QED
      BY <2>4, <3>2 DEF Owed
  <2>6. ASSUME NEW g \in Files \ {f}, Owed(g)
        PROVE  Owed(g)'
    <3>1. \A i : Waits(g, i) => Waits(g, i)'
      BY <2>4 DEF Waits
    <3> QED
      BY <2>4, <2>6, <3>1, OwedStays
  <2>7. SyncOwes'
    <3>1. op = "sync" => \A g \in last'.stored : g \in changed' /\ indexed'[g] # None
      <4> SUFFICES ASSUME op = "sync", NEW g \in last'.stored
                   PROVE  g \in changed' /\ indexed'[g] # None
        OBVIOUS
      <4>1. CASE g = f
        BY <2>1, <2>4, <4>1
      <4>2. CASE g # f
        BY <2>1, <2>2, <2>4, <4>2 DEF ResolveIInv, SyncOwes
      <4> QED
        BY <4>1, <4>2
    <3>2. op = "sync" => \A g \in last'.stored : Owed(g)'
      <4> SUFFICES ASSUME op = "sync", NEW g \in last'.stored
                   PROVE  Owed(g)'
        OBVIOUS
      <4>1. CASE g # f
        BY <1>1, <2>2, <2>6, <4>1 DEF ResolveIInv, SyncOwes
      <4> QED
        BY <2>5, <4>1
    <3> QED
      BY <1>1, <1>6, <3>1, <3>2 DEF ResolveIInv, SyncOwes
  <2>8. ScratchOwes'
    <3> SUFFICES ASSUME op = "indexAll", last.op = "scratch", NEW r \in References'
                 PROVE  \E i \in DOMAIN rows' : rows'[i] = r
      BY <1>1, <1>6 DEF ScratchOwes
    <3>1. PICK g \in Files : indexed'[g] # None /\ \E i \in DOMAIN indexed'[g].refs : r = RowsFor(g, indexed'[g])[i]
      BY DEF References
    <3>2. PICK i \in DOMAIN indexed'[g].refs : r = RowsFor(g, indexed'[g])[i]
      BY <3>1
    <3>3. CASE g = f
      <4>1. i \in DOMAIN c.refs /\ c.refs \in Seq(Ref) /\ r = RowsFor(f, c)[i]
        BY <2>1, <2>4, <3>2, <3>3, ResolutionAssumption
      <4>2. r = [from |-> f, ref |-> c.refs[i], line |-> i]
        BY <4>1 DEF RowsFor
      <4> QED
        BY <2>4, <4>1, <4>2
    <3>4. CASE g # f
      <4>1. indexed'[g] = indexed[g]
        BY <2>4, <3>4
      <4>2. r \in References
        BY <3>1, <3>2, <4>1 DEF References
      <4>3. PICK k \in DOMAIN rows : rows[k] = r
        BY <1>1, <4>2 DEF ResolveIInv, ScratchOwes
      <4>4. indexed[g].refs \in Seq(Ref) /\ i \in DOMAIN indexed[g].refs
        BY <1>3, <3>1, <3>2, <4>1, ContentIs
      <4>5. r.from = g
        BY <3>2, <4>1, <4>4 DEF RowsFor
      <4> QED
        BY <2>4, <3>4, <4>3, <4>5
    <3> QED
      BY <3>3, <3>4
  <2> QED
    BY <1>7, <2>4, <2>7, <2>8 DEF ResolveIInv
<1> QED
  <2>1. CASE disk[f] = None
    BY <1>2, <1>8, <2>1
  <2>2. CASE disk[f] # None /\ indexed[f] = disk[f]
    <3>1. UNCHANGED tableVars /\ last' = last
      BY <1>2, <2>2 DEF Stored
    <3> QED
      BY <1>8, <3>1
  <2> QED
    BY <1>9, <2>1, <2>2

LEMMA AllStoredOwes == ASSUME EdgesIInv, ResolveIInv, AllStored PROVE ResolveIInv'
<1>1. /\ phase = "store" /\ UNCHANGED <<indexed, rows, edges, twice>>
  BY DEF AllStored, tableVars
<1>2. op \in {"indexAll", "sync", "indexFiles"} /\ ~Idle
  BY <1>1, NoneIsNoOp DEF ResolveIInv, PhasesOf, Idle
<1>3. last.op # "sync" /\ last.op # "indexAll"
  BY <1>2 DEF ResolveIInv, PhasesOf
<1>4. RowsInOrder'
  BY <1>1, OrderStands DEF ResolveIInv
<1>5. \A g : Owed(g) => Owed(g)'
  BY <1>1 DEF Owed, Waits
<1>6. CASE op = "indexFiles" \/ changed = {}
  <2>1. /\ op' = None /\ phase' = "idle" /\ last'.stored = last.stored
        /\ last'.op = IF op = "sync" THEN "sync" ELSE None
    BY <1>6 DEF AllStored, End
  <2>2. SyncOwes'
    <3>1. op = "sync" => last.stored = {}
      BY <1>6 DEF ResolveIInv, SyncOwes
    <3> QED
      BY <2>1, <3>1, NoneIsNoOp DEF SyncOwes
  <2>3. CachesAreAccurate' /\ ScratchOwes' /\ BatchIs' /\ BatchIsPrefix' /\ BatchIsFull'
    BY <2>1, NoneIsNoOp DEF CachesAreAccurate, Cleared, ScratchOwes, BatchIs, BatchIsPrefix, BatchIsFull
  <2>4. LeftBehind' /\ PhasesOf'
    BY <2>1, NoneIsNoOp DEF LeftBehind, PhasesOf, Idle
  <2> QED
    BY <1>4, <2>2, <2>3, <2>4 DEF ResolveIInv
<1>7. CASE ~(op = "indexFiles" \/ changed = {})
  <2>1. /\ Clear /\ UNCHANGED <<op, changed, last>>
        /\ phase' = IF op = "indexAll" THEN "batch" ELSE "persist"
    BY <1>7 DEF AllStored
  <2>2. (op = "indexAll" /\ phase' = "batch") \/ (op = "sync" /\ phase' = "persist")
    <3>1. CASE op = "indexAll"
      BY <2>1, <3>1
    <3>2. CASE op = "sync"
      BY <2>1, <3>2
    <3> QED
      BY <1>2, <1>7, <3>1, <3>2
  <2>3. CachesAreAccurate'
    BY <2>1 DEF CachesAreAccurate, Accurate, Clear
  <2>4. SyncOwes'
    BY <1>1, <1>3, <1>5, <2>1, <2>2 DEF ResolveIInv, SyncOwes
  <2>5. ScratchOwes'
    <3>1. \A r \in Resolving : r \in References
      BY DEF Resolving
    <3>2. last.op = "scratch" => op = "indexAll"
      BY <1>2 DEF ResolveIInv, PhasesOf, Idle
    <3>3. last.op = "scratch" => \A r \in Resolving : Explained(r)
      BY <1>1, <3>1, <3>2 DEF ResolveIInv, ScratchOwes, Explained
    <3>4. last.op = "scratch" => \A r \in Resolving : Explained(r)'
      BY <1>1, <3>3, ExplainedStays
    <3> QED
      BY <1>1, <2>1, <2>2, <3>4, ContentsStand DEF ScratchOwes
  <2>6. BatchIs' /\ BatchIsPrefix' /\ BatchIsFull'
    BY <2>2 DEF BatchIs, BatchIsPrefix, BatchIsFull
  <2>7. LeftBehind'
    BY <1>3, <2>1, <2>2 DEF LeftBehind
  <2>8. PhasesOf'
    BY <1>3, <2>1, <2>2 DEF ResolveIInv, PhasesOf, Idle
  <2> QED
    BY <1>4, <2>3, <2>4, <2>5, <2>6, <2>7, <2>8 DEF ResolveIInv
<1> QED
  BY <1>6, <1>7

LEMMA StoredRowsAreReferences ==
    ASSUME EdgesIInv, NEW k \in DOMAIN rows
    PROVE  rows[k] \in References /\ rows[k] \in Row
<1>1. rows[k] \in Row /\ IsReference(rows[k])
  BY DEF EdgesIInv, ResolutionTypeOK, EdgesAreSound
<1> QED
  BY <1>1, ReferencesAre DEF EdgesIInv

LEMMA PersistOwes == ASSUME EdgesIInv, ResolveIInv, Persist PROVE ResolveIInv'
<1> DEFINE I == {i \in DOMAIN rows : rows[i].from \in changed}
           R == Picked(rows, I)
<1>1. /\ phase = "persist" /\ Resolve(R) /\ phase' = "resolved"
      /\ op' = op /\ changed' = changed /\ last' = last
  BY DEF Persist
<1>2. op = "sync" /\ op # None /\ last.op = None
  BY <1>1, NoneIsNoOp DEF ResolveIInv, PhasesOf, SyncOwes
<1>3. ResolutionTypeOK /\ Accurate /\ rows \in Seq(Row) /\ twice \subseteq edges
  BY <1>1, <1>2 DEF EdgesIInv, ResolutionTypeOK, ResolveIInv, CachesAreAccurate, Cleared
<1>4. I \in SUBSET DOMAIN rows /\ \A i \in DOMAIN rows : i \in I <=> rows[i].from \in changed
  OBVIOUS
<1> HIDE DEF I
<1>5. /\ R \in Seq(Row)
      /\ \A k \in DOMAIN R : \E i \in I : R[k] = rows[i]
      /\ \A i \in I : \E k \in DOMAIN R : R[k] = rows[i]
  BY <1>3, <1>4, PickedType
<1> HIDE DEF R
<1>6. \A k \in DOMAIN R : R[k] \in References
  BY <1>4, <1>5, StoredRowsAreReferences
<1>7. indexed' = indexed /\ rows' = rows /\ PaidFor(R)
  BY <1>1, <1>3, <1>5, <1>6, ResolvePays
<1>8. /\ References' = References /\ Resolving' = Resolving /\ IdealGraph' = IdealGraph
  BY <1>7, ContentsStand
<1>9. ASSUME NEW f \in last.stored
      PROVE  Paid(f)'
  <2>1. f \in changed /\ indexed[f] # None /\ Owed(f) /\ f \in Files
    BY <1>1, <1>2, <1>3 DEF ResolveIInv, SyncOwes, ResolutionTypeOK
  <2>2. \A e \in edges : e.from # f
    BY <2>1 DEF Owed
  <2>3. ASSUME NEW e \in edges', e.from = f
        PROVE  e \in IdealGraph
    <3>1. PICK j \in DOMAIN work'.resolved : e = Target(work'.resolved[j], Nodes)
      BY <1>7, <2>2, <2>3 DEF PaidFor
    <3>2. work'.resolved[j] \in Resolving
      BY <1>7 DEF PaidFor
    <3> QED
      BY <3>1, <3>2 DEF IdealGraph
  <2>4. ASSUME NEW e \in IdealGraph, e.from = f
        PROVE  e \in edges'
    <3>1. PICK r \in Resolving : e = Target(r, Nodes)
      BY DEF IdealGraph
    <3>2. r \in References /\ Matches(r.from, r.ref, Nodes) # {}
      BY DEF Resolving, Resolvable
    <3>3. r.from = f
      BY <2>4, <3>1, <3>2, TargetIs
    <3>4. r \in Row /\ IsReference(r)
      BY <1>3, <3>2, ReferencesAre
    <3>5. PICK i \in DOMAIN rows : rows[i].from = f /\ rows[i].line = r.line
      BY <2>1, <3>3, <3>4 DEF Owed, Waits, IsReference
    <3>6. rows[i] = r
      BY <1>3, <3>2, <3>3, <3>5, ReferencesAre, StoredRowsAreReferences
    <3>7. PICK k \in DOMAIN R : R[k] = r
      BY <1>4, <1>5, <2>1, <3>3, <3>6
    <3>8. PICK j \in DOMAIN work'.resolved : work'.resolved[j] = r
      BY <1>7, <3>7 DEF PaidFor
    <3> QED
      BY <1>7, <3>1, <3>8 DEF PaidFor
  <2>5. \A e \in twice' : e.from # f
    BY <1>3, <1>7, <2>2 DEF PaidFor
  <2> QED
    BY <1>8, <2>3, <2>4, <2>5 DEF Paid, Resolved
<1>10. SyncOwes'
  BY <1>1, <1>2, <1>7, <1>9 DEF ResolveIInv, SyncOwes
<1>11. RowsInOrder'
  BY <1>7, OrderStands DEF ResolveIInv
<1>12. CachesAreAccurate' /\ ScratchOwes' /\ BatchIs' /\ BatchIsPrefix' /\ BatchIsFull'
  BY <1>1, <1>2, NoneIsNoOp DEF CachesAreAccurate, Cleared, ScratchOwes, BatchIs, BatchIsPrefix, BatchIsFull
<1>13. LeftBehind' /\ PhasesOf'
  BY <1>1, <1>2, NoneIsNoOp DEF LeftBehind, PhasesOf, Idle
<1> QED
  BY <1>10, <1>11, <1>12, <1>13 DEF ResolveIInv

LEMMA TakeBatchOwes == ASSUME EdgesIInv, ResolveIInv, TakeBatch PROVE ResolveIInv'
<1> DEFINE n == IF Len(rows) < Batch THEN Len(rows) ELSE Batch
           R == SubSeq(rows, 1, n)
<1>1. /\ phase = "batch" /\ Resolve(R) /\ phase' = "resolved"
      /\ op' = op /\ changed' = changed /\ last' = last
  BY DEF TakeBatch
<1>2. op = "indexAll" /\ op # None /\ ~Idle /\ last.op # "sync" /\ last.op # "indexAll"
  BY <1>1, NoneIsNoOp DEF ResolveIInv, PhasesOf, Idle
<1>3. ResolutionTypeOK /\ Accurate /\ rows \in Seq(Row)
  BY <1>1, <1>2 DEF EdgesIInv, ResolutionTypeOK, ResolveIInv, CachesAreAccurate, Cleared
<1>4. /\ Len(rows) \in Nat /\ n \in 0..Len(rows) /\ DOMAIN rows = 1..Len(rows)
      /\ Batch \in Nat /\ n <= Batch /\ (n # Batch => n = Len(rows))
  BY <1>3, ResolutionAssumption
<1>5. rows \in Seq(Row) /\ Len(rows) \in Nat /\ n \in 0..Len(rows) /\ DOMAIN rows = 1..Len(rows)
  BY <1>3, <1>4
<1> HIDE DEF n
<1>6. /\ R \in Seq(Row) /\ Len(R) = n /\ DOMAIN R = 1..n
      /\ \A k \in 1..n : k \in DOMAIN rows /\ R[k] = rows[k]
  <2>1. Len(R) = n
    BY <1>5
  <2>2. R \in Seq(Row) /\ \A k \in DOMAIN R : k \in DOMAIN rows /\ R[k] = rows[k]
    BY <1>5
  <2>3. DOMAIN R = 1..n
    BY <2>1, <2>2
  <2> QED
    BY <2>1, <2>2, <2>3
<1> HIDE DEF R
<1>7. \A k \in DOMAIN R : R[k] \in References
  BY <1>6, StoredRowsAreReferences
<1>8. indexed' = indexed /\ rows' = rows /\ Accurate' /\ PaidFor(R)
  BY <1>1, <1>3, <1>6, <1>7, ResolvePays
<1>9. Nodes' = Nodes /\ References' = References /\ Resolving' = Resolving
  BY <1>8, ContentsStand
<1>10. work'.rows = R
  BY <1>8 DEF PaidFor
<1>11. \A k, l \in DOMAIN R : R[k] = R[l] => k = l
  BY <1>6 DEF EdgesIInv, ReferencesHaveOneEdge
<1>12. BatchIs'
  <2> DEFINE Made(q) == \E j \in DOMAIN work'.resolved : work'.resolved[j] = q
  <2>1. \A k \in DOMAIN R : R[k] \in References'
    BY <1>7, <1>9
  <2>2. \A k \in DOMAIN R : Made(R[k]) <=> R[k] \in Resolving'
    BY <1>8, <1>9 DEF PaidFor
  <2>3. \A j \in DOMAIN work'.resolved : \E k \in DOMAIN R : work'.resolved[j] = R[k]
    BY <1>8 DEF PaidFor
  <2>4. \A j \in DOMAIN work'.resolved : Target(work'.resolved[j], Nodes') \in edges'
    BY <1>8, <1>9 DEF PaidFor
  <2>5. Len(R) <= Batch
    BY <1>4, <1>6
  <2> QED
    BY <1>10, <1>11, <2>1, <2>2, <2>3, <2>4, <2>5 DEF BatchIs
<1>13. BatchIsPrefix'
  BY <1>6, <1>8, <1>10 DEF BatchIsPrefix
<1>14. BatchIsFull'
  BY <1>4, <1>6, <1>8, <1>10 DEF BatchIsFull
<1>15. CachesAreAccurate'
  BY <1>8 DEF CachesAreAccurate
<1>16. RowsInOrder'
  BY <1>8, OrderStands DEF ResolveIInv
<1>17. edges \subseteq edges'
  BY <1>1 DEF Resolve, Insert
<1>18. ScratchOwes'
  <2>1. last.op = "scratch" => \A r \in Resolving : Explained(r)
    BY <1>1 DEF ResolveIInv, ScratchOwes
  <2>2. last.op = "scratch" => \A r \in Resolving : Explained(r)'
    BY <1>8, <1>17, <2>1, ExplainedStays
  <2> QED
    BY <1>1, <1>9, <2>2 DEF ScratchOwes
<1>19. SyncOwes' /\ LeftBehind' /\ PhasesOf'
  BY <1>1, <1>2 DEF SyncOwes, LeftBehind, PhasesOf
<1> QED
  BY <1>12, <1>13, <1>14, <1>15, <1>16, <1>18, <1>19 DEF ResolveIInv

LEMMA NoMoreRowsOwes == ASSUME EdgesIInv, ResolveIInv, NoMoreRows PROVE ResolveIInv'
<1>1. /\ phase = "batch" /\ rows = <<>> /\ phase' = "synthesize"
      /\ UNCHANGED <<indexed, rows, edges, twice, op, changed, last>>
  BY DEF NoMoreRows, tableVars
<1>2. op = "indexAll" /\ op # None /\ ~Idle /\ last.op # "sync" /\ last.op # "indexAll"
  BY <1>1, NoneIsNoOp DEF ResolveIInv, PhasesOf, Idle
<1>3. RowsInOrder'
  BY <1>1, OrderStands DEF ResolveIInv
<1>4. ScratchOwes'
  <2>1. last.op = "scratch" => \A r \in Resolving : Explained(r)
    BY <1>1 DEF ResolveIInv, ScratchOwes
  <2>2. last.op = "scratch" => \A r \in Resolving : Explained(r)'
    BY <1>1, <2>1, ExplainedStays
  <2> QED
    BY <1>1, <2>2, ContentsStand DEF ScratchOwes
<1>5. CachesAreAccurate' /\ SyncOwes' /\ BatchIs' /\ BatchIsPrefix' /\ BatchIsFull'
  BY <1>1, <1>2 DEF CachesAreAccurate, Cleared, SyncOwes, BatchIs, BatchIsPrefix, BatchIsFull
<1>6. LeftBehind'
  BY <1>1 DEF LeftBehind
<1>7. PhasesOf'
  BY <1>1, <1>2 DEF PhasesOf
<1> QED
  BY <1>3, <1>4, <1>5, <1>6, <1>7 DEF ResolveIInv

LEMMA DeleteResolvedOwes == ASSUME EdgesIInv, ResolveIInv, DeleteResolved PROVE ResolveIInv'
<1>1. /\ phase = "resolved" /\ rows' = Without(rows, work.resolved)
      /\ UNCHANGED <<indexed, edges, twice, known, looked>>
  BY DEF DeleteResolved, cacheVars
<1>2. ResolutionTypeOK /\ ResolutionTypeOK' /\ rows \in Seq(Row) /\ work.rows \in Seq(Row) /\ op # None
  BY <1>1, DeleteResolvedPreserves DEF EdgesIInv, ResolutionTypeOK, Idle
<1>3. op # "scratch" /\ ~Idle /\ last.op # "sync" /\ last.op # "indexAll"
  BY <1>2, NoneIsNoOp DEF ResolutionTypeOK, ResolveIInv, PhasesOf, Idle
<1> DEFINE I == {i \in DOMAIN rows :
                   \A j \in DOMAIN work.resolved :
                     work.resolved[j].from # rows[i].from \/ work.resolved[j].ref # rows[i].ref}
<1>4. rows' = Picked(rows, I) /\ I \in SUBSET DOMAIN rows
  BY <1>1 DEF Without
<1>5. ASSUME NEW i \in DOMAIN rows
      PROVE  \/ i \in I
             \/ \E j \in DOMAIN work.resolved :
                  work.resolved[j].from = rows[i].from /\ work.resolved[j].ref = rows[i].ref
  OBVIOUS
<1> HIDE DEF I
<1>6. /\ \A k \in DOMAIN rows' : \E i \in DOMAIN rows : rows'[k] = rows[i]
      /\ \A i \in I : \E k \in DOMAIN rows' : rows'[k] = rows[i]
  BY <1>2, <1>4, PickedType
<1>7. RowsInOrder'
  BY <1>1, <1>2, OrderWithout DEF ResolveIInv
<1>8. CASE op = "indexAll"
  <2>1. phase' = "unresolved" /\ UNCHANGED <<op, changed, work, last>>
    BY <1>8 DEF DeleteResolved
  <2>2. Nodes' = Nodes /\ References' = References /\ Resolving' = Resolving /\ FreshNames' = FreshNames
    BY <1>1, ContentsStand
  <2>3. CachesAreAccurate'
    BY <1>1, <1>8, <2>2 DEF ResolveIInv, CachesAreAccurate, Cleared, Accurate
  <2>4. BatchIs'
    BY <1>1, <1>8, <2>1, <2>2 DEF ResolveIInv, BatchIs
  <2>5. BatchIsFull'
    <3>1. Len(work.rows) # Batch => \A i \in DOMAIN rows : \E k \in DOMAIN work.rows : work.rows[k] = rows[i]
      BY <1>1, <1>8 DEF ResolveIInv, BatchIsFull
    <3>2. Len(work.rows) # Batch => \A i \in DOMAIN rows' : \E k \in DOMAIN work.rows : work.rows[k] = rows'[i]
      BY <1>6, <3>1
    <3> QED
      BY <2>1, <3>2 DEF BatchIsFull
  <2>6. ASSUME last.op = "scratch", NEW r \in Resolving
        PROVE  Explained(r)'
    <3>1. Explained(r)
      BY <1>1, <2>6 DEF ResolveIInv, ScratchOwes
    <3>2. CASE Target(r, Nodes) \in edges
      BY <1>1, <2>2, <3>2 DEF Explained
    <3>3. CASE \E q \in References : /\ q.from = r.from /\ q.ref = r.ref /\ q.line < r.line
                                     /\ Target(q, Nodes) \in edges
      BY <1>1, <2>2, <3>3 DEF Explained
    <3>4. ASSUME NEW i \in DOMAIN rows, rows[i] = r
          PROVE  Explained(r)'
      <4>1. CASE i \in I
        BY <1>6, <3>4, <4>1 DEF Explained
      <4>2. CASE i \notin I
        <5>1. PICK j \in DOMAIN work.resolved : work.resolved[j].from = r.from /\ work.resolved[j].ref = r.ref
          BY <1>5, <3>4, <4>2
        <5>2. PICK k \in DOMAIN work.rows : work.resolved[j] = work.rows[k]
          BY <1>1, <1>8 DEF ResolveIInv, BatchIs
        <5>3. k \in DOMAIN rows /\ rows[k] = work.rows[k]
          BY <1>1, <1>8 DEF ResolveIInv, BatchIsPrefix
        <5>4. CASE i \in DOMAIN work.rows
          <6>1. work.rows[i] = r
            BY <1>1, <1>8, <3>4, <5>4 DEF ResolveIInv, BatchIsPrefix
          <6>2. PICK l \in DOMAIN work.resolved : work.resolved[l] = r
            BY <1>1, <1>8, <5>4, <6>1 DEF ResolveIInv, BatchIs
          <6>3. Target(r, Nodes) \in edges
            BY <1>1, <1>8, <6>2 DEF ResolveIInv, BatchIs
          <6> QED
            BY <3>2, <6>3
        <5>5. CASE i \notin DOMAIN work.rows
          <6>1. k < i
            BY <1>2, <5>3, <5>5
          <6>2. rows[k].from = rows[i].from /\ rows[k].ref = rows[i].ref
            BY <3>4, <5>1, <5>2, <5>3
          <6>3. rows[k].line < rows[i].line
            BY <5>3, <6>1, <6>2 DEF ResolveIInv, RowsInOrder
          <6>4. rows[k] \in References /\ Target(rows[k], Nodes) \in edges
            BY <1>1, <1>8, <5>2, <5>3 DEF ResolveIInv, BatchIs
          <6> QED
            BY <3>3, <3>4, <6>2, <6>3, <6>4
        <5> QED
          BY <5>4, <5>5
      <4> QED
        BY <4>1, <4>2
    <3> QED
      BY <3>1, <3>2, <3>3, <3>4 DEF Explained
  <2>7. ScratchOwes'
    BY <2>1, <2>2, <2>6 DEF ScratchOwes
  <2>8. BatchIsPrefix' /\ LeftBehind' /\ SyncOwes' /\ PhasesOf'
    BY <1>3, <1>8, <2>1 DEF BatchIsPrefix, LeftBehind, SyncOwes, PhasesOf
  <2> QED
    BY <1>7, <2>3, <2>4, <2>5, <2>7, <2>8 DEF ResolveIInv
<1>9. CASE op # "indexAll"
  <2>1. op' = None /\ phase' = "idle" /\ last'.op = op /\ last'.stored = last.stored
    BY <1>9 DEF DeleteResolved, End
  <2>2. SyncOwes'
    <3>1. op = "sync" => \A f \in last.stored : Paid(f)
      BY <1>1 DEF ResolveIInv, SyncOwes
    <3>2. op = "sync" => \A f \in last.stored : Paid(f)'
      BY <1>1, <3>1, PaidStays
    <3> QED
      BY <2>1, <3>2, NoneIsNoOp DEF SyncOwes
  <2>3. CachesAreAccurate' /\ ScratchOwes' /\ BatchIs' /\ BatchIsPrefix' /\ BatchIsFull'
    BY <1>3, <2>1, NoneIsNoOp DEF CachesAreAccurate, Cleared, ScratchOwes, BatchIs, BatchIsPrefix, BatchIsFull
  <2>4. LeftBehind' /\ PhasesOf'
    BY <1>3, <1>9, <2>1 DEF LeftBehind, PhasesOf, Idle
  <2> QED
    BY <1>7, <2>2, <2>3, <2>4 DEF ResolveIInv
<1> QED
  BY <1>8, <1>9

(* The references of what is stored are finitely many. *)
LEMMA ReferencesAreFinite == ASSUME ResolutionTypeOK PROVE IsFiniteSet(References)
<1> DEFINE S == {g \in Files : indexed[g] # None}
           Of(f) == {RowsFor(f, indexed[f])[i] : i \in DOMAIN indexed[f].refs}
           T == {Of(f) : f \in S}
           F == [f \in S |-> Of(f)]
<1>1. IsFiniteSet(S)
  BY ResolutionAssumption, FS_Subset
<1>2. ASSUME NEW f \in S
      PROVE  IsFiniteSet(Of(f))
  <2> DEFINE refs == indexed[f].refs
             G == [i \in 1..Len(refs) |-> RowsFor(f, indexed[f])[i]]
  <2>1. refs \in Seq(Ref)
    BY ContentIs
  <2>2. IsFiniteSet(1..Len(refs)) /\ DOMAIN refs = 1..Len(refs)
    BY <2>1, FS_Interval
  <2>3. G \in Surjection(1..Len(refs), Of(f))
    BY <2>2 DEF Surjection
  <2> QED
    BY <2>2, <2>3, FS_Surjection
<1>3. F \in Surjection(S, T)
  BY DEF Surjection
<1>4. IsFiniteSet(T)
  BY <1>1, <1>3, FS_Surjection
<1>5. \A U \in T : IsFiniteSet(U)
  BY <1>2
<1>6. References = UNION T
  BY DEF References
<1> HIDE DEF T
<1> QED
  BY <1>4, <1>5, <1>6, FS_UNION

LEMMA DeleteUnresolvedOwes == ASSUME EdgesIInv, ResolveIInv, DeleteUnresolved PROVE ResolveIInv'
<1>1. /\ phase = "unresolved" /\ rows' = Without(rows, Failed)
      /\ phase' = IF work.resolved = <<>> THEN "synthesize" ELSE "batch"
      /\ UNCHANGED <<indexed, edges, twice, known, looked, op, changed, last>>
  BY DEF DeleteUnresolved, cacheVars
<1>2. /\ ResolutionTypeOK /\ rows \in Seq(Row) /\ work.rows \in Seq(Row) /\ work.resolved \in Seq(Row)
      /\ ResolutionTypeOK'
  BY DeleteUnresolvedPreserves DEF EdgesIInv, ResolutionTypeOK
<1>3. op = "indexAll" /\ op # None /\ last.op # "sync" /\ last.op # "indexAll"
  BY <1>1, NoneIsNoOp DEF ResolveIInv, PhasesOf, Idle
<1>4. Nodes' = Nodes /\ References' = References /\ Resolving' = Resolving /\ FreshNames' = FreshNames
  BY <1>1, ContentsStand
<1>5. phase' \in {"synthesize", "batch"} /\ (phase' = "synthesize" => work.resolved = <<>>)
  BY <1>1
<1> DEFINE I == {i \in DOMAIN rows :
                   \A j \in DOMAIN Failed : Failed[j].from # rows[i].from \/ Failed[j].ref # rows[i].ref}
           B == {i \in DOMAIN work.rows :
                   \A j \in DOMAIN work.resolved : work.resolved[j] # work.rows[i]}
<1>6. rows' = Picked(rows, I) /\ I \in SUBSET DOMAIN rows
  BY <1>1 DEF Without
<1>7. \A i \in DOMAIN rows :
        i \in I <=> \A j \in DOMAIN Failed : Failed[j].from # rows[i].from \/ Failed[j].ref # rows[i].ref
  OBVIOUS
<1>8. /\ Failed = Picked(work.rows, B) /\ B \in SUBSET DOMAIN work.rows
      /\ \A k \in B : k \in DOMAIN work.rows /\ work.rows[k] \notin Resolving
      /\ \A k \in DOMAIN work.rows : work.resolved = <<>> => k \in B
  <2>1. Failed = Picked(work.rows, B) /\ B \in SUBSET DOMAIN work.rows
    BY DEF Failed
  <2>2. \A k \in B : k \in DOMAIN work.rows /\ work.rows[k] \notin Resolving
    BY <1>1, <1>3 DEF ResolveIInv, BatchIs
  <2>3. \A k \in DOMAIN work.rows : work.resolved = <<>> => k \in B
    OBVIOUS
  <2> QED
    BY <2>1, <2>2, <2>3
<1> HIDE DEF I, B
<1>9. /\ \A k \in DOMAIN rows' : \E i \in I : rows'[k] = rows[i]
      /\ \A i \in I : \E k \in DOMAIN rows' : rows'[k] = rows[i]
  BY <1>2, <1>6, PickedType
<1>10. /\ \A k \in DOMAIN Failed : \E i \in B : Failed[k] = work.rows[i]
       /\ \A i \in B : \E k \in DOMAIN Failed : Failed[k] = work.rows[i]
  BY <1>2, <1>8, PickedType
<1>11. RowsInOrder'
  BY <1>1, <1>2, OrderWithout DEF ResolveIInv
<1>12. CachesAreAccurate'
  BY <1>1, <1>3, <1>4 DEF ResolveIInv, CachesAreAccurate, Cleared, Accurate
<1>13. ASSUME last.op = "scratch", NEW r \in Resolving
       PROVE  Explained(r)'
  <2>1. Explained(r)
    BY <1>1, <1>13 DEF ResolveIInv, ScratchOwes
  <2>2. ASSUME NEW i \in DOMAIN rows, rows[i] = r
        PROVE  i \in I
    <3>1. SUFFICES ASSUME NEW j \in DOMAIN Failed, Failed[j].from = r.from, Failed[j].ref = r.ref
                   PROVE  FALSE
      BY <1>7, <2>2
    <3>2. PICK k \in B : Failed[j] = work.rows[k]
      BY <1>10
    <3>3. work.rows[k] \in References
      BY <1>1, <1>3, <1>8 DEF ResolveIInv, BatchIs
    <3>4. work.rows[k] \in Resolving
      BY <3>1, <3>2, <3>3, NamesakesResolve
    <3> QED
      BY <1>8, <3>4
  <2>3. CASE \E i \in DOMAIN rows : rows[i] = r
    BY <1>9, <2>2, <2>3 DEF Explained
  <2>4. CASE ~ \E i \in DOMAIN rows : rows[i] = r
    BY <1>1, <1>4, <2>1, <2>4 DEF Explained
  <2> QED
    BY <2>3, <2>4
<1>14. ScratchOwes'
  BY <1>1, <1>3, <1>4, <1>5, <1>13 DEF ScratchOwes
<1>15. ASSUME work.resolved = <<>>, rows' # <<>>
       PROVE  Cardinality(References \ Resolving) >= Batch
  <2>1. PICK h \in DOMAIN rows' : TRUE
    <3>1. PICK s \in Seq(Row) : s = rows'
      BY <1>2 DEF ResolutionTypeOK
    <3>2. s # <<>> => 1 \in DOMAIN s
      OBVIOUS
    <3> QED
      BY <1>15, <3>1, <3>2
  <2>2. PICK i \in I : rows'[h] = rows[i]
    BY <1>9
  <2>3. Len(work.rows) = Batch
    <3> SUFFICES ASSUME Len(work.rows) # Batch
                 PROVE  FALSE
      OBVIOUS
    <3>1. PICK k \in DOMAIN work.rows : work.rows[k] = rows[i]
      BY <1>1, <1>3, <1>6 DEF ResolveIInv, BatchIsFull
    <3>2. PICK j \in DOMAIN Failed : Failed[j] = rows[i]
      BY <1>8, <1>10, <1>15, <3>1
    <3> QED
      BY <1>6, <1>7, <3>2
  <2> DEFINE U == References \ Resolving
             G == [k \in 1..Batch |-> work.rows[k]]
  <2>4. DOMAIN work.rows = 1..Batch /\ Batch \in Nat
    BY <1>2, <2>3, ResolutionAssumption
  <2>5. \A k \in 1..Batch : work.rows[k] \in U
    BY <1>1, <1>3, <1>8, <1>15, <2>4 DEF ResolveIInv, BatchIs
  <2>6. \A k, l \in 1..Batch : work.rows[k] = work.rows[l] => k = l
    BY <1>1, <1>3, <2>4 DEF ResolveIInv, BatchIs
  <2>7. IsFiniteSet(U)
    BY <1>2, ReferencesAreFinite, FS_Subset
  <2> HIDE DEF U
  <2>8. G \in Injection(1..Batch, U)
    <3>1. G \in [1..Batch -> U]
      BY <2>5
    <3>2. \A k, l \in 1..Batch : G[k] = G[l] => k = l
      BY <2>6
    <3> HIDE DEF G
    <3> QED
      BY <3>1, <3>2 DEF Injection, IsInjective
  <2>9. IsFiniteSet(1..Batch) /\ Cardinality(1..Batch) = Batch
    BY <2>4, FS_Interval
  <2>10. Cardinality(1..Batch) <= Cardinality(U)
    BY <2>7, <2>8, FS_Injection
  <2> QED
    BY <2>4, <2>7, <2>9, <2>10, FS_CardinalityType DEF U
<1>16. LeftBehind'
  <2>1. phase' = "synthesize" /\ rows' # <<>> => Cardinality(References' \ Resolving') >= Batch
    BY <1>4, <1>5, <1>15
  <2>2. phase' # "idle" /\ last'.op # "indexAll"
    BY <1>1, <1>3, <1>5
  <2> QED
    BY <2>1, <2>2 DEF LeftBehind
<1>17. SyncOwes' /\ BatchIs' /\ BatchIsPrefix' /\ BatchIsFull' /\ PhasesOf'
  BY <1>1, <1>3, <1>5 DEF SyncOwes, BatchIs, BatchIsPrefix, BatchIsFull, PhasesOf
<1> QED
  BY <1>11, <1>12, <1>14, <1>16, <1>17 DEF ResolveIInv

LEMMA SynthesizeOwes == ASSUME EdgesIInv, ResolveIInv, Synthesize PROVE ResolveIInv'
<1>1. /\ phase = "synthesize" /\ indexed' = indexed /\ rows' = rows /\ edges \subseteq edges'
      /\ op' = None /\ phase' = "idle" /\ last'.stored = last.stored
      /\ last'.op = IF last.op = "scratch" THEN "scratch" ELSE op
  BY DEF Synthesize, Insert, End
<1>2. op = "indexAll" /\ last.op # "sync"
  BY <1>1, NoneIsNoOp DEF ResolveIInv, PhasesOf, Idle
<1>3. last'.op = "scratch" => last.op = "scratch"
  BY <1>1, <1>2
<1>4. last'.op \in {"scratch", "indexAll"}
  BY <1>1, <1>2
<1>5. RowsInOrder'
  BY <1>1, OrderStands DEF ResolveIInv
<1>6. ScratchOwes'
  <2>1. last.op = "scratch" => \A r \in Resolving : Explained(r)
    BY <1>1 DEF ResolveIInv, ScratchOwes
  <2>2. last.op = "scratch" => \A r \in Resolving : Explained(r)'
    BY <1>1, <2>1, ExplainedStays
  <2> QED
    BY <1>1, <1>3, <2>2, ContentsStand DEF ScratchOwes
<1>7. LeftBehind'
  BY <1>1, ContentsStand DEF ResolveIInv, LeftBehind
<1>8. CachesAreAccurate' /\ SyncOwes' /\ BatchIs' /\ BatchIsPrefix' /\ BatchIsFull'
  BY <1>1, <1>4, NoneIsNoOp DEF CachesAreAccurate, Cleared, SyncOwes, BatchIs, BatchIsPrefix, BatchIsFull
<1>9. PhasesOf'
  BY <1>1, <1>4 DEF PhasesOf, Idle
<1> QED
  BY <1>5, <1>6, <1>7, <1>8, <1>9 DEF ResolveIInv

LEMMA NothingIsOwed == ASSUME ResolutionInit PROVE ResolveIInv
<1>1. op = None /\ phase = "idle" /\ last.op = None /\ last.stored = {} /\ rows = <<>>
  BY DEF ResolutionInit
<1>2. CachesAreAccurate /\ SyncOwes /\ ScratchOwes /\ BatchIs /\ BatchIsPrefix /\ BatchIsFull
  BY <1>1, NoneIsNoOp DEF CachesAreAccurate, Cleared, SyncOwes, ScratchOwes, BatchIs, BatchIsPrefix, BatchIsFull
<1>3. RowsInOrder /\ LeftBehind
  BY <1>1 DEF RowsInOrder, LeftBehind
<1>4. PhasesOf
  BY <1>1, NoneIsNoOp DEF PhasesOf, Idle
<1> QED
  BY <1>2, <1>3, <1>4 DEF ResolveIInv

LEMMA ResolveInductive == ResolutionSpec => [](EdgesIInv /\ ResolveIInv)
<1>1. ResolutionInit => ResolveIInv
  BY NothingIsOwed
<1>2. EdgesIInv /\ ResolveIInv /\ [ResolutionNext]_resolutionVars => ResolveIInv'
  <2> SUFFICES ASSUME EdgesIInv, ResolveIInv, [ResolutionNext]_resolutionVars
               PROVE  ResolveIInv'
    OBVIOUS
  <2>1. CASE IndexAll
    BY <2>1, IndexAllOwes
  <2>2. CASE IndexFiles
    BY <2>2, IndexFilesOwes
  <2>3. CASE Sync
    BY <2>3, SyncOwesNothing
  <2>4. CASE ResolveReferences
    BY <2>4, ResolveReferencesOwes
  <2>5. CASE ClearTables
    BY <2>5, ClearTablesOwes
  <2>6. CASE StoreFile
    BY <2>6, StoreFileOwes
  <2>7. CASE AllStored
    BY <2>7, AllStoredOwes
  <2>8. CASE Persist
    BY <2>8, PersistOwes
  <2>9. CASE TakeBatch
    BY <2>9, TakeBatchOwes
  <2>10. CASE NoMoreRows
    BY <2>10, NoMoreRowsOwes
  <2>11. CASE DeleteResolved
    BY <2>11, DeleteResolvedOwes
  <2>12. CASE DeleteUnresolved
    BY <2>12, DeleteUnresolvedOwes
  <2>13. CASE Synthesize
    BY <2>13, SynthesizeOwes
  <2>14. CASE Kill
    BY <2>14, KillOwes
  <2>15. ASSUME NEW f \in Files, NEW c \in Choices[f] \cup {None}, Edit(f, c)
         PROVE  ResolveIInv'
    BY <2>15, EditOwes DEF Edit
  <2>16. CASE UNCHANGED resolutionVars
    BY <2>16, EditOwes DEF resolutionVars
  <2> QED
    BY <2>1, <2>2, <2>3, <2>4, <2>5, <2>6, <2>7, <2>8, <2>9, <2>10, <2>11, <2>12, <2>13, <2>14,
       <2>15, <2>16 DEF ResolutionNext, Step
<1> QED
  BY <1>1, <1>2, ResolutionInductive, PTL DEF ResolutionSpec

(* In every state of every run, for any files, names, contents and batch    *)
(* size: when a sync has ended, each file it stored has exactly the edges   *)
(* of a fresh index, once each; when an indexAll has ended, rows are left   *)
(* only if a whole batch had no match, and from empty tables every          *)
(* reference with a match has its edge, its row, or an earlier namesake in  *)
(* the same file with an edge.                                              *)
THEOREM OperationsHold == ResolutionSpec => []OperationsResolve
<1>1. ASSUME EdgesIInv, ResolveIInv
      PROVE  SyncResolvesItsFiles
  <2> SUFFICES ASSUME last.op = "sync", NEW f \in last.stored
               PROVE  /\ {e \in Resolved : e.from = f} = {e \in IdealGraph : e.from = f}
                      /\ \A e \in twice : e.line > 0 => e.from # f
    BY DEF SyncResolvesItsFiles
  <2>1. Paid(f)
    BY <1>1 DEF ResolveIInv, SyncOwes
  <2>2. ASSUME NEW e \in IdealGraph
        PROVE  e.line > 0
    <3>1. PICK r \in Resolving : e = Target(r, Nodes)
      BY DEF IdealGraph
    <3>2. r \in References /\ Matches(r.from, r.ref, Nodes) # {}
      BY DEF Resolving, Resolvable
    <3>3. e.line = r.line
      BY <3>1, <3>2, TargetIs
    <3> QED
      BY <1>1, <3>2, <3>3, ReferencesAre DEF EdgesIInv
  <2>3. \A e : e \in {d \in Resolved : d.from = f} <=> e \in {d \in IdealGraph : d.from = f}
    BY <2>1, <2>2 DEF Paid, Resolved
  <2> QED
    BY <2>1, <2>3 DEF Paid
<1>2. ASSUME EdgesIInv, ResolveIInv
      PROVE  IndexAllResolves
  <2> SUFFICES ASSUME Idle, last.op \in {"indexAll", "scratch"}
               PROVE  /\ rows # <<>> => Cardinality(References \ Resolving) >= Batch
                      /\ last.op = "scratch" => \A r \in Resolving : Explained(r)
    BY DEF IndexAllResolves, Explained
  <2>1. phase = "idle"
    BY <1>2, IdlePhase
  <2>2. rows # <<>> => Cardinality(References \ Resolving) >= Batch
    BY <1>2, <2>1 DEF ResolveIInv, LeftBehind
  <2>3. last.op = "scratch" => \A r \in Resolving : Explained(r)
    BY <1>2, <2>1 DEF ResolveIInv, ScratchOwes
  <2> QED
    BY <2>2, <2>3
<1>3. EdgesIInv /\ ResolveIInv => OperationsResolve
  BY <1>1, <1>2 DEF OperationsResolve
<1> QED
  BY <1>3, ResolveInductive, PTL
=============================================================================

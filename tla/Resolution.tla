----------------------------- MODULE Resolution -----------------------------
(***************************************************************************)
(* How the edges between files come and go (src/src/resolution/index.ts,   *)
(* src/src/db/queries.ts, src/src/index.ts): a stored file leaves a row in *)
(* unresolved_refs for each of its references, resolution turns rows into  *)
(* edges and deletes them, and a file that is indexed again takes the      *)
(* edges of the other files into it along (ON DELETE CASCADE).             *)
(*                                                                         *)
(* A file stands for its file node and the symbols it defines; every       *)
(* reference starts at the file node.  Storing one file is one step here   *)
(* (IndexStore has its transactions).  A reference is resolved by its name *)
(* (NameMatch); framework resolvers and import paths are not modelled.     *)
(***************************************************************************)
EXTENDS NameMatch

CONSTANTS Choices,   \* what each file may hold: [defs : SUBSET Symbol, refs : Seq(Ref)]
          Dispatch,  \* names of methods that register a callback
          Batch,     \* batchSize of resolveAndPersistBatched
          Ops,       \* what is called, and whether processes are killed
          MaxEdits   \* bound on the edits of the tree

Contents == UNION {Choices[f] : f \in Files}

OpNames == {"indexAll", "sync", "indexFiles", "resolveReferences", "clear", "kill"}

\* Files are numbered in the order of the scan.
ASSUME ResolutionAssumption ==
  /\ Files \subseteq Nat /\ IsFiniteSet(Files)
  /\ Batch \in Nat \ {0} /\ MaxEdits \in Nat
  /\ \A c \in Contents : c.defs \subseteq Symbol /\ c.refs \in Seq(Ref)
  /\ None \notin Contents
  /\ Dispatch \subseteq Names
  /\ Ops \subseteq OpNames /\ None \notin OpNames \cup {"scratch"}

VARIABLES
  disk, edits,     \* the content of each file on disk; edits made
  indexed,         \* the content of each file in the tables, or None
  rows,            \* unresolved_refs: [from, ref, line] in the order of their ids
  edges, twice,    \* the edges between files; those that are there more than once
  known, looked,   \* knownNames; nameCache: the symbols with a name
  op, phase,       \* the running operation and where it is
  todo, changed,   \* files to index; those the operation has indexed or will
  work,            \* the batch being persisted: its rows and those resolved
  last,            \* history: the last operation that came to its end, what it stored
  torn             \* history: a kill between the edges of a batch and its rows

treeVars == <<disk, edits>>
tableVars == <<indexed, rows, edges, twice>>
cacheVars == <<known, looked>>
opVars == <<op, phase, todo, changed, work>>
resolutionVars == <<treeVars, tableVars, cacheVars, opVars, last, torn>>

Row == [from : Files, ref : Ref, line : Nat]
\* From the file node; line 0 is a synthesized edge.
Edge == [from : Files, line : Nat, kind : EdgeKinds, to : Node]

Idle == op = None

ResolutionTypeOK ==
  /\ disk \in [Files -> Contents \cup {None}] /\ edits \in 0..MaxEdits
  /\ indexed \in [Files -> Contents \cup {None}]
  /\ rows \in Seq(Row)
  /\ edges \subseteq Edge /\ twice \subseteq edges
  /\ known \in (SUBSET Names) \cup {None}
  /\ looked \in [Names -> (SUBSET Node) \cup {None}]
  /\ op \in Ops \cup {None} /\ (Idle <=> phase = "idle")
  /\ phase \in {"idle", "store", "batch", "persist", "resolved", "unresolved", "synthesize"}
  /\ todo \subseteq Files /\ changed \subseteq Files
  /\ work \in [rows : Seq(Row), resolved : Seq(Row)]
  /\ last \in [op : Ops \cup {"scratch", None}, stored : SUBSET Files]
  /\ torn \in BOOLEAN

NoWork == [rows |-> <<>>, resolved |-> <<>>]
Cold == known = None /\ looked = [n \in Names |-> None]
Clear == known' = None /\ looked' = [n \in Names |-> None]

ResolutionInit ==
  /\ disk \in [Files -> Contents \cup {None}] /\ edits = 0
  /\ \A f \in Files : disk[f] \in Choices[f] \cup {None}
  /\ indexed = [f \in Files |-> None]
  /\ rows = <<>> /\ edges = {} /\ twice = {}
  /\ Cold
  /\ op = None /\ phase = "idle" /\ todo = {} /\ changed = {} /\ work = NoWork
  /\ last = [op |-> None, stored |-> {}] /\ torn = FALSE
-----------------------------------------------------------------------------
(* The tables.                                                             *)

Nodes == UNION {{[file |-> f, sym |-> d] : d \in indexed[f].defs \cup {None}} :
                  f \in {g \in Files : indexed[g] # None}}

Remains_Incoming(s, F) == {e \in s : e.from \notin F}

\* deleteFile: the nodes of F go, with their rows and the edges at either end.
Remains(s, F) == {e \in s : e.from \notin F /\ e.to.file \notin F}

\* The members of the sequence s at the positions in I, in their order.
Picked(s, I) ==
  [k \in 1..Cardinality(I) |->
     s[CHOOSE i \in I : Cardinality({j \in I : j <= i}) = k]]

Cascade(F) ==
  /\ rows' = Picked(rows, {i \in DOMAIN rows : rows[i].from \notin F})
  /\ edges' = Remains(edges, F)
  /\ twice' = Remains(twice, F)

RowsFor(f, c) == [i \in 1..Len(c.refs) |-> [from |-> f, ref |-> c.refs[i], line |-> i]]

\* storeExtractionResult: nothing for the same content, else all of it anew.
Stored(f, c) ==
  IF indexed[f] = c
    THEN UNCHANGED tableVars
    ELSE /\ indexed' = [indexed EXCEPT ![f] = c]
         /\ rows' = Picked(rows, {i \in DOMAIN rows : rows[i].from # f}) \o RowsFor(f, c)
         /\ edges' = Remains(edges, {f})
         /\ twice' = Remains(twice, {f})

\* insertEdges skips an edge without its nodes; there is no unique index.
Insert(E) ==
  \E F \in {{e \in E : e.to \in Nodes /\ FileNode(e.from) \in Nodes}} :
    edges' = edges \cup F /\ twice' = twice \cup (F \cap edges)

\* deleteSpecificResolvedReferences: by source, name and kind, whatever the line.
Without(s, gone) ==
  Picked(s, {i \in DOMAIN s :
             \A j \in DOMAIN gone : gone[j].from # s[i].from \/ gone[j].ref # s[i].ref})
-----------------------------------------------------------------------------
(* The resolver, with its caches.                                          *)

Known == IF known = None THEN {x.sym.name : x \in {y \in Nodes : y.sym # None}} ELSE known

\* The symbols as the caches show them; those by file and by lower case name
\* are filled and cleared with this one.
View == UNION {IF looked[n] = None THEN Named(Nodes, n) ELSE looked[n] : n \in Names}

Target(r, nodes) ==
  LET x == CHOOSE y \in Matches(r.from, r.ref, nodes) : TRUE
  IN [from |-> r.from, line |-> r.line, kind |-> EdgeKind(r.ref, x), to |-> x]

Resolvable(r, names, nodes) == Possible(r.ref, names) /\ Matches(r.from, r.ref, nodes) # {}

Asked(ref) == {ref.name} \cup (IF ref.recv = None THEN {} ELSE {ref.recv, Capital[ref.recv]})

\* The names the resolver looks up for the rows R.
AskedFor(R, names) ==
  Names \cap UNION {Asked(R[i].ref) : i \in {j \in DOMAIN R : Possible(R[j].ref, names)}}

\* resolveAll and createEdges of the rows R, and the edges inserted.
Resolve(R) ==
  \E names \in {Known}, view \in {View} :
  \E hits \in {{i \in DOMAIN R : Resolvable(R[i], names, view)}} :
  \E resolved \in {Picked(R, hits)} :
    /\ known' = names
    /\ looked' = [n \in Names |-> IF n \in AskedFor(R, names) THEN Named(view, n) ELSE looked[n]]
    /\ Insert({Target(resolved[i], view) : i \in DOMAIN resolved})
    /\ work' = [rows |-> R, resolved |-> resolved]
    /\ UNCHANGED <<indexed, rows>>
-----------------------------------------------------------------------------
(* Editors and operations.                                                 *)

Edit(f, c) ==
  /\ edits < MaxEdits /\ edits' = edits + 1
  /\ disk[f] # c
  /\ disk' = [disk EXCEPT ![f] = c]
  /\ UNCHANGED <<tableVars, cacheVars, opVars, last, torn>>

End(o, S) ==
  /\ op' = None /\ phase' = "idle" /\ todo' = {} /\ changed' = {} /\ work' = NoWork
  /\ last' = [op |-> o, stored |-> S]

OnDisk == {f \in Files : disk[f] # None}

Begin(o) ==
  /\ Idle /\ o \in Ops /\ op' = o
  /\ last' = [op |-> IF o = "indexAll" /\ \A f \in Files : indexed[f] = None THEN "scratch" ELSE None,
              stored |-> {}]

IndexAll ==
  /\ Begin("indexAll")
  /\ phase' = "store" /\ todo' = OnDisk /\ changed' = {}
  /\ UNCHANGED <<treeVars, tableVars, cacheVars, work, torn>>

\* indexFiles is given a file and resolves nothing.
IndexFiles ==
  /\ Begin("indexFiles")
  /\ \E f \in Files : todo' = {f}
  /\ phase' = "store" /\ changed' = {}
  /\ UNCHANGED <<treeVars, tableVars, cacheVars, work, torn>>

\* sync removes what is gone and lists what differs.
Sync ==
  /\ Begin("sync")
  /\ LET gone == {f \in Files : indexed[f] # None /\ disk[f] = None}
     IN /\ indexed' = [f \in Files |-> IF f \in gone THEN None ELSE indexed[f]]
        /\ Cascade(gone)
  /\ todo' = {f \in OnDisk : disk[f] # indexed[f]} /\ changed' = todo'
  /\ phase' = "store"
  /\ UNCHANGED <<treeVars, cacheVars, work, torn>>

\* resolveReferences: every row, with the caches as they are.
ResolveReferences ==
  /\ Begin("resolveReferences")
  /\ Resolve(rows)
  /\ phase' = "resolved"
  /\ UNCHANGED <<treeVars, todo, changed, torn>>

\* clear, of index --force.
ClearTables ==
  /\ Idle /\ "clear" \in Ops
  /\ indexed' = [f \in Files |-> None]
  /\ rows' = <<>> /\ edges' = {} /\ twice' = {}
  /\ last' = [op |-> "clear", stored |-> {}]
  /\ UNCHANGED <<treeVars, cacheVars, opVars, torn>>

\* Index the next file, as it is on disk now.
StoreFile ==
  /\ phase = "store"
  /\ \E f \in {g \in todo : \A h \in todo : g <= h} :
        /\ todo' = todo \ {f}
        /\ IF disk[f] = None
             THEN UNCHANGED <<tableVars, changed, last>>
             ELSE /\ Stored(f, disk[f])
                  /\ changed' = changed \cup {f}
                  /\ last' = IF indexed[f] = disk[f] THEN last ELSE [last EXCEPT !.stored = @ \cup {f}]
  /\ UNCHANGED <<treeVars, cacheVars, op, phase, work, torn>>

AllStored_Uncleared ==
  /\ phase = "store" /\ todo = {}
  /\ IF op = "indexFiles" \/ changed = {}
       THEN End(IF op = "sync" THEN op ELSE None, last.stored) /\ UNCHANGED cacheVars
       ELSE /\ UNCHANGED cacheVars
            /\ phase' = IF op = "indexAll" THEN "batch" ELSE "persist"
            /\ UNCHANGED <<op, todo, changed, work, last>>
  /\ UNCHANGED <<treeVars, tableVars, torn>>

\* When a file was indexed, indexAll goes through all rows in batches and sync
\* takes those of its changed files; both clear the caches first.
AllStored ==
  /\ phase = "store" /\ todo = {}
  /\ IF op = "indexFiles" \/ changed = {}
       THEN End(IF op = "sync" THEN op ELSE None, last.stored) /\ UNCHANGED cacheVars
       ELSE /\ Clear
            /\ phase' = IF op = "indexAll" THEN "batch" ELSE "persist"
            /\ UNCHANGED <<op, todo, changed, work, last>>
  /\ UNCHANGED <<treeVars, tableVars, torn>>

Persist ==
  /\ phase = "persist"
  /\ Resolve(Picked(rows, {i \in DOMAIN rows : rows[i].from \in changed}))
  /\ phase' = "resolved"
  /\ UNCHANGED <<treeVars, op, todo, changed, last, torn>>

TakeBatch ==
  /\ phase = "batch" /\ rows # <<>>
  /\ Resolve(SubSeq(rows, 1, IF Len(rows) < Batch THEN Len(rows) ELSE Batch))
  /\ phase' = "resolved"
  /\ UNCHANGED <<treeVars, op, todo, changed, last, torn>>

NoMoreRows ==
  /\ phase = "batch" /\ rows = <<>>
  /\ phase' = "synthesize"
  /\ UNCHANGED <<treeVars, tableVars, cacheVars, op, todo, changed, work, last, torn>>

DeleteResolved ==
  /\ phase = "resolved"
  /\ rows' = Without(rows, work.resolved)
  /\ IF op = "indexAll" THEN phase' = "unresolved" /\ UNCHANGED <<op, todo, changed, work, last>>
                        ELSE End(op, last.stored)
  /\ UNCHANGED <<treeVars, indexed, edges, twice, cacheVars, torn>>

DeleteUnresolved_Forgotten ==
  /\ phase = "unresolved"
  /\ phase' = "batch" /\ work' = NoWork
  /\ UNCHANGED <<treeVars, tableVars, cacheVars, op, todo, changed, last, torn>>

\* The rows of the batch that were not resolved.
Failed ==
  Picked(work.rows, {i \in DOMAIN work.rows :
                     \A j \in DOMAIN work.resolved : work.resolved[j] # work.rows[i]})

\* Only the batches delete what they could not resolve; a batch in which
\* nothing resolved is the last one.
DeleteUnresolved ==
  /\ phase = "unresolved"
  /\ rows' = Without(rows, Failed)
  /\ phase' = IF work.resolved = <<>> THEN "synthesize" ELSE "batch"
  /\ work' = NoWork
  /\ UNCHANGED <<treeVars, indexed, edges, twice, cacheVars, op, todo, changed, last, torn>>

\* The dispatcher beside a registering method calls what its callers register.
Synthesized ==
  {[from |-> e.to.file, line |-> 0, kind |-> "calls", to |-> FileNode(e.from)] :
     e \in {d \in edges : d.to.sym # None /\ d.to.sym.name \in Dispatch
                     /\ d.kind = "calls" /\ d.to.file # d.from}}

Synthesize ==
  /\ phase = "synthesize"
  /\ Insert(Synthesized)
  /\ End(IF last.op = "scratch" THEN "scratch" ELSE op, last.stored)
  /\ UNCHANGED <<treeVars, indexed, rows, cacheVars, torn>>

\* The process is killed; another one opens the tables.
Kill ==
  /\ ~Idle /\ "kill" \in Ops
  /\ Clear
  /\ End(None, {})
  /\ torn' = (torn \/ phase = "resolved")
  /\ UNCHANGED <<treeVars, tableVars>>

Step ==
  \/ StoreFile \/ AllStored
  \/ Persist \/ TakeBatch \/ NoMoreRows
  \/ DeleteResolved \/ DeleteUnresolved \/ Synthesize

ResolutionNext ==
  \/ IndexAll \/ IndexFiles \/ Sync \/ ResolveReferences \/ ClearTables
  \/ Step \/ Kill
  \/ \E f \in Files : \E c \in Choices[f] \cup {None} : Edit(f, c)

ResolutionSpec == ResolutionInit /\ [][ResolutionNext]_resolutionVars

\* An operation goes on while its process lives.
ResolutionFairSpec == ResolutionSpec /\ WF_resolutionVars(Step)
-----------------------------------------------------------------------------
(* Properties.                                                             *)

\* The rows that indexing the stored contents from nothing makes, and those of
\* them that have a match.
References == UNION {{RowsFor(f, indexed[f])[i] : i \in DOMAIN indexed[f].refs} :
                       f \in {g \in Files : indexed[g] # None}}

FreshNames == {x.sym.name : x \in {y \in Nodes : y.sym # None}}

Resolving == LET nodes == Nodes names == FreshNames
             IN {r \in References : Resolvable(r, names, nodes)}

\* The edges of a fresh index.
IdealGraph == LET nodes == Nodes IN {Target(r, nodes) : r \in Resolving}

Resolved == {e \in edges : e.line > 0}

\* Row r is a reference of what is stored.
IsReference(r) ==
  /\ indexed[r.from] # None
  /\ r.line \in DOMAIN indexed[r.from].refs /\ indexed[r.from].refs[r.line] = r.ref

\* Edge e is one that the reference at its line may be resolved to.
IsResolution(e) ==
  /\ indexed[e.from] # None
  /\ e.line \in DOMAIN indexed[e.from].refs
  /\ LET ref == indexed[e.from].refs[e.line]
     IN Fits(e.from, ref, e.to) /\ e.kind = EdgeKind(ref, e.to)

\* At every moment, between two steps of an operation and after a kill too,
\* edges and rows are those of what is stored: both ends of an edge exist, and
\* the line it came from still holds a reference that goes to such a symbol.
EdgesAreSound ==
  LET nodes == Nodes
  IN /\ \A e \in edges : e.to \in nodes /\ FileNode(e.from) \in nodes
     /\ \A e \in Resolved : IsResolution(e)
     /\ \A i \in DOMAIN rows : IsReference(rows[i])

\* A sync gives each file it has stored exactly the edges of a fresh index,
\* whatever its caches held and whichever files were stored with it.
SyncResolvesItsFiles ==
  Idle /\ last.op = "sync" /\ last.stored # {} =>
    LET ideal == IdealGraph
    IN \A f \in last.stored :
         /\ {e \in Resolved : e.from = f} = {e \in ideal : e.from = f}
         /\ \A e \in twice : e.line > 0 => e.from # f

\* indexAll leaves a row only behind a batch without a match.  From empty
\* tables it misses an edge only for such a row, or for a reference whose
\* namesake in the same source was resolved in an earlier batch.
IndexAllResolves ==
  Idle /\ last.op \in {"indexAll", "scratch"} =>
    LET refs == References resolving == Resolving nodes == Nodes
    IN /\ rows # <<>> => Cardinality(refs \ resolving) >= Batch
       /\ last.op = "scratch" => \A r \in resolving :
            \/ Target(r, nodes) \in edges
            \/ \E i \in DOMAIN rows : rows[i] = r
            \/ \E q \in refs : /\ q.from = r.from /\ q.ref = r.ref /\ q.line < r.line
                               /\ Target(q, nodes) \in edges

\* There is no unique index on edges or on rows, yet a reference has one row, and
\* two edges only after a kill between the edges and the rows of a batch; the
\* synthesized ones are made again by every indexAll.
ReferencesHaveOneEdge ==
  /\ \A i, j \in DOMAIN rows : rows[i] = rows[j] => i = j
  /\ \A e \in twice : torn \/ e.line = 0

\* A reference waits in a row or has an edge, not both: only the rows of the
\* batch that was just resolved do, until they are deleted or a kill comes.
RowsAreOwed ==
  torn \/ \A i \in DOMAIN rows : \A e \in edges :
            e.from = rows[i].from /\ e.line = rows[i].line =>
              phase = "resolved" /\ \E j \in DOMAIN work.resolved : work.resolved[j] = rows[i]

\* Every operation ends: the batches do not go round on rows that stay.
OperationsEnd == []<>Idle

\* The prefilter refuses a reference that a strategy would resolve only when
\* that is the match without regard to case.
PrefilterStopsOnlyFuzzy == Idle =>
  LET nodes == Nodes names == FreshNames
  IN \A r \in References : ~Possible(r.ref, names) =>
       MethodCall(r.from, r.ref, nodes) = {} /\ Exact(r.from, r.ref, nodes) = {}

\* A plain name of several is resolved to the own file before any other, and
\* to the own language before another one, wherever those are.
NearestWins == Idle =>
  LET nodes == Nodes
  IN \A r \in References :
       LET S == Named(nodes, r.ref.name) X == Exact(r.from, r.ref, nodes)
       IN r.ref.recv = None /\ Cardinality(S) > 1 =>
            \A x \in X : \A y \in S :
              /\ y.file = r.from => x.file = r.from
              /\ Lang[y.file] = Lang[r.from] => Lang[x.file] = Lang[r.from]

\* After a sync of everything on disk the graph is that of a fresh index.
SyncedIsFresh ==
  last.op = "sync" /\ Idle /\ indexed = disk => Resolved = IdealGraph

\* A sync and an indexAll resolve what they owe: the files stored, and all but
\* what the batches explain.
OperationsResolve == SyncResolvesItsFiles /\ IndexAllResolves

\* The matcher finds the nearest symbol, and the prefilter in front of it stops
\* nothing but the match without regard to case.
MatchInv == PrefilterStopsOnlyFuzzy /\ NearestWins

\* The edges are those of what is stored, once each, and go to the symbols that
\* the matcher owes them.
EdgesInv ==
  /\ ResolutionTypeOK /\ EdgesAreSound /\ ReferencesHaveOneEdge /\ RowsAreOwed
  /\ MatchInv
=============================================================================

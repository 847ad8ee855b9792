------------------------------ MODULE IndexStore ------------------------------
(***************************************************************************)
(* The tables of one project against its tree on disk, and the operations  *)
(* of class ExtractionOrchestrator that bring them up to date              *)
(* (src/src/extraction/index.ts, src/src/db/queries.ts): indexAll,         *)
(* indexFiles and sync, one at a time (GraphWriters says when).  Editors   *)
(* write the tree at any time.  sync lists the tree, removes and compares  *)
(* in one synchronous pass in which each file is looked at once, so its    *)
(* looks are one step here; a file to index is then read in two awaited    *)
(* calls, its stat and its content, and stored in several transactions.    *)
(***************************************************************************)
EXTENDS Naturals, FiniteSets

CONSTANTS Files,       \* the source files of the project
          Contents,    \* what may be in one
          Rejected,    \* contents without a result: the parser fails, or too large
          None,        \* absent
          Ops,         \* the operations called
          MaxEdits     \* bound on the edits of the tree

Stat == 0..MaxEdits
Image == [content : Contents, stat : Stat]
Row == [hash : Contents, stat : Stat]

ASSUME StoreAssumption ==
  /\ None \notin Contents /\ None \notin Files /\ None \notin Ops
  /\ None \notin Stat /\ None \notin Image /\ None \notin Row
  /\ Rejected \subseteq Contents
  /\ Ops \subseteq {"sync", "indexAll", "indexFiles"}
  /\ MaxEdits \in Nat

VARIABLES
  disk,     \* content and stat of each file on disk, or None
  edits,    \* edits made: the stat (size and mtime) of the last one
  record,   \* row of each file in table files: content hash and stat, or None
  nodes,    \* the contents whose nodes each file has in table nodes
  op,       \* the running operation
  pc,       \* where it is
  checked,  \* sync: the scan found files (filesChecked > 0)
  todo,     \* filesToIndex, or the batches still to read
  cur,      \* the file being indexed
  buf,      \* what has been read of it
  torn      \* history: a store ended after the nodes and before the record

treeVars == <<disk, edits>>
tableVars == <<record, nodes>>
opVars == <<op, pc, checked, todo, cur, buf>>
storeVars == <<treeVars, tableVars, opVars, torn>>

StoreTypeOK ==
  /\ disk \in [Files -> Image \cup {None}]
  /\ edits \in Stat
  /\ record \in [Files -> Row \cup {None}]
  /\ nodes \in [Files -> SUBSET Contents]
  /\ op \in Ops \cup {None}
  /\ pc \in {"idle", "scan", "files", "first", "second", "store"}
  /\ checked \in BOOLEAN
  /\ todo \in SUBSET Files
  /\ cur \in Files \cup {None}
  /\ buf \in [content : Contents \cup {None}, stat : Stat \cup {None}]
  /\ torn \in BOOLEAN

Blank == [content |-> None, stat |-> None]

InitStore ==
  /\ disk \in [Files -> {[content |-> c, stat |-> 0] : c \in Contents} \cup {None}]
  /\ edits = 0
  /\ record = [f \in Files |-> None]
  /\ nodes = [f \in Files |-> {}]
  /\ op = None /\ pc = "idle" /\ checked = FALSE
  /\ todo = {} /\ cur = None /\ buf = Blank
  /\ torn = FALSE

OnDisk == {f \in Files : disk[f] # None}
-----------------------------------------------------------------------------
(* The tree.                                                               *)

\* An editor writes f, with the old content or another, and its mtime moves.
Edit(f, c) ==
  /\ edits < MaxEdits
  /\ edits' = edits + 1
  /\ disk' = [disk EXCEPT ![f] = [content |-> c, stat |-> edits + 1]]
  /\ UNCHANGED <<tableVars, opVars, torn>>

Remove(f) ==
  /\ disk[f] # None
  /\ edits < MaxEdits
  /\ edits' = edits + 1
  /\ disk' = [disk EXCEPT ![f] = None]
  /\ UNCHANGED <<tableVars, opVars, torn>>
-----------------------------------------------------------------------------
(* The operations.                                                         *)

Start(o) ==
  /\ op = None
  /\ op' = o
  /\ pc' = "scan"
  /\ UNCHANGED <<treeVars, tableVars, checked, todo, cur, buf, torn>>

\* The file is new, or its stat and then its hash differ from the record.
Changed(f) ==
  \/ record[f] = None
  \/ disk[f].stat # record[f].stat /\ disk[f].content # record[f].hash

\* sync: delete the tracked files that are gone, list the changed ones.
Scan ==
  /\ pc = "scan" /\ op = "sync"
  /\ record' = [f \in Files |-> IF f \in OnDisk THEN record[f] ELSE None]
  /\ nodes' = [f \in Files |-> IF f \in OnDisk \/ record[f] = None THEN nodes[f] ELSE {}]
  /\ todo' = {f \in OnDisk : Changed(f)}
  /\ checked' = (OnDisk # {})
  /\ pc' = "files"
  /\ UNCHANGED <<treeVars, op, cur, buf, torn>>

\* indexAll takes every file, indexFiles those it is given.
List ==
  /\ pc = "scan" /\ op \in {"indexAll", "indexFiles"}
  /\ IF op = "indexAll" THEN todo' = OnDisk ELSE todo' \in SUBSET Files
  /\ pc' = "files"
  /\ UNCHANGED <<treeVars, tableVars, op, checked, cur, buf, torn>>

Pick(f) ==
  /\ pc = "files" /\ f \in todo
  /\ todo' = todo \ {f}
  /\ cur' = f
  /\ pc' = "first"
  /\ UNCHANGED <<treeVars, tableVars, op, checked, buf, torn>>

NextFile == pc' = "files" /\ cur' = None /\ buf' = Blank

ContentFirst_Always == TRUE

\* The batch reader and the retries of indexAll read the content before they
\* take the stat, indexFile takes the stat first.
ContentFirst == op = "indexAll"

\* A file that has gone is an error of that file.
ReadFirst ==
  /\ pc = "first"
  /\ IF disk[cur] = None
       THEN NextFile
       ELSE /\ buf' = IF ContentFirst THEN [buf EXCEPT !.content = disk[cur].content]
                                       ELSE [buf EXCEPT !.stat = disk[cur].stat]
            /\ pc' = "second"
            /\ UNCHANGED cur
  /\ UNCHANGED <<treeVars, tableVars, op, checked, todo, torn>>

\* Then the other one; content that is too large or does not parse ends here.
ReadSecond ==
  /\ pc = "second"
  /\ LET image == disk[cur]
         both == IF ContentFirst THEN [buf EXCEPT !.stat = image.stat]
                                  ELSE [buf EXCEPT !.content = image.content]
     IN IF image = None THEN NextFile
        ELSE IF both.content \in Rejected THEN NextFile
        ELSE buf' = both /\ pc' = "store" /\ UNCHANGED cur
  /\ UNCHANGED <<treeVars, tableVars, op, checked, todo, torn>>

\* The parse worker of indexAll dies or times out on this file; a retry pass
\* may read it again, the content first too.
ParseFails ==
  /\ pc = "store" /\ op = "indexAll"
  /\ NextFile
  /\ todo' \in {todo, todo \cup {cur}}
  /\ UNCHANGED <<treeVars, tableVars, op, checked, torn>>

Stored_RowFirst(k) ==
  LET old == record[cur]
      unchanged == old # None /\ old.hash = buf.content
      kept == IF old = None THEN nodes[cur] ELSE {}
  IN /\ record' = IF unchanged \/ k = 0 THEN record
                  ELSE [record EXCEPT ![cur] = IF k < 2 THEN None
                          ELSE [hash |-> buf.content, stat |-> buf.stat]]
     /\ nodes' = IF unchanged \/ k = 0 THEN nodes
                 ELSE [nodes EXCEPT ![cur] = IF k < 3 THEN kept ELSE kept \cup {buf.content}]
     /\ torn' = torn

\* storeExtractionResult up to transaction k: nothing for unchanged content,
\* else 1 the old row and its nodes deleted, 2 the nodes inserted, 3 the row.
Stored(k) ==
  LET old == record[cur]
      unchanged == old # None /\ old.hash = buf.content
      kept == IF old = None THEN nodes[cur] ELSE {}
  IN /\ record' = IF unchanged \/ k = 0 THEN record
                  ELSE [record EXCEPT ![cur] = IF k < 3 THEN None
                          ELSE [hash |-> buf.content, stat |-> buf.stat]]
     /\ nodes' = IF unchanged \/ k = 0 THEN nodes
                 ELSE [nodes EXCEPT ![cur] = IF k = 1 THEN kept ELSE kept \cup {buf.content}]
     /\ torn' = (torn \/ (k = 2 /\ ~unchanged))

Store ==
  /\ pc = "store"
  /\ Stored(3)
  /\ NextFile
  /\ UNCHANGED <<treeVars, op, checked, todo>>

Idle ==
  /\ op' = None /\ pc' = "idle" /\ checked' = FALSE
  /\ todo' = {} /\ cur' = None /\ buf' = Blank

Finish ==
  /\ pc = "files" /\ todo = {}
  /\ Idle
  /\ UNCHANGED <<treeVars, tableVars, torn>>

\* An exception (the database is busy or closed) or a kill ends the operation
\* where it is, inside a store after any of its transactions.
Abort ==
  /\ op # None
  /\ IF pc = "store" THEN \E k \in 0..2 : Stored(k) ELSE UNCHANGED <<tableVars, torn>>
  /\ Idle
  /\ UNCHANGED treeVars

OpStep ==
  \/ Scan \/ List \/ ReadFirst \/ ReadSecond \/ ParseFails \/ Store
  \/ \E f \in Files : Pick(f)

NextStore ==
  \/ \E f \in Files : Remove(f) \/ \E c \in Contents : Edit(f, c)
  \/ \E o \in Ops : Start(o)
  \/ OpStep \/ Finish \/ Abort

StoreSpec == InitStore /\ [][NextStore]_storeVars
-----------------------------------------------------------------------------
\* Where the running operation is, and what it has read of its file.
OperationOK ==
  /\ pc # "idle" <=> op # None
  /\ pc \in {"first", "second", "store"} => cur # None
  /\ pc = "second" => IF ContentFirst THEN buf.content # None ELSE buf.stat # None
  /\ pc = "store" => buf.content # None /\ buf.stat # None

\* A recorded file has the nodes of the recorded content in the graph, whatever
\* kill or exception ended a store: the row is written last.  Unless one ended
\* between nodes and row, no other nodes are there.
RecordOK ==
  /\ \A f \in Files : record[f] # None => record[f].hash \in nodes[f]
  /\ ~torn => \A f \in Files :
       nodes[f] = IF record[f] = None THEN {} ELSE {record[f].hash}

\* Rows and graph agree at every step of storeExtractionResult and deleteFile.
RecordInv == StoreTypeOK /\ OperationOK /\ RecordOK

\* The graph lags behind the file on disk.
Stale(f) ==
  IF disk[f] = None THEN record[f] # None
  ELSE IF record[f] = None THEN disk[f].content \notin Rejected
  ELSE record[f].hash # disk[f].content

\* What is on disk has no result: an older row and its nodes stay.
Unindexable(f) == disk[f] # None /\ disk[f].content \in Rejected

\* The row carries the stat of the file on disk and the hash of another
\* content: no sync will look at the file again until its stat moves.
Misdated(f) ==
  record[f] # None /\ disk[f] # None /\ record[f].stat = disk[f].stat
    /\ record[f].hash # disk[f].content

\* No stat is newer than the last edit, and what is to be stored under the stat
\* of the file on disk is its content: why the next property holds.
StatInv ==
  /\ \A f \in Files : disk[f] # None => disk[f].stat <= edits
  /\ \A f \in Files : record[f] # None => record[f].stat <= edits
  /\ buf.stat # None => buf.stat <= edits
  /\ pc = "store" /\ ~ContentFirst /\ disk[cur] # None /\ disk[cur].stat = buf.stat
       => disk[cur].content = buf.content

\* Only indexAll, which reads the content before the stat, misdates a file:
\* indexFile takes the older stat, so a file edited between the two calls is
\* looked at again.
SyncNeverMisdates ==
  [][op # "indexAll" => \A f \in Files : Misdated(f)' => Misdated(f)]_storeVars
=============================================================================

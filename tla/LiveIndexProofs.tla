--------------------------- MODULE LiveIndexProofs ---------------------------
(***************************************************************************)
(* Proofs about IndexStore, for every set of files, contents and           *)
(* operations and any number of edits, and about LiveIndex, which drives   *)
(* its operations by a watcher, hooks, commands and kills.                 *)
(***************************************************************************)
EXTENDS LiveIndex, TLAPS

\* A step of the tables: the state of the operation may change with it.
LEMMA StoredOK ==
  ASSUME RecordInv, pc = "store", NEW k \in 0..3, Stored(k)
  PROVE  /\ record' \in [Files -> Row \cup {None}]
         /\ nodes' \in [Files -> SUBSET Contents]
         /\ torn' \in BOOLEAN
         /\ RecordOK'
<1> DEFINE old == record[cur]
           same == old # None /\ old.hash = buf.content
           kept == IF old = None THEN nodes[cur] ELSE {}
           row == [hash |-> buf.content, stat |-> buf.stat]
<1>1. /\ cur \in Files /\ buf.content \in Contents /\ buf.stat \in Stat
      /\ record \in [Files -> Row \cup {None}]
      /\ nodes \in [Files -> SUBSET Contents] /\ torn \in BOOLEAN
  BY DEF RecordInv, OperationOK, StoreTypeOK
<1>2. row \in Row /\ row # None /\ row.hash = buf.content
  BY <1>1, StoreAssumption DEF Row
<1>3. CASE same \/ k = 0
  <2>1. record' = record /\ nodes' = nodes
    BY <1>3 DEF Stored
  <2>2. torn' \in BOOLEAN /\ (~torn' => ~torn)
    BY <1>1 DEF Stored
  <2> QED BY <2>1, <2>2, <1>1 DEF RecordInv, RecordOK
<1>4. CASE ~same /\ k \in {1, 2}
  <2>0. k # 0 /\ k < 3
    BY <1>4
  <2>1. record' = [record EXCEPT ![cur] = None]
    BY <1>4, <2>0 DEF Stored
  <2>2. nodes' = [nodes EXCEPT ![cur] = IF k = 1 THEN kept ELSE kept \cup {buf.content}]
    BY <1>4 DEF Stored
  <2>3. torn' \in BOOLEAN /\ (~torn' => ~torn /\ k = 1)
    BY <1>1, <1>4 DEF Stored
  <2>4. kept \in SUBSET Contents /\ (~torn => kept = {})
    BY <1>1 DEF RecordInv, RecordOK
  <2> QED BY <2>1, <2>2, <2>3, <2>4, <1>1 DEF RecordInv, RecordOK
<1>5. CASE ~same /\ k = 3
  <2>1. record' = [record EXCEPT ![cur] = row]
    BY <1>5 DEF Stored
  <2>2. nodes' = [nodes EXCEPT ![cur] = kept \cup {buf.content}]
    BY <1>5 DEF Stored
  <2>3. torn' = torn
    BY <1>1, <1>5 DEF Stored
  <2>4. kept \in SUBSET Contents /\ (~torn => kept = {})
    BY <1>1 DEF RecordInv, RecordOK
  <2> HIDE DEF kept, row
  <2> QED BY <2>1, <2>2, <2>3, <2>4, <1>1, <1>2 DEF RecordInv, RecordOK
<1> QED BY <1>3, <1>4, <1>5

LEMMA RecordInit == InitStore => RecordInv
<1> SUFFICES ASSUME InitStore PROVE RecordInv
  OBVIOUS
<1>1. disk \in [Files -> Image \cup {None}]
  BY StoreAssumption DEF InitStore, Image, Stat
<1>2. Blank \in [content : Contents \cup {None}, stat : Stat \cup {None}]
  BY DEF Blank
<1>3. edits \in Stat
  BY StoreAssumption DEF InitStore, Stat
<1>4. record \in [Files -> Row \cup {None}] /\ nodes \in [Files -> SUBSET Contents]
  BY DEF InitStore
<1>5. StoreTypeOK
  BY <1>1, <1>2, <1>3, <1>4 DEF InitStore, StoreTypeOK
<1> QED BY <1>5 DEF RecordInv, InitStore, OperationOK, RecordOK

LEMMA RecordNext == RecordInv /\ [NextStore]_storeVars => RecordInv'
<1> SUFFICES ASSUME RecordInv, [NextStore]_storeVars PROVE RecordInv'
  OBVIOUS
<1> USE DEF RecordInv
<1>0. Blank \in [content : Contents \cup {None}, stat : Stat \cup {None}]
  BY DEF Blank
<1>1. ASSUME NEW f \in Files, Remove(f) PROVE RecordInv'
  <2>1. StoreTypeOK'
    BY <1>1, StoreAssumption DEF Remove, StoreTypeOK, Stat, tableVars, opVars
  <2>2. (OperationOK /\ RecordOK)'
    BY <1>1 DEF Remove, tableVars, opVars, OperationOK, RecordOK, ContentFirst
  <2> QED BY <2>1, <2>2
<1>2. ASSUME NEW f \in Files, NEW c \in Contents, Edit(f, c) PROVE RecordInv'
  <2>1. edits + 1 \in Stat /\ [content |-> c, stat |-> edits + 1] \in Image
    BY <1>2, StoreAssumption DEF Edit, StoreTypeOK, Stat, Image
  <2>2. StoreTypeOK'
    BY <1>2, <2>1 DEF Edit, StoreTypeOK, tableVars, opVars
  <2>3. (OperationOK /\ RecordOK)'
    BY <1>2 DEF Edit, tableVars, opVars, OperationOK, RecordOK, ContentFirst
  <2> QED BY <2>2, <2>3
<1>3. ASSUME NEW o \in Ops, Start(o) PROVE RecordInv'
  BY <1>3, StoreAssumption
  DEF Start, StoreTypeOK, OperationOK, RecordOK, treeVars, tableVars, ContentFirst
<1>4. CASE Scan
  <2>1. StoreTypeOK'
    BY <1>4 DEF Scan, StoreTypeOK, OnDisk, treeVars
  <2>2. OperationOK'
    BY <1>4 DEF Scan, OperationOK, treeVars
  <2>3. RecordOK'
    BY <1>4 DEF Scan, RecordOK, OnDisk, StoreTypeOK
  <2> QED BY <2>1, <2>2, <2>3
<1>5. CASE List
  BY <1>5 DEF List, StoreTypeOK, OperationOK, RecordOK, OnDisk, treeVars, tableVars, ContentFirst
<1>6. ASSUME NEW f \in Files, Pick(f) PROVE RecordInv'
  BY <1>6, StoreAssumption
  DEF Pick, StoreTypeOK, OperationOK, RecordOK, treeVars, tableVars, ContentFirst
<1>7. CASE ReadFirst
  <2>1. cur \in Files /\ (disk[cur] # None => disk[cur].content \in Contents /\ disk[cur].stat \in Stat)
    BY <1>7 DEF ReadFirst, OperationOK, StoreTypeOK, Image
  <2>2. StoreTypeOK'
    BY <1>7, <2>1, <1>0 DEF ReadFirst, NextFile, StoreTypeOK, treeVars, tableVars
  <2>3. OperationOK'
    BY <1>7, <2>1, StoreAssumption
    DEF ReadFirst, NextFile, StoreTypeOK, OperationOK, ContentFirst, treeVars, tableVars
  <2>4. RecordOK'
    BY <1>7 DEF ReadFirst, RecordOK, tableVars
  <2> QED BY <2>2, <2>3, <2>4
<1>8. CASE ReadSecond
  <2>1. cur \in Files /\ (disk[cur] # None => disk[cur].content \in Contents /\ disk[cur].stat \in Stat)
    BY <1>8 DEF ReadSecond, OperationOK, StoreTypeOK, Image
  <2>2. StoreTypeOK'
    BY <1>8, <2>1, <1>0 DEF ReadSecond, NextFile, StoreTypeOK, treeVars, tableVars
  <2>3. OperationOK'
    BY <1>8, <2>1, StoreAssumption
    DEF ReadSecond, NextFile, StoreTypeOK, OperationOK, ContentFirst, treeVars, tableVars
  <2>4. RecordOK'
    BY <1>8 DEF ReadSecond, RecordOK, tableVars
  <2> QED BY <2>2, <2>3, <2>4
<1>9. CASE ParseFails
  <2>1. cur \in Files
    BY <1>9 DEF ParseFails, OperationOK, StoreTypeOK
  <2> QED BY <1>9, <1>0, <2>1
    DEF ParseFails, NextFile, StoreTypeOK, OperationOK, RecordOK, treeVars, tableVars
<1>10. CASE Store
  <2>1. /\ record' \in [Files -> Row \cup {None}] /\ nodes' \in [Files -> SUBSET Contents]
        /\ torn' \in BOOLEAN /\ RecordOK'
    BY <1>10, StoredOK DEF Store
  <2>2. StoreTypeOK'
    BY <1>10, <1>0, <2>1 DEF Store, NextFile, StoreTypeOK, treeVars
  <2>3. OperationOK'
    BY <1>10 DEF Store, NextFile, OperationOK
  <2> QED BY <2>1, <2>2, <2>3
<1>11. CASE Finish
  BY <1>11, <1>0 DEF Finish, Idle, StoreTypeOK, OperationOK, RecordOK, treeVars, tableVars
<1>12. CASE Abort
  <2>1. /\ record' \in [Files -> Row \cup {None}] /\ nodes' \in [Files -> SUBSET Contents]
        /\ torn' \in BOOLEAN /\ RecordOK'
    <3>1. CASE pc = "store"
      <4>1. PICK k \in 0..2 : Stored(k)
        BY <1>12, <3>1 DEF Abort
      <4> QED BY <3>1, <4>1, StoredOK
    <3>2. CASE pc # "store"
      BY <1>12, <3>2 DEF Abort, StoreTypeOK, RecordOK, tableVars
    <3> QED BY <3>1, <3>2
  <2>2. StoreTypeOK'
    BY <1>12, <1>0, <2>1 DEF Abort, Idle, StoreTypeOK, treeVars
  <2>3. OperationOK'
    BY <1>12 DEF Abort, Idle, OperationOK
  <2> QED BY <2>1, <2>2, <2>3
<1>13. CASE UNCHANGED storeVars
  BY <1>13 DEF storeVars, treeVars, tableVars, opVars, StoreTypeOK, OperationOK, RecordOK, ContentFirst
<1> QED
  BY <1>1, <1>2, <1>3, <1>4, <1>5, <1>6, <1>7, <1>8, <1>9, <1>10, <1>11, <1>12, <1>13
  DEF NextStore, OpStep

\* Rows and graph agree in every reachable state, whatever kill or exception
\* ends a store between two of its transactions.
THEOREM RecordsAgree == StoreSpec => []RecordInv
<1> QED BY RecordInit, RecordNext, PTL DEF StoreSpec

LEMMA StatInit == InitStore => StatInv
BY StoreAssumption DEF InitStore, StatInv, Blank

\* What Stored writes has the stat in buf.
LEMMA StoredStat ==
  ASSUME RecordInv, StatInv, pc = "store", NEW k \in 0..3, Stored(k), edits' = edits
  PROVE  \A f \in Files : record'[f] # None => record'[f].stat <= edits'
<1>1. cur \in Files /\ buf.stat # None /\ record \in [Files -> Row \cup {None}]
  BY DEF RecordInv, OperationOK, StoreTypeOK
<1>2. ASSUME NEW f \in Files
      PROVE  record'[f] \in {record[f], None, [hash |-> buf.content, stat |-> buf.stat]}
  BY <1>1 DEF Stored
<1> QED BY <1>1, <1>2 DEF StatInv

LEMMA StatNext == RecordInv /\ StatInv /\ [NextStore]_storeVars => StatInv'
<1> SUFFICES ASSUME RecordInv, StatInv, [NextStore]_storeVars PROVE StatInv'
  OBVIOUS
<1> USE DEF StatInv, ContentFirst
<1>0. edits \in Nat /\ Blank.stat = None
  BY StoreAssumption DEF RecordInv, StoreTypeOK, Stat, Blank
<1>1. ASSUME NEW f \in Files, Remove(f) PROVE StatInv'
  <2>1. edits' = edits + 1 /\ disk' = [disk EXCEPT ![f] = None]
        /\ UNCHANGED <<record, buf, pc, op, cur>>
    BY <1>1 DEF Remove, tableVars, opVars
  <2>2. disk \in [Files -> Image \cup {None}] /\ record \in [Files -> Row \cup {None}]
        /\ \A i \in Image \cup Row : i.stat \in Nat
    BY StoreAssumption DEF RecordInv, StoreTypeOK, Image, Row, Stat
  <2>3. buf.stat # None => buf.stat \in Nat
    BY StoreAssumption DEF RecordInv, StoreTypeOK, Stat
  <2>4. pc = "store" => cur \in Files
    BY DEF RecordInv, OperationOK, StoreTypeOK
  <2> QED BY <1>0, <2>1, <2>2, <2>3, <2>4
<1>2. ASSUME NEW f \in Files, NEW c \in Contents, Edit(f, c) PROVE StatInv'
  <2>1. edits' = edits + 1 /\ disk' = [disk EXCEPT ![f] = [content |-> c, stat |-> edits + 1]]
        /\ UNCHANGED <<record, buf, pc, op, cur>>
    BY <1>2 DEF Edit, tableVars, opVars
  <2>2. disk \in [Files -> Image \cup {None}] /\ record \in [Files -> Row \cup {None}]
        /\ \A i \in Image \cup Row : i.stat \in Nat
    BY StoreAssumption DEF RecordInv, StoreTypeOK, Image, Row, Stat
  <2>3. buf.stat # None => buf.stat \in Nat
    BY StoreAssumption DEF RecordInv, StoreTypeOK, Stat
  <2>4. pc = "store" => cur \in Files /\ buf.stat # None
    BY DEF RecordInv, OperationOK, StoreTypeOK
  <2> QED BY <1>0, <2>1, <2>2, <2>3, <2>4
<1>3. ASSUME NEW o \in Ops, Start(o) PROVE StatInv'
  BY <1>3 DEF Start, treeVars, tableVars
<1>4. CASE Scan
  BY <1>4, StoreAssumption DEF Scan, treeVars, RecordInv, StoreTypeOK
<1>5. CASE List
  BY <1>5 DEF List, treeVars, tableVars
<1>6. ASSUME NEW f \in Files, Pick(f) PROVE StatInv'
  BY <1>6 DEF Pick, treeVars, tableVars
<1>7. CASE ReadFirst
  <2>1. cur \in Files
    BY <1>7 DEF ReadFirst, RecordInv, OperationOK, StoreTypeOK
  <2>2. buf' \in {Blank, [buf EXCEPT !.content = disk[cur].content],
                  [buf EXCEPT !.stat = disk[cur].stat]}
        /\ (disk[cur] = None => buf' = Blank) /\ pc' # "store"
        /\ UNCHANGED <<disk, edits, record>>
    BY <1>7 DEF ReadFirst, NextFile, treeVars, tableVars
  <2>3. buf'.stat # None => buf'.stat <= edits
    BY <1>0, <2>1, <2>2 DEF RecordInv, StoreTypeOK
  <2> QED BY <2>2, <2>3
<1>8. CASE ReadSecond
  <2>1. cur \in Files /\ (~ContentFirst => buf.stat # None)
    BY <1>8 DEF ReadSecond, RecordInv, OperationOK, StoreTypeOK
  <2>2. UNCHANGED <<disk, edits, record, op>>
    BY <1>8 DEF ReadSecond, treeVars, tableVars
  <2>3. CASE buf' = Blank /\ pc' = "files"
    BY <1>0, <2>2, <2>3
  <2>4. CASE /\ disk[cur] # None /\ cur' = cur
             /\ buf' = IF ContentFirst THEN [buf EXCEPT !.stat = disk[cur].stat]
                                       ELSE [buf EXCEPT !.content = disk[cur].content]
    <3>1. buf \in [content : Contents \cup {None}, stat : Stat \cup {None}]
      BY DEF RecordInv, StoreTypeOK
    <3>2. CASE ContentFirst
      BY <2>1, <2>2, <2>4, <3>1, <3>2
    <3>3. CASE ~ContentFirst
      BY <2>1, <2>2, <2>4, <3>1, <3>3
    <3> QED BY <3>2, <3>3
  <2> QED BY <1>8, <2>3, <2>4 DEF ReadSecond, NextFile
<1>9. CASE ParseFails
  BY <1>9, <1>0 DEF ParseFails, NextFile, treeVars, tableVars
<1>10. CASE Store
  <2>1. \A f \in Files : record'[f] # None => record'[f].stat <= edits'
    BY <1>10, StoredStat DEF Store, treeVars
  <2> QED BY <1>0, <1>10, <2>1 DEF Store, NextFile, treeVars
<1>11. CASE Finish
  BY <1>0, <1>11 DEF Finish, Idle, treeVars, tableVars
<1>12. CASE Abort
  <2>1. \A f \in Files : record'[f] # None => record'[f].stat <= edits'
    <3>1. CASE pc = "store"
      <4>1. PICK k \in 0..2 : Stored(k)
        BY <1>12, <3>1 DEF Abort
      <4> QED BY <1>12, <3>1, <4>1, StoredStat DEF Abort, treeVars
    <3>2. CASE pc # "store"
      BY <1>12, <3>2 DEF Abort, tableVars, treeVars
    <3> QED BY <3>1, <3>2
  <2> QED BY <1>0, <1>12, <2>1 DEF Abort, Idle, treeVars
<1>13. CASE UNCHANGED storeVars
  BY <1>13 DEF storeVars, treeVars, tableVars, opVars
<1> QED
  BY <1>1, <1>2, <1>3, <1>4, <1>5, <1>6, <1>7, <1>8, <1>9, <1>10, <1>11, <1>12, <1>13
  DEF NextStore, OpStep

\* A row written by Stored has the stat of the file on disk only with its hash.
LEMMA StoredNotMisdated ==
  ASSUME RecordInv, StatInv, pc = "store", ~ContentFirst, NEW k \in 0..3, Stored(k),
         disk' = disk, NEW f \in Files, Misdated(f)'
  PROVE  Misdated(f)
<1>1. /\ cur \in Files /\ buf.stat # None /\ record \in [Files -> Row \cup {None}]
  BY DEF RecordInv, OperationOK, StoreTypeOK
<1>2. f # cur => record'[f] = record[f]
  BY <1>1 DEF Stored
<1>3. record'[f] \in {record[f], None, [hash |-> buf.content, stat |-> buf.stat]}
  BY <1>1 DEF Stored
<1> QED BY <1>1, <1>2, <1>3 DEF Misdated, StatInv

LEMMA StepNeverMisdates ==
  RecordInv /\ StatInv /\ [NextStore]_storeVars
    => [op # "indexAll" => \A f \in Files : Misdated(f)' => Misdated(f)]_storeVars
<1> SUFFICES ASSUME RecordInv, StatInv, NextStore, op # "indexAll",
                    NEW f \in Files, Misdated(f)'
             PROVE  Misdated(f)
  OBVIOUS
<1>1. ASSUME NEW g \in Files, Remove(g) PROVE Misdated(f)
  BY <1>1 DEF Remove, Misdated, tableVars, RecordInv, StoreTypeOK
<1>2. ASSUME NEW g \in Files, NEW c \in Contents, Edit(g, c) PROVE Misdated(f)
  <2>1. record' = record /\ disk' = [disk EXCEPT ![g] = [content |-> c, stat |-> edits + 1]]
    BY <1>2 DEF Edit, tableVars
  <2>2. disk \in [Files -> Image \cup {None}] /\ edits \in Nat
    BY StoreAssumption DEF RecordInv, StoreTypeOK, Stat
  <2>3. record[f] # None => record[f].stat \in Nat /\ record[f].stat <= edits
    BY StoreAssumption DEF RecordInv, StoreTypeOK, Stat, Row, StatInv
  <2> QED BY <2>1, <2>2, <2>3 DEF Misdated
<1>3. CASE Scan
  BY <1>3 DEF Scan, Misdated, treeVars, RecordInv, StoreTypeOK
<1>4. CASE Store
  BY <1>4, StoredNotMisdated DEF Store, treeVars, ContentFirst
<1>5. CASE Abort
  <2>1. CASE pc = "store"
    <3>1. PICK k \in 0..2 : Stored(k)
      BY <1>5, <2>1 DEF Abort
    <3> QED BY <1>5, <2>1, <3>1, StoredNotMisdated DEF Abort, treeVars, ContentFirst
  <2>2. CASE pc # "store"
    BY <1>5, <2>2 DEF Abort, Misdated, treeVars, tableVars
  <2> QED BY <2>1, <2>2
<1>6. CASE UNCHANGED <<disk, record>>
  BY <1>6 DEF Misdated
<1>7. (\E o \in Ops : Start(o)) \/ List \/ ReadFirst \/ ReadSecond \/ ParseFails \/ Finish
      \/ (\E g \in Files : Pick(g)) => UNCHANGED <<disk, record>>
  BY DEF Start, List, ReadFirst, ReadSecond, ParseFails, Finish, Pick, treeVars, tableVars
<1> QED BY <1>1, <1>2, <1>3, <1>4, <1>5, <1>6, <1>7 DEF NextStore, OpStep

\* Whatever editors do between the stat and the read of a file, sync and
\* indexFiles never record a content under the stat of another: a later sync
\* looks at the file again.
THEOREM SyncDatesRight == StoreSpec => SyncNeverMisdates
<1>1. StoreSpec => [](RecordInv /\ StatInv)
  BY RecordInit, RecordNext, StatInit, StatNext, PTL DEF StoreSpec
<1> QED BY <1>1, StepNeverMisdates, PTL DEF StoreSpec, SyncNeverMisdates
-----------------------------------------------------------------------------
(* LiveIndex is an IndexStore, whatever drives the operations: what is     *)
(* proved of the tables holds of the running server.                       *)

LEMMA StoreStep == ASSUME "sync" \in Ops PROVE [Next]_vars => [NextStore]_storeVars
<1> SUFFICES ASSUME [Next]_vars PROVE [NextStore]_storeVars
  OBVIOUS
<1>1. ASSUME NEW f \in Files, EditorWrites(f) PROVE NextStore
  BY <1>1 DEF EditorWrites, NextStore
<1>2. CASE WatchSyncBegins
  BY <1>2 DEF WatchSyncBegins, NextStore
<1>3. ASSUME NEW o \in Ops, OtherBegins(o) PROVE NextStore
  BY <1>3 DEF OtherBegins, NextStore
<1>4. CASE OperationSteps
  BY <1>4 DEF OperationSteps, NextStore
<1>5. CASE OtherEnds
  BY <1>5 DEF OtherEnds, NextStore
<1>6. CASE WatchSyncEnds
  BY <1>6 DEF WatchSyncEnds, NextStore
<1>7. CASE WatchSyncThrows
  BY <1>7 DEF WatchSyncThrows, NextStore
<1>8. CASE CrashAndRestart
  BY <1>8 DEF CrashAndRestart, NextStore
<1>9. CASE UNCHANGED vars
  BY <1>9 DEF vars
<1>10. CASE \/ BecomeReady \/ FlushTimer \/ StopWatching \/ WatchSyncRefused
            \/ \E f \in Files : DeliverEvent(f)
  BY <1>10 DEF BecomeReady, FlushTimer, StopWatching, WatchSyncRefused, DeliverEvent
<1> QED
  BY <1>1, <1>2, <1>3, <1>4, <1>5, <1>6, <1>7, <1>8, <1>9, <1>10 DEF Next

\* The composed system implements the tables and their operations.
THEOREM LiveIndexIsStore == ASSUME "sync" \in Ops PROVE Spec => StoreSpec
<1>1. Init => InitStore
  BY DEF Init
<1> QED BY <1>1, StoreStep, PTL DEF Spec, StoreSpec

\* Rows and graph agree, and only indexAll misdates, in every behaviour of the
\* server with its watcher, its restarts and the other processes.
THEOREM LiveRecordsAgree == ASSUME "sync" \in Ops PROVE Spec => []RecordInv
BY LiveIndexIsStore, RecordsAgree

THEOREM LiveSyncDatesRight == ASSUME "sync" \in Ops PROVE Spec => SyncNeverMisdates
BY LiveIndexIsStore, SyncDatesRight
-----------------------------------------------------------------------------
(* What the graph lags behind is flagged: the inductive invariant.         *)

Flagged(f) == pending[f] # "no" \/ f \in events
Excused(f) == f \in misdated \/ Unindexable(f)

\* A flag the running sync of the watcher will leave, if it succeeds.
Noted(f) == f \in events \/ pending[f] = "new" \/ (owner # "watcher" /\ pending[f] = "old")

\* The running operation has yet to look at f.
Left(f) == f \in todo \/ (pc \in {"first", "second", "store"} /\ f = cur)

DriverOK ==
  /\ owner \in {None, "watcher", "other"}
  /\ owner = None <=> op = None
  /\ owner = "watcher" => syncing /\ op = "sync"
  /\ settled \in {"no", "begun", "yes"}
  /\ misdated \subseteq Files

\* The watcher of a settled server has a record of every edit since.
Settled == settled # "no" /\ ~stopped

StaleFlagged ==
  Settled /\ settled = "yes" => \A f \in Files : Stale(f) => Flagged(f) \/ Excused(f)

\* The sync of the watcher, past its scan.
SyncCovers ==
  Settled /\ owner = "watcher" /\ pc # "scan" =>
    \A f \in Files : /\ Stale(f) => Noted(f) \/ Left(f) \/ Excused(f)
                     /\ Left(f) => Noted(f) \/ disk[f] # None

\* What was read of the current file is its content still, or an edit is noted.
ReadFresh ==
  Settled /\ ((pc = "second" /\ ContentFirst) \/ pc = "store") =>
    Noted(cur) \/ (disk[cur] # None /\ disk[cur].content = buf.content)

FlagInv ==
  /\ RecordInv /\ W!WatchTypeOK /\ DriverOK
  /\ Settled => ready
  /\ StaleFlagged /\ SyncCovers /\ ReadFresh

LEMMA FlagInit == Init => FlagInv
<1> SUFFICES ASSUME Init PROVE FlagInv
  OBVIOUS
<1>1. RecordInv
  BY RecordInit DEF Init
<1>2. W!WatchTypeOK
  BY DEF Init, W!StartWatching, W!WatchTypeOK, W!NothingPending, OnDisk
<1>3. settled = "no" /\ DriverOK
  BY LiveAssumption DEF Init, InitStore, DriverOK
<1> QED BY <1>1, <1>2, <1>3 DEF FlagInv, Settled, StaleFlagged, SyncCovers, ReadFresh

\* Who drives the operation, and what the watcher knows, keep their types.
LEMMA DriverStep ==
  ASSUME "sync" \in Ops, RecordInv, W!WatchTypeOK, DriverOK, Settled => ready, [Next]_vars
  PROVE  W!WatchTypeOK' /\ DriverOK' /\ (Settled => ready)'
<1> USE StoreAssumption, LiveAssumption DEF DriverOK, Settled, W!WatchTypeOK, watchVars
<1>1. ASSUME NEW f \in Files, EditorWrites(f)
      PROVE  W!WatchTypeOK' /\ DriverOK' /\ (Settled => ready)'
  <2>1. op' = op
    BY <1>1 DEF EditorWrites, Remove, Edit, opVars
  <2> QED BY <1>1, <2>1 DEF EditorWrites
<1>2. ASSUME NEW f \in Files, DeliverEvent(f)
      PROVE  W!WatchTypeOK' /\ DriverOK' /\ (Settled => ready)'
  <2>1. PICK age \in {"old", "new"} : W!Event(f, age)
    BY <1>2 DEF DeliverEvent
  <2>2. op' = op
    BY <1>2 DEF DeliverEvent, storeVars, opVars
  <2>3. pending' \in [Files -> {"no", "old", "new"}]
    BY <2>1 DEF W!Event
  <2> QED BY <1>2, <2>1, <2>2, <2>3 DEF DeliverEvent, W!Event
<1>3. CASE BecomeReady \/ FlushTimer \/ StopWatching \/ WatchSyncRefused
  <2>1. op' = op
    BY <1>3 DEF BecomeReady, FlushTimer, StopWatching, WatchSyncRefused, storeVars, opVars
  <2>2. CASE BecomeReady
    BY <2>1, <2>2 DEF BecomeReady, W!Ready, W!NothingPending
  <2>3. CASE FlushTimer
    BY <2>1, <2>3 DEF FlushTimer, W!Flush
  <2>4. CASE StopWatching
    BY <2>1, <2>4 DEF StopWatching, W!Stop, W!NothingPending
  <2>5. CASE WatchSyncRefused
    BY <2>1, <2>5 DEF WatchSyncRefused, W!SyncFailed, W!Reschedule
  <2> QED BY <1>3, <2>2, <2>3, <2>4, <2>5
<1>4. CASE WatchSyncBegins
  BY <1>4 DEF WatchSyncBegins, Start
<1>5. ASSUME NEW o \in Ops, OtherBegins(o)
      PROVE  W!WatchTypeOK' /\ DriverOK' /\ (Settled => ready)'
  BY <1>5 DEF OtherBegins, Start
<1>6. CASE OperationSteps
  <2>1. op' = op
    BY <1>6 DEF OperationSteps, OpStep, Scan, List, ReadFirst, ReadSecond, ParseFails, Store, Pick
  <2> QED BY <1>6, <2>1 DEF OperationSteps
<1>7. CASE OtherEnds
  BY <1>7 DEF OtherEnds, Finish, Abort, Idle
<1>8. CASE WatchSyncEnds
  <2>1. op' = None /\ owner' = None /\ misdated' = misdated /\ settled' \in {settled, "yes"}
        /\ (settled = "no" => settled' = "no")
    BY <1>8 DEF WatchSyncEnds, Finish, Idle
  <2>2. CASE W!SyncOk
    BY <1>8, <2>1, <2>2 DEF W!SyncOk, W!Reschedule
  <2>3. CASE W!SyncFailed
    BY <1>8, <2>1, <2>3 DEF W!SyncFailed, W!Reschedule
  <2> QED BY <1>8, <2>2, <2>3 DEF WatchSyncEnds
<1>9. CASE WatchSyncThrows
  BY <1>9 DEF WatchSyncThrows, Abort, Idle, W!SyncFailed, W!Reschedule
<1>10. CASE CrashAndRestart
  <2>1. \/ op' = None /\ owner' = None
        \/ op' = op /\ owner' = owner /\ owner # "watcher"
    <3>1. CASE Abort /\ owner' = None
      BY <3>1 DEF Abort, Idle
    <3>2. CASE owner # "watcher" /\ UNCHANGED <<storeVars, owner>>
      BY <3>2 DEF storeVars, opVars
    <3> QED BY <1>10, <3>1, <3>2 DEF CrashAndRestart
  <2> QED BY <1>10, <2>1 DEF CrashAndRestart, W!NothingPending, OnDisk
<1>11. CASE UNCHANGED vars
  BY <1>11 DEF vars, storeVars, opVars
<1> QED
  BY <1>1, <1>2, <1>3, <1>4, <1>5, <1>6, <1>7, <1>8, <1>9, <1>10, <1>11 DEF Next

\* Flags only come: an edit raises an event, and an event is delivered after
\* the sync of the watcher has scanned as a new one.
LEMMA FlagsStay ==
  ASSUME FlagInv, Settled, Settled', settled' = settled, owner' = owner,
         NEW f \in Files, NEW g \in Files, DeliverEvent(g)
  PROVE  /\ Flagged(f) => Flagged(f)'
         /\ owner # "watcher" \/ pc # "scan" => (Noted(f) => Noted(f)')
<1>1. PICK age \in {"old", "new"} :
        /\ W!Event(g, age)
        /\ owner = "watcher" /\ pc # "scan" => age = "new"
  BY DEF DeliverEvent, FlagInv, DriverOK
<1>2. ready /\ pending \in [Files -> {"no", "old", "new"}]
  BY DEF FlagInv, W!WatchTypeOK
<1>3. events' = events \ {g} /\ pending' = [pending EXCEPT ![g] = age]
  BY <1>1, <1>2 DEF W!Event
<1>4. pending'[g] = age /\ (f # g => pending'[f] = pending[f] /\ (f \in events => f \in events'))
  BY <1>2, <1>3
<1>5. CASE f = g
  BY <1>1, <1>4, <1>5 DEF Flagged, Noted
<1>6. CASE f # g
  BY <1>4, <1>6 DEF Flagged, Noted
<1> QED BY <1>5, <1>6

\* What storing cur up to transaction k makes stale was stale before, or is no
\* longer what was read.
LEMMA StoredStale ==
  ASSUME RecordInv, pc = "store", NEW k \in 0..3, Stored(k), disk' = disk,
         NEW f \in Files, Stale(f)'
  PROVE  \/ Stale(f)
         \/ Unindexable(f)
         \/ f = cur /\ ~ (disk[cur] # None /\ disk[cur].content = buf.content)
<1>1. /\ cur \in Files /\ record \in [Files -> Row \cup {None}] /\ None \notin Row
      /\ [hash |-> buf.content, stat |-> buf.stat] \in Row
  BY StoreAssumption DEF RecordInv, OperationOK, StoreTypeOK, Row
<1>2. f # cur => record'[f] = record[f]
  BY <1>1 DEF Stored
<1>3. CASE f # cur
  BY <1>2, <1>3 DEF Stale
<1>4. CASE f = cur
  <2>1. \/ record'[cur] = record[cur]
        \/ record'[cur] = None /\ ~(record[cur] # None /\ record[cur].hash = buf.content)
        \/ record'[cur] = [hash |-> buf.content, stat |-> buf.stat]
    BY <1>1 DEF Stored
  <2>2. CASE record'[cur] = record[cur]
    BY <1>4, <2>2 DEF Stale
  <2>3. CASE record'[cur] = None /\ ~(record[cur] # None /\ record[cur].hash = buf.content)
    BY <1>4, <2>3 DEF Stale, Unindexable
  <2>4. CASE record'[cur] = [hash |-> buf.content, stat |-> buf.stat]
    BY <1>1, <1>4, <2>4 DEF Stale
  <2> QED BY <2>1, <2>2, <2>3, <2>4
<1> QED BY <1>3, <1>4

\* An editor's step: what it changes has an event.
LEMMA EditStep ==
  ASSUME FlagInv, NEW g \in Files, EditorWrites(g)
  PROVE  StaleFlagged' /\ SyncCovers' /\ ReadFresh'
<1>1. /\ UNCHANGED <<record, op, pc, todo, cur, buf>>
      /\ UNCHANGED <<pending, stopped, owner, settled, misdated>>
      /\ events' = events \cup {g}
      /\ \A f \in Files : f # g => disk'[f] = disk[f]
  <2>1. disk \in [Files -> Image \cup {None}]
    BY DEF FlagInv, RecordInv, StoreTypeOK
  <2> QED BY <2>1 DEF EditorWrites, Remove, Edit, tableVars, opVars
<1>2. Settled' = Settled /\ ContentFirst' = ContentFirst
  BY <1>1 DEF Settled, ContentFirst
<1>3. g \in events' /\ Flagged(g)' /\ Noted(g)'
  BY <1>1 DEF Flagged, Noted
<1>4. ASSUME NEW f \in Files, f # g
      PROVE  /\ Stale(f)' = Stale(f) /\ Excused(f)' = Excused(f) /\ Left(f)' = Left(f)
             /\ Flagged(f)' = Flagged(f) /\ Noted(f)' = Noted(f) /\ disk'[f] = disk[f]
  BY <1>1, <1>4 DEF Stale, Excused, Unindexable, Left, Flagged, Noted
<1>5. StaleFlagged'
  BY <1>1, <1>2, <1>3, <1>4 DEF FlagInv, StaleFlagged
<1>6. SyncCovers'
  BY <1>1, <1>2, <1>3, <1>4 DEF FlagInv, SyncCovers
<1>7. ReadFresh'
  <2>1. pc \in {"second", "store"} => cur \in Files
    BY StoreAssumption DEF FlagInv, RecordInv, OperationOK, StoreTypeOK
  <2> QED BY <1>1, <1>2, <1>3, <1>4, <2>1 DEF FlagInv, ReadFresh
<1> QED BY <1>5, <1>6, <1>7

\* A step of the watcher or of who drives it, that leaves the tables, the tree
\* and the operation, and no flag less.
LEMMA DriveStep ==
  ASSUME FlagInv, UNCHANGED <<disk, record, op, pc, todo, cur, buf, misdated>>,
         Settled' => Settled /\ (settled' = "yes" => settled = "yes"),
         Settled' => (owner = "watcher" <=> owner' = "watcher"),
         Settled' => \A f \in Files : /\ Flagged(f) => Flagged(f)'
                                      /\ owner # "watcher" \/ pc # "scan" => (Noted(f) => Noted(f)')
  PROVE  StaleFlagged' /\ SyncCovers' /\ ReadFresh'
<1>1. \A f \in Files : /\ Stale(f)' = Stale(f) /\ Excused(f)' = Excused(f)
                       /\ Left(f)' = Left(f) /\ disk'[f] = disk[f]
  BY DEF Stale, Excused, Unindexable, Left
<1>2. StaleFlagged'
  BY <1>1 DEF FlagInv, StaleFlagged
<1>3. SyncCovers'
  BY <1>1 DEF FlagInv, SyncCovers
<1>4. ReadFresh'
  <2>1. pc \in {"second", "store"} => cur \in Files
    BY StoreAssumption DEF FlagInv, RecordInv, OperationOK, StoreTypeOK
  <2>2. ContentFirst' = ContentFirst
    BY DEF ContentFirst
  <2>3. SUFFICES ASSUME Settled', (pc = "second" /\ ContentFirst) \/ pc = "store", ~Noted(cur)'
                 PROVE  disk[cur] # None /\ disk[cur].content = buf.content
    BY <2>2 DEF ReadFresh
  <2>4. ~Noted(cur) /\ Settled
    <3>1. PICK g \in Files : g = cur
      BY <2>1, <2>3
    <3>2. Noted(g) => Noted(g)'
      BY <2>3
    <3>3. cur' = g /\ cur = g
      BY <3>1
    <3>4. ~Noted(g)'
      BY <2>3, <3>3 DEF Noted
    <3>5. ~Noted(g)
      BY <3>2, <3>4
    <3> QED BY <2>3, <3>3, <3>5 DEF Noted
  <2> QED BY <2>3, <2>4 DEF FlagInv, ReadFresh
<1> QED BY <1>2, <1>3, <1>4

\* A step of the operation, whoever runs it.
LEMMA OperationStep ==
  ASSUME FlagInv, OperationSteps
  PROVE  StaleFlagged' /\ SyncCovers' /\ ReadFresh'
<1> DEFINE Fresh == disk[cur] # None /\ disk[cur].content = buf.content
<1>1. /\ UNCHANGED <<disk, op, pending, events, owner, settled, stopped>>
      /\ misdated' = misdated \cup {f \in Files : Misdated(f)'}
  BY DEF OperationSteps, watchVars, OpStep, Scan, List, ReadFirst, ReadSecond, ParseFails,
         Store, Pick, treeVars
<1>2. /\ Settled' = Settled /\ ContentFirst' = ContentFirst
      /\ \A f \in Files : /\ Flagged(f)' = Flagged(f) /\ Noted(f)' = Noted(f)
                          /\ Unindexable(f)' = Unindexable(f) /\ (Excused(f) => Excused(f)')
                          /\ Misdated(f)' => Excused(f)'
                          /\ Noted(f) => Flagged(f)
  BY <1>1 DEF Settled, ContentFirst, Flagged, Noted, Unindexable, Excused
<1>3. /\ pc \in {"first", "second", "store"} => cur \in Files
      /\ disk \in [Files -> Image \cup {None}] /\ record \in [Files -> Row \cup {None}]
      /\ todo \subseteq Files
      /\ owner = "watcher" => op = "sync"
  BY StoreAssumption DEF FlagInv, RecordInv, OperationOK, StoreTypeOK, DriverOK
<1>4. CASE Scan
  <2>1. /\ pc = "scan" /\ pc' = "files"
        /\ record' = [f \in Files |-> IF f \in OnDisk THEN record[f] ELSE None]
        /\ todo' = {f \in OnDisk : Changed(f)}
    BY <1>4 DEF Scan
  <2>2. \A f \in Files : Stale(f)' => Stale(f)
    BY <1>1, <2>1 DEF Stale, OnDisk
  <2>3. \A f \in Files : Stale(f)' => f \in todo' \/ Misdated(f)'
    BY <1>1, <2>1 DEF Stale, OnDisk, Changed, Misdated
  <2>4. \A f \in Files : /\ Stale(f)' => Left(f)' \/ Excused(f)'
                         /\ Left(f)' => disk'[f] # None
    BY <1>1, <1>2, <2>1, <2>3 DEF Left, OnDisk
  <2> QED
    BY <1>1, <1>2, <2>1, <2>2, <2>4 DEF FlagInv, StaleFlagged, SyncCovers, ReadFresh
<1>5. CASE List
  <2>1. pc' = "files" /\ record' = record /\ op # "sync"
    BY <1>5 DEF List, tableVars
  <2>2. \A f \in Files : Stale(f)' = Stale(f)
    BY <1>1, <2>1 DEF Stale
  <2> QED
    BY <1>1, <1>2, <1>3, <2>1, <2>2 DEF FlagInv, StaleFlagged, SyncCovers, ReadFresh
<1>6. ASSUME NEW g \in Files, Pick(g)
      PROVE  StaleFlagged' /\ SyncCovers' /\ ReadFresh'
  <2>1. /\ pc = "files" /\ pc' = "first" /\ record' = record
        /\ g \in todo /\ todo' = todo \ {g} /\ cur' = g
    BY <1>6 DEF Pick, tableVars
  <2>2. \A f \in Files : Stale(f)' = Stale(f) /\ Left(f)' = Left(f)
    BY <1>1, <2>1 DEF Stale, Left
  <2> QED
    BY <1>1, <1>2, <2>1, <2>2 DEF FlagInv, StaleFlagged, SyncCovers, ReadFresh
<1>7. CASE ReadFirst
  <2>1. /\ pc = "first" /\ record' = record /\ todo' = todo
    BY <1>7 DEF ReadFirst, tableVars
  <2>2. \A f \in Files : Stale(f)' = Stale(f)
    BY <1>1, <2>1 DEF Stale
  <2>3. CASE disk[cur] = None
    <3>1. pc' = "files" /\ \A f \in Files : Left(f)' => Left(f)
      BY <1>7, <2>1, <2>3 DEF ReadFirst, NextFile, Left
    <3>2. \A f \in Files : Left(f) => Left(f)' \/ disk[f] = None
      BY <1>7, <2>1, <2>3 DEF ReadFirst, NextFile, Left
    <3> QED
      BY <1>1, <1>2, <2>1, <2>2, <3>1, <3>2 DEF FlagInv, StaleFlagged, SyncCovers, ReadFresh
  <2>4. CASE disk[cur] # None
    <3>1. /\ pc' = "second" /\ cur' = cur
          /\ ContentFirst => buf'.content = disk[cur].content
      <4>1. buf \in [content : Contents \cup {None}, stat : Stat \cup {None}]
        BY DEF FlagInv, RecordInv, StoreTypeOK
      <4> QED BY <1>7, <2>4, <4>1 DEF ReadFirst
    <3>2. \A f \in Files : Left(f)' = Left(f)
      BY <2>1, <3>1 DEF Left
    <3> QED
      BY <1>1, <1>2, <2>1, <2>2, <2>4, <3>1, <3>2
      DEF FlagInv, StaleFlagged, SyncCovers, ReadFresh
  <2> QED BY <2>3, <2>4
<1>8. CASE ReadSecond
  <2>1. /\ pc = "second" /\ record' = record /\ todo' = todo /\ cur \in Files
    BY <1>3, <1>8 DEF ReadSecond, tableVars
  <2>2. \A f \in Files : Stale(f)' = Stale(f)
    BY <1>1, <2>1 DEF Stale
  <2>3. buf \in [content : Contents \cup {None}, stat : Stat \cup {None}]
    BY DEF FlagInv, RecordInv, StoreTypeOK
  <2>4. CASE pc' = "files"
    <3>1. \A f \in Files : Left(f)' => Left(f)
      BY <2>1, <2>4 DEF Left
    <3>2. op = "sync" => \A f \in Files : Left(f) => Left(f)' \/ disk[f] = None \/ Unindexable(f)
      BY <1>8, <2>1, <2>3, <2>4 DEF ReadSecond, Left, Unindexable, ContentFirst
    <3> QED
      BY <1>1, <1>2, <1>3, <2>1, <2>2, <2>4, <3>1, <3>2
      DEF FlagInv, StaleFlagged, SyncCovers, ReadFresh, Excused
  <2>5. CASE /\ pc' = "store" /\ cur' = cur /\ disk[cur] # None
             /\ buf' = IF ContentFirst THEN [buf EXCEPT !.stat = disk[cur].stat]
                                       ELSE [buf EXCEPT !.content = disk[cur].content]
    <3>1. \A f \in Files : Left(f)' = Left(f)
      BY <2>1, <2>5 DEF Left
    <3>2. ContentFirst => buf'.content = buf.content
      BY <2>3, <2>5
    <3>3. ~ContentFirst => buf'.content = disk[cur].content
      BY <2>3, <2>5
    <3>4. PICK g \in Files : g = cur
      BY <2>1
    <3>5. ReadFresh'
      <4>1. Noted(cur)' = Noted(g)' /\ Noted(g)' = Noted(g) /\ cur' = g
        BY <1>2, <2>5, <3>4
      <4> QED
        BY <1>1, <1>2, <2>1, <2>5, <3>2, <3>3, <3>4, <4>1 DEF FlagInv, ReadFresh
    <3> QED
      BY <1>1, <1>2, <2>1, <2>2, <2>5, <3>1, <3>5 DEF FlagInv, StaleFlagged, SyncCovers
  <2> QED BY <1>8, <2>4, <2>5 DEF ReadSecond, NextFile
<1>9. CASE ParseFails
  <2>1. pc = "store" /\ pc' = "files" /\ op = "indexAll" /\ record' = record
    BY <1>9 DEF ParseFails, NextFile, tableVars
  <2>2. \A f \in Files : Stale(f)' = Stale(f)
    BY <1>1, <2>1 DEF Stale
  <2> QED
    BY <1>1, <1>2, <1>3, <2>1, <2>2 DEF FlagInv, StaleFlagged, SyncCovers, ReadFresh
<1>10. CASE Store
  <2>1. /\ pc = "store" /\ pc' = "files" /\ todo' = todo /\ Stored(3) /\ cur \in Files
    BY <1>3, <1>10 DEF Store, NextFile
  <2>2. \A f \in Files : Stale(f)' => \/ Stale(f) /\ f # cur
                                      \/ Unindexable(f)
                                      \/ f = cur /\ ~Fresh
    <3>1. \/ record' = record /\ record[cur] # None /\ record[cur].hash = buf.content
          \/ record' = [record EXCEPT ![cur] = [hash |-> buf.content, stat |-> buf.stat]]
      BY <2>1 DEF Stored
    <3>2. [hash |-> buf.content, stat |-> buf.stat] # None
      BY <2>1, StoreAssumption DEF FlagInv, RecordInv, OperationOK, StoreTypeOK, Row
    <3>3. ASSUME NEW f \in Files, f = cur PROVE Stale(f)' => ~Fresh
      BY <1>1, <1>3, <2>1, <3>1, <3>2, <3>3 DEF Stale
    <3>4. ASSUME NEW f \in Files, f # cur PROVE Stale(f)' = Stale(f)
      BY <1>1, <1>3, <2>1, <3>1, <3>4 DEF Stale
    <3> QED BY <3>3, <3>4
  <2>3. Settled => (Noted(cur) \/ Fresh)
    BY <2>1 DEF FlagInv, ReadFresh
  <2>4. \A f \in Files : (Left(f)' => Left(f)) /\ (Left(f) => Left(f)' \/ f = cur)
    BY <2>1 DEF Left
  <2> HIDE DEF Fresh
  <2>5. Settled => \A f \in Files : Stale(f)' => (Stale(f) /\ f # cur) \/ Excused(f) \/ Noted(f)
    BY <2>2, <2>3 DEF Excused
  <2> QED
    BY <1>1, <1>2, <2>1, <2>4, <2>5 DEF FlagInv, StaleFlagged, SyncCovers, ReadFresh
<1> QED BY <1>4, <1>5, <1>6, <1>7, <1>8, <1>9, <1>10 DEF OperationSteps, OpStep

\* The operation of the watcher or another ends in order, or where it is.
LEMMA EndStep ==
  ASSUME FlagInv, OtherEnds \/ WatchSyncEnds \/ WatchSyncThrows
  PROVE  StaleFlagged' /\ SyncCovers' /\ ReadFresh'
<1>1. disk' = disk /\ misdated' = misdated /\ pc' = "idle" /\ owner' = None /\ stopped' = stopped
  BY DEF OtherEnds, WatchSyncEnds, WatchSyncThrows, Finish, Abort, Idle, treeVars,
         watchVars, W!SyncOk, W!SyncFailed
<1>2. SyncCovers' /\ ReadFresh'
  BY <1>1, LiveAssumption DEF SyncCovers, ReadFresh
<1>3. \A f \in Files : Unindexable(f)' = Unindexable(f) /\ Excused(f)' = Excused(f)
  BY <1>1 DEF Unindexable, Excused
<1>4. CASE Finish /\ ~(WatchSyncEnds /\ W!SyncOk)
  <2>1. record' = record /\ pending' = pending /\ events' = events /\ settled' = settled
    BY <1>4 DEF OtherEnds, WatchSyncEnds, WatchSyncThrows, Finish, tableVars, watchVars, W!SyncFailed
  <2>2. \A f \in Files : Stale(f)' = Stale(f) /\ Flagged(f)' = Flagged(f)
    BY <1>1, <2>1 DEF Stale, Flagged
  <2> QED BY <1>1, <1>2, <1>3, <2>1, <2>2 DEF FlagInv, StaleFlagged, Settled
<1>5. CASE WatchSyncEnds /\ W!SyncOk
  <2>1. /\ owner = "watcher" /\ pc = "files" /\ todo = {} /\ record' = record
        /\ events' = events
        /\ pending' = [f \in Files |-> IF pending[f] = "old" THEN "no" ELSE pending[f]]
        /\ settled' # "no" => settled # "no"
    BY <1>5 DEF WatchSyncEnds, Finish, tableVars, W!SyncOk
  <2>2. \A f \in Files : ~Left(f) /\ Stale(f)' = Stale(f) /\ (Noted(f) => Flagged(f)')
    BY <1>1, <2>1 DEF Stale, Left, Noted, Flagged
  <2> QED BY <1>1, <1>2, <1>3, <2>1, <2>2 DEF FlagInv, StaleFlagged, SyncCovers, Settled
<1>6. CASE Abort /\ ~(WatchSyncEnds /\ W!SyncOk)
  <2>1. pending' = pending /\ events' = events /\ settled' = settled
    BY <1>6 DEF OtherEnds, WatchSyncEnds, WatchSyncThrows, watchVars, W!SyncFailed
  <2>2. \A f \in Files : Flagged(f)' = Flagged(f) /\ (Noted(f) => Flagged(f))
    BY <2>1 DEF Flagged, Noted
  <2>3. CASE pc = "store"
    <3>1. PICK k \in 0..2 : Stored(k)
      BY <1>6, <2>3 DEF Abort
    <3>2. \A f \in Files : Stale(f)' => \/ Stale(f)
                                        \/ Unindexable(f)
                                        \/ f = cur /\ ~(disk[cur] # None /\ disk[cur].content = buf.content)
      BY <1>1, <2>3, <3>1, StoredStale DEF FlagInv
    <3>3. Settled => \A f \in Files : Stale(f)' => Stale(f) \/ Unindexable(f) \/ Noted(f)
      BY <2>3, <3>2 DEF FlagInv, ReadFresh
    <3> QED BY <1>1, <1>2, <1>3, <2>1, <2>2, <3>3 DEF FlagInv, StaleFlagged, Settled, Excused
  <2>4. CASE pc # "store"
    <3>1. \A f \in Files : Stale(f)' = Stale(f)
      BY <1>1, <1>6, <2>4 DEF Abort, tableVars, Stale
    <3> QED BY <1>1, <1>2, <1>3, <2>1, <2>2, <3>1 DEF FlagInv, StaleFlagged, Settled
  <2> QED BY <2>3, <2>4
<1> QED BY <1>4, <1>5, <1>6 DEF OtherEnds, WatchSyncEnds, WatchSyncThrows

LEMMA FlagStep == ASSUME "sync" \in Ops PROVE FlagInv /\ [Next]_vars => FlagInv'
<1> SUFFICES ASSUME FlagInv, [Next]_vars PROVE FlagInv'
  OBVIOUS
<1>1. RecordInv'
  BY StoreStep, RecordNext DEF FlagInv
<1>2. W!WatchTypeOK' /\ DriverOK' /\ (Settled => ready)'
  BY DriverStep DEF FlagInv
<1>3. StaleFlagged' /\ SyncCovers' /\ ReadFresh'
  <2>1. ASSUME NEW f \in Files, EditorWrites(f) PROVE StaleFlagged' /\ SyncCovers' /\ ReadFresh'
    BY <2>1, EditStep
  <2>2. ASSUME NEW g \in Files, DeliverEvent(g) PROVE StaleFlagged' /\ SyncCovers' /\ ReadFresh'
    <3>1. UNCHANGED <<disk, record, op, pc, todo, cur, buf, misdated, settled, owner, stopped>>
      BY <2>2 DEF DeliverEvent, storeVars, treeVars, tableVars, opVars, W!Event
    <3>2. Settled' = Settled
      BY <3>1 DEF Settled
    <3>3. Settled' => \A f \in Files : /\ Flagged(f) => Flagged(f)'
                                       /\ owner # "watcher" \/ pc # "scan" => (Noted(f) => Noted(f)')
      BY <2>2, <3>1, <3>2, FlagsStay
    <3> QED BY <3>1, <3>2, <3>3, DriveStep
  <2>3. CASE BecomeReady \/ StopWatching
    <3>1. ~Settled'
      BY <2>3 DEF BecomeReady, StopWatching, W!Ready, W!Stop, FlagInv, Settled
    <3> QED BY <3>1 DEF StaleFlagged, SyncCovers, ReadFresh
  <2>4. CASE FlushTimer
    <3>1. UNCHANGED <<disk, record, op, pc, todo, cur, buf, misdated, settled, owner, stopped, events>>
      BY <2>4 DEF FlushTimer, storeVars, treeVars, tableVars, opVars, W!Flush
    <3>2. \/ pending' = pending
          \/ /\ owner # "watcher"
             /\ pending' = [f \in Files |-> IF pending[f] = "no" THEN "no" ELSE "old"]
      BY <2>4 DEF FlushTimer, W!Flush, FlagInv, DriverOK
    <3>3. pending \in [Files -> {"no", "old", "new"}]
      BY DEF FlagInv, W!WatchTypeOK
    <3>4. \A f \in Files : (Flagged(f) => Flagged(f)') /\ (Noted(f) => Noted(f)')
      BY <3>1, <3>2, <3>3 DEF Flagged, Noted
    <3>5. Settled' = Settled
      BY <3>1 DEF Settled
    <3> QED BY <3>1, <3>4, <3>5, DriveStep
  <2>5. CASE WatchSyncRefused
    <3>1. UNCHANGED <<disk, record, op, pc, todo, cur, buf, misdated, settled, owner, stopped, events, pending>>
      BY <2>5 DEF WatchSyncRefused, storeVars, treeVars, tableVars, opVars, W!SyncFailed
    <3>2. Settled' = Settled /\ \A f \in Files : Flagged(f)' = Flagged(f) /\ Noted(f)' = Noted(f)
      BY <3>1 DEF Settled, Flagged, Noted
    <3> QED BY <3>1, <3>2, DriveStep
  <2>6. CASE WatchSyncBegins \/ \E o \in Ops : OtherBegins(o)
    <3>1. /\ UNCHANGED <<disk, record, misdated, stopped, events, pending>>
          /\ op = None /\ pc' = "scan" /\ settled' \in {settled, "begun"}
          /\ settled' # "no" => settled # "no" \/ settled' = "begun"
      BY <2>6 DEF WatchSyncBegins, OtherBegins, Start, treeVars, tableVars, watchVars
    <3>2. \A f \in Files : /\ Stale(f)' = Stale(f) /\ Excused(f)' = Excused(f)
                           /\ Flagged(f)' = Flagged(f)
      BY <3>1 DEF Stale, Excused, Unindexable, Flagged
    <3> QED BY <3>1, <3>2 DEF FlagInv, StaleFlagged, SyncCovers, ReadFresh, Settled
  <2>7. CASE OperationSteps
    BY <2>7, OperationStep
  <2>8. CASE OtherEnds \/ WatchSyncEnds \/ WatchSyncThrows
    BY <2>8, EndStep
  <2>9. CASE CrashAndRestart
    BY <2>9 DEF CrashAndRestart, StaleFlagged, SyncCovers, ReadFresh, Settled
  <2>10. CASE UNCHANGED vars
    <3>1. /\ UNCHANGED <<disk, record, op, pc, todo, cur, buf>>
          /\ UNCHANGED <<misdated, settled, owner, stopped, events, pending>>
      BY <2>10 DEF vars, storeVars, treeVars, tableVars, opVars, watchVars
    <3>2. Settled' = Settled /\ \A f \in Files : Flagged(f)' = Flagged(f) /\ Noted(f)' = Noted(f)
      BY <3>1 DEF Settled, Flagged, Noted
    <3> QED BY <3>1, <3>2, DriveStep
  <2> QED
    BY <2>1, <2>2, <2>3, <2>4, <2>5, <2>6, <2>7, <2>8, <2>9, <2>10 DEF Next
<1> QED BY <1>1, <1>2, <1>3 DEF FlagInv

\* Once a sync begun after ready has succeeded, the banner names every file the
\* graph lags behind, or its event is on the way, whatever the editors, the
\* other processes, the refusals, the exceptions and the kills do: the
\* debounced watcher forgets no edit.
THEOREM LiveStaleIsFlagged == ASSUME "sync" \in Ops PROVE Spec => []StaleIsFlagged
<1>1. FlagInv => StaleIsFlagged
  BY DEF FlagInv, StaleFlagged, StaleIsFlagged, Settled, Flagged, Excused
<1> QED BY <1>1, FlagInit, FlagStep, PTL DEF Spec
=============================================================================

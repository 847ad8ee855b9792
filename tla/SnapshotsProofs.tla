-------------------------- MODULE SnapshotsProofs --------------------------
(***************************************************************************)
(* Proofs about what MCSnapshots checks together: the snapshots of the     *)
(* server first, the projects of the command line (Project) second, what   *)
(* the reading commands answer third.                                      *)
(*                                                                         *)
(* The snapshot that is cached is whole because                            *)
(* the checkout of the awaited build stands for as long as it is awaited   *)
(* (Flying), and all callers get the same one because none is given out    *)
(* before it is cached (NoneServed) and a flight starts only while nothing *)
(* is cached.  Abandoned builds may be in any state throughout.            *)
(***************************************************************************)
EXTENDS Snapshots, Project, FiniteSetTheorems, WellFoundedInduction, TLAPS

Flying ==
  flight # None =>
    /\ tree
    /\ cache = None
    /\ build[flight.build].pc # "free"
    /\ build[flight.build].lost = {}

NoneServed == cache = None => \A r \in Requests : reply[r].state # "ok"

\* A build that is free has lost nothing.
FreeIsClean == \A b \in Builds : build[b].pc = "free" => build[b].lost = {}

IInv == TypeOK /\ CachedIsWhole /\ OneSnapshot /\ Flying /\ NoneServed /\ FreeIsClean

\* Telling the outcome keeps every reply typed.
LEMMA TellType ==
  ASSUME NEW rep \in [Requests -> Reply], NEW o \in Reply
  PROVE  Tell(rep, o) \in [Requests -> Reply]
BY DEF Tell

LEMMA Outcomes ==
  /\ Idle \in Reply /\ Waiting \in Reply /\ Failed \in Reply
  /\ \A s \in Snapshot : Served(s) \in Reply
  /\ Free \in BuildState
BY DEF Idle, Waiting, Failed, Served, Reply, Free, BuildState

\* A rejected flight leaves nothing cached and nothing served.
LEMMA RejectKeeps ==
  ASSUME IInv, cache = None,
         NEW bd \in [Builds -> BuildState], NEW rep \in [Requests -> Reply],
         \A r \in Requests : rep[r].state # "ok",
         \A b \in FreeIn(bd) : bd[b].lost = {},
         warm' \in BOOLEAN, limit' \in NodeLimits, cache' = cache,
         Reject(bd, rep)
  PROVE  IInv'
<1>1. Tell(rep, Failed) \in [Requests -> Reply]
  BY TellType, Outcomes
<1>2. \A r \in Requests : Tell(rep, Failed)[r].state # "ok"
  BY DEF Tell, Failed
<1>3. TypeOK'
  BY <1>1 DEF IInv, TypeOK, Reject
<1>4. (CachedIsWhole /\ OneSnapshot /\ Flying /\ NoneServed)'
  BY <1>2 DEF CachedIsWhole, OneSnapshot, Flying, NoneServed, Reject
<1>5. FreeIsClean'
  BY DEF FreeIsClean, FreeIn, Reject
<1> QED BY <1>3, <1>4, <1>5 DEF IInv

\* An attempt begins with a checkout and with a build that has lost nothing.
LEMMA AttemptKeeps ==
  ASSUME IInv, cache = None, NEW n \in {1, 2}, NEW dir,
         NEW bd \in [Builds -> BuildState], NEW rep \in [Requests -> Reply],
         \A r \in Requests : rep[r].state # "ok",
         \A b \in FreeIn(bd) : bd[b].lost = {},
         warm' \in BOOLEAN, limit' \in NodeLimits, cache' = cache,
         Attempt(n, dir, bd, rep)
  PROVE  IInv'
<1>1. CASE Reject(bd, rep)
  BY <1>1, RejectKeeps
<1>2. ASSUME NEW b \in FreeIn(bd), BeginBuild(n, b, dir, bd), reply' = rep
      PROVE  IInv'
  <2>1. b \in Builds /\ bd[b].lost = {} /\ bd[b] \in BuildState
    BY DEF FreeIn
  <2>2. /\ tree' = TRUE
        /\ flight' = [build |-> b, try |-> n]
        /\ graphDir' \in {b, None}
        /\ \/ build' = [bd EXCEPT ![b] = Indexing(TRUE)]
           \/ build' = [bd EXCEPT ![b].pc = "grammars"]
    BY <1>2 DEF BeginBuild, AfterCheckout
  <2>3. Indexing(TRUE) \in BuildState /\ Indexing(TRUE).lost = {}
        /\ Indexing(TRUE).pc = "indexing"
    BY DEF Indexing, BuildState
  <2>4. [bd[b] EXCEPT !.pc = "grammars"] \in BuildState
    BY <2>1 DEF BuildState
  <2>5. /\ build' \in [Builds -> BuildState]
        /\ build'[b].pc # "free" /\ build'[b].lost = {}
    <3>1. CASE build' = [bd EXCEPT ![b] = Indexing(TRUE)]
      BY <3>1, <2>1, <2>3
    <3>2. CASE build' = [bd EXCEPT ![b].pc = "grammars"]
      BY <3>2, <2>1, <2>4 DEF BuildState
    <3> QED BY <2>2, <3>1, <3>2
  <2>6. TypeOK'
    BY <1>2, <2>1, <2>2, <2>5 DEF IInv, TypeOK
  <2>7. Flying'
    BY <2>2, <2>5 DEF Flying
  <2>8. (CachedIsWhole /\ OneSnapshot /\ NoneServed)'
    BY <1>2 DEF CachedIsWhole, OneSnapshot, NoneServed
  <2>9. \A c \in Builds \ {b} : build'[c] = bd[c]
    BY <2>2
  <2>10. FreeIsClean'
    BY <2>5, <2>9 DEF FreeIsClean, FreeIn
  <2> QED BY <2>6, <2>7, <2>8, <2>10 DEF IInv
<1> QED BY <1>1, <1>2 DEF Attempt

\* The end of an awaited build that saw its whole checkout.
LEMMA SettleKeeps ==
  ASSUME IInv, flight # None, NEW s \in Snapshot, s.lost = {},
         NEW bd \in [Builds -> BuildState],
         \A b \in FreeIn(bd) : bd[b].lost = {},
         warm' \in BOOLEAN, limit' \in NodeLimits, Settle(s, bd)
  PROVE  IInv'
<1>1. /\ cache = None /\ reply \in [Requests -> Reply]
      /\ \A r \in Requests : reply[r].state # "ok"
  BY DEF IInv, Flying, NoneServed, TypeOK
<1>2. CASE flight.try = 1 /\ Attempt(2, None, bd, reply) /\ UNCHANGED cache
  BY <1>1, <1>2, AttemptKeeps
<1>3. CASE Reject(bd, reply) /\ UNCHANGED cache
  BY <1>1, <1>3, RejectKeeps
<1>4. CASE /\ cache' = s /\ flight' = None /\ tree' = FALSE /\ graphDir' = None
           /\ build' = bd /\ reply' = Tell(reply, Served(s))
  <2>1. Tell(reply, Served(s)) \in [Requests -> Reply]
    BY <1>1, TellType, Outcomes
  <2>2. TypeOK'
    BY <1>4, <2>1 DEF IInv, TypeOK
  <2>3. OneSnapshot'
    BY <1>1, <1>4 DEF OneSnapshot, Tell, Served
  <2>4. cache' # None
    BY <1>4, NoneIsNoSnapshot
  <2>5. (CachedIsWhole /\ Flying /\ NoneServed)'
    BY <1>4, <2>4 DEF CachedIsWhole, Flying, NoneServed
  <2>6. FreeIsClean'
    BY <1>4 DEF FreeIsClean, FreeIn
  <2> QED BY <2>2, <2>3, <2>5, <2>6 DEF IInv
<1> QED BY <1>2, <1>3, <1>4 DEF Settle

\* A build that throws: only the awaited one is heard of.
LEMMA ThrowsKeeps ==
  ASSUME IInv, NEW b \in Builds, NEW why \in {"failed", "already initialized"},
         warm' \in BOOLEAN, limit' \in NodeLimits, build[b].pc # "free",
         Throws(b, why)
  PROVE  IInv'
<1> DEFINE bd == [build EXCEPT ![b] = Free]
<1>1. bd \in [Builds -> BuildState] /\ \A c \in FreeIn(bd) : bd[c].lost = {}
  BY Outcomes DEF IInv, TypeOK, FreeIsClean, FreeIn, Free
<1>2. CASE Live(b)
  <2>1. flight # None /\ tree
    BY <1>2 DEF Live, IInv, Flying
  <2>2. FromScan(why) \in Snapshot /\ FromScan(why).lost = {}
    BY <2>1, ScriptsAreSources DEF FromScan, Snapshot
  <2> QED BY <1>1, <1>2, <2>1, <2>2, SettleKeeps DEF Throws
<1>3. CASE ~Live(b)
  <2>1. build' = bd /\ UNCHANGED <<tree, graphDir, flight, cache, reply>>
    BY <1>3 DEF Throws
  <2>2. TypeOK'
    BY <1>1, <2>1 DEF IInv, TypeOK
  <2>3. Flying'
    BY <1>3, <2>1 DEF Live, IInv, TypeOK, Flying
  <2>4. (CachedIsWhole /\ OneSnapshot /\ NoneServed)'
    BY <2>1 DEF IInv, CachedIsWhole, OneSnapshot, NoneServed
  <2>5. FreeIsClean'
    BY <1>1, <2>1 DEF FreeIsClean, FreeIn
  <2> QED BY <2>2, <2>3, <2>4, <2>5 DEF IInv
<1> QED BY <1>2, <1>3

LEMMA InitIInv == Init => IInv
<1> SUFFICES ASSUME Init PROVE IInv
  OBVIOUS
<1>1. TypeOK
  BY Outcomes DEF Init, TypeOK
<1>2. \A r \in Requests : reply[r].state # "ok"
  BY DEF Init, Idle
<1>3. FreeIsClean
  BY DEF Init, FreeIsClean, Free
<1> QED
  BY <1>1, <1>2, <1>3 DEF Init, IInv, CachedIsWhole, OneSnapshot, Flying, NoneServed

\* The builds that are free before a step are clean.
LEMMA FreeNow ==
  ASSUME IInv
  PROVE  build \in [Builds -> BuildState] /\ \A b \in FreeIn(build) : build[b].lost = {}
BY DEF IInv, TypeOK, FreeIsClean, FreeIn

LEMMA NextIInv == IInv /\ [Next]_vars => IInv'
<1> SUFFICES ASSUME IInv, [Next]_vars PROVE IInv'
  OBVIOUS
<1> USE DEF IInv
<1>1. ASSUME NEW r \in Requests, ServeFromCache(r) PROVE IInv'
  <2>1. cache \in Snapshot /\ cache # None
    BY <1>1 DEF ServeFromCache, TypeOK
  <2>2. TypeOK'
    BY <1>1, <2>1, Outcomes DEF ServeFromCache, TypeOK
  <2>3. OneSnapshot'
    BY <1>1 DEF ServeFromCache, OneSnapshot, TypeOK, Served
  <2> QED
    BY <1>1, <2>1, <2>2, <2>3
    DEF ServeFromCache, CachedIsWhole, Flying, NoneServed, FreeIsClean
<1>2. ASSUME NEW r \in Requests, JoinFlight(r) PROVE IInv'
  <2>1. TypeOK'
    BY <1>2, Outcomes DEF JoinFlight, TypeOK
  <2>2. (OneSnapshot /\ NoneServed)'
    BY <1>2 DEF JoinFlight, OneSnapshot, NoneServed, TypeOK, Waiting
  <2> QED
    BY <1>2, <2>1, <2>2 DEF JoinFlight, CachedIsWhole, Flying, FreeIsClean
<1>3. ASSUME NEW r \in Requests, StartFlight(r) PROVE IInv'
  <2> DEFINE rep == [reply EXCEPT ![r] = Waiting]
  <2>1. rep \in [Requests -> Reply] /\ \A q \in Requests : rep[q].state # "ok"
    BY <1>3, Outcomes DEF StartFlight, TypeOK, NoneServed, Waiting
  <2>2. /\ cache = None /\ cache' = cache
        /\ warm' \in BOOLEAN /\ limit' \in NodeLimits
        /\ Attempt(1, graphDir, build, rep)
    BY <1>3 DEF StartFlight, TypeOK
  <2> QED BY <2>1, <2>2, FreeNow, AttemptKeeps
<1>4. ASSUME NEW b \in Builds, GrammarsLoaded(b) PROVE IInv'
  <2>1. CASE graphDir # None
    <3>1. /\ Throws(b, "already initialized") /\ build[b].pc # "free"
          /\ warm' \in BOOLEAN /\ limit' \in NodeLimits
      BY <1>4, <2>1 DEF GrammarsLoaded, TypeOK
    <3> QED BY <3>1, ThrowsKeeps
  <2>2. CASE graphDir = None
    <3>1. /\ graphDir' = b /\ warm' = TRUE /\ limit' = limit
          /\ build' = [build EXCEPT ![b] = Indexing(tree)]
          /\ UNCHANGED <<tree, flight, cache, reply>>
      BY <1>4, <2>2 DEF GrammarsLoaded
    <3>2. /\ Indexing(tree) \in BuildState /\ Indexing(tree).pc = "indexing"
          /\ tree => Indexing(tree).lost = {}
      BY DEF Indexing, BuildState, TypeOK
    <3>3. TypeOK'
      BY <3>1, <3>2 DEF TypeOK
    <3>4. (Flying /\ FreeIsClean)'
      BY <3>1, <3>2 DEF Flying, FreeIsClean, TypeOK
    <3> QED
      BY <3>1, <3>3, <3>4 DEF CachedIsWhole, OneSnapshot, NoneServed
  <2> QED BY <2>1, <2>2
<1>5. ASSUME NEW b \in Builds, BuildFails(b) PROVE IInv'
  <2>1. /\ Throws(b, "failed") /\ build[b].pc # "free"
        /\ warm' \in BOOLEAN /\ limit' \in NodeLimits
    BY <1>5 DEF BuildFails, TypeOK
  <2> QED BY <2>1, ThrowsKeeps
<1>6. ASSUME NEW b \in Builds, IndexFile(b) PROVE IInv'
  <2>1. PICK now \in BuildState :
          /\ build' = [build EXCEPT ![b] = now] /\ now.pc = "indexing"
          /\ tree => now.lost = build[b].lost
    <3>1. PICK f \in build[b].todo :
            \/ /\ tree
               /\ build' = [build EXCEPT ![b].todo = @ \ {f}, ![b].rows = @ \cup {f}]
            \/ /\ tree
               /\ build' = [build EXCEPT ![b].todo = @ \ {f}]
            \/ /\ ~tree
               /\ build' = [build EXCEPT ![b].todo = @ \ {f}, ![b].lost = @ \cup {f}]
      BY <1>6 DEF IndexFile
    <3>2. build[b] \in BuildState /\ build[b].pc = "indexing" /\ f \in Sources
      BY <1>6, <3>1 DEF IndexFile, TypeOK, BuildState
    <3>3. build' = [build EXCEPT ![b] = build'[b]]
      BY <3>1 DEF TypeOK
    <3>4. /\ build'[b] \in BuildState /\ build'[b].pc = "indexing"
          /\ tree => build'[b].lost = build[b].lost
      BY <3>1, <3>2 DEF TypeOK, BuildState
    <3> QED BY <3>3, <3>4
  <2>2. UNCHANGED <<tree, graphDir, warm, limit, flight, cache, reply>>
    BY <1>6 DEF IndexFile
  <2>3. TypeOK'
    BY <2>1, <2>2 DEF TypeOK
  <2>4. (Flying /\ FreeIsClean)'
    BY <2>1, <2>2 DEF Flying, FreeIsClean, TypeOK
  <2> QED
    BY <2>2, <2>3, <2>4 DEF CachedIsWhole, OneSnapshot, NoneServed
<1>7. ASSUME NEW b \in Builds, BuildEnds(b) PROVE IInv'
  <2> DEFINE bd == [build EXCEPT ![b] = Free]
  <2>1. bd \in [Builds -> BuildState] /\ \A c \in FreeIn(bd) : bd[c].lost = {}
    BY Outcomes DEF TypeOK, FreeIsClean, FreeIn, Free
  <2>2. warm' \in BOOLEAN /\ limit' \in NodeLimits
    BY <1>7 DEF BuildEnds, TypeOK
  <2>3. CASE Live(b)
    <3>1. flight # None /\ Settle(FromGraph(b), bd)
      BY <1>7, <2>3 DEF BuildEnds, Live
    <3>2. FromGraph(b) \in Snapshot /\ FromGraph(b).lost = {}
      BY <2>3 DEF FromGraph, Snapshot, TypeOK, BuildState, Live, Flying
    <3> QED BY <2>1, <2>2, <3>1, <3>2, SettleKeeps
  <2>4. CASE ~Live(b)
    <3>1. /\ graphDir' = None /\ build' = bd
          /\ UNCHANGED <<tree, flight, cache, reply>>
      BY <1>7, <2>4 DEF BuildEnds
    <3>2. TypeOK'
      BY <2>1, <2>2, <3>1 DEF TypeOK
    <3>3. (Flying /\ FreeIsClean)'
      BY <2>1, <2>4, <3>1 DEF Live, Flying, FreeIsClean, FreeIn, TypeOK
    <3> QED
      BY <3>1, <3>2, <3>3 DEF CachedIsWhole, OneSnapshot, NoneServed
  <2> QED BY <2>3, <2>4
<1>8. CASE Timeout
  <2>1. /\ flight # None /\ cache' = cache
        /\ warm' \in BOOLEAN /\ limit' \in NodeLimits
        /\ Attempt(2, None, build, reply) \/ Reject(build, reply)
    BY <1>8 DEF Timeout, TypeOK
  <2>2. /\ cache = None /\ reply \in [Requests -> Reply]
        /\ \A r \in Requests : reply[r].state # "ok"
    BY <2>1 DEF Flying, NoneServed, TypeOK
  <2> QED BY <2>1, <2>2, FreeNow, AttemptKeeps, RejectKeeps
<1>9. CASE Restart
  <2>1. Tell(reply, Idle) \in [Requests -> Reply]
    BY TellType, Outcomes DEF TypeOK
  <2>2. TypeOK'
    BY <1>9, <2>1, Outcomes DEF Restart, TypeOK
  <2>3. (OneSnapshot /\ NoneServed)'
    BY <1>9 DEF Restart, OneSnapshot, NoneServed, Tell, Idle
  <2> QED
    BY <1>9, <2>2, <2>3 DEF Restart, CachedIsWhole, Flying, FreeIsClean, Free
<1>10. CASE UNCHANGED vars
  BY <1>10 DEF vars, TypeOK, CachedIsWhole, OneSnapshot, Flying, NoneServed, FreeIsClean
<1> QED
  BY <1>1, <1>2, <1>3, <1>4, <1>5, <1>6, <1>7, <1>8, <1>9, <1>10 DEF Next

LEMMA Inductive == Spec => []IInv
BY InitIInv, NextIInv, PTL DEF Spec

\* Every reachable state of the snapshot manager is typed.
THEOREM TypeCorrect == Spec => []TypeOK
<1>1. IInv => TypeOK BY DEF IInv
<1> QED BY <1>1, Inductive, PTL

\* A cached snapshot lacks no file for want of its checkout, whatever the
\* abandoned builds of the commit do at the same path.
THEOREM WholeInCache == Spec => []CachedIsWhole
<1>1. IInv => CachedIsWhole BY DEF IInv
<1> QED BY <1>1, Inductive, PTL

\* All callers of getOrBuildSnapshot that got a snapshot got the cached one.
THEOREM SameForAll == Spec => []OneSnapshot
<1>1. IInv => OneSnapshot BY DEF IInv
<1> QED BY <1>1, Inductive, PTL

(* One whole snapshot for every caller, in typed states only.              *)
THEOREM SnapshotsHold == Spec => []SnapshotsInv
<1>1. TypeOK /\ OneSnapshot /\ CachedIsWhole => SnapshotsInv
  BY DEF SnapshotsInv
<1> QED BY <1>1, TypeCorrect, SameForAll, WholeInCache, PTL
-----------------------------------------------------------------------------
(***************************************************************************)
(* Project, for any number of processes, directories and files and any     *)
(* calls.  What a command knows of the database it has open (ProcOK) holds *)
(* because others only add versions, columns and rows to it, or leave a    *)
(* mark on the command when they take more away: its lock, the rows or the *)
(* directory (Kept).  A database that no open accepts is accounted for by  *)
(* the init that makes it, one at a time past the version row, or by its   *)
(* kill (OneCreates, Made).                                                *)
(***************************************************************************)
Steps == {"version", "tables", "current", "migrating", "opened", "cleared", "writing"}
Ready == {"opened", "cleared", "writing"}

\* What the rows of a database tell of its schema.
Shape(db) ==
  /\ db.versions = {} \/ 1 \in db.versions
  /\ db.versions = {} => db.columns = "none"
  /\ db.columns \in {"none", "old"} => db.versions \subseteq {1}
  /\ db.columns = "old" => 1 \in db.versions

\* A command that has a database open, by its place in the code.
HoldsPlace(x) == x.pc \in Steps => x.db \in Dbs /\ (place[x.at].db = x.db \/ "removed" \in x.hit)
Creates(x) ==
  /\ x.pc = "tables" => dbs[x.db].versions = {1} /\ dbs[x.db].columns = "none"
  /\ x.pc = "current" => dbs[x.db].versions = {1} /\ dbs[x.db].columns = "full"
Migrates(x) == x.pc = "migrating" =>
  /\ 4 \in x.pending /\ (2 \in x.pending => 3 \in x.pending)
  /\ 3 \notin x.pending => 3 \in dbs[x.db].versions
  /\ 2 \notin x.pending /\ 3 \in x.pending => 2 \in dbs[x.db].versions
IsReady(x) == x.pc \in Ready => dbs[x.db].columns = "full" /\ 4 \in dbs[x.db].versions
HasLock(p, x) == x.pc = "writing" =>
  \/ place[x.at].lock # Nothing /\ place[x.at].lock.by = p
  \/ "robbed" \in x.hit \/ "removed" \in x.hit
Covers(x) == x.pc = "writing" /\ x.cmd # "sync" =>
  x.todo \union dbs[x.db].rows = Files \/ "cleared" \in x.hit

ProcOK(p) ==
  /\ HoldsPlace(proc[p]) /\ Creates(proc[p]) /\ Migrates(proc[p]) /\ IsReady(proc[p])
  /\ HasLock(p, proc[p]) /\ Covers(proc[p])

\* One init at a time is past the version row of a database.
OneCreates == \A p, q \in Procs :
  proc[p].pc \in {"tables", "current"} /\ proc[q].pc \in {"tables", "current"} /\ proc[p].db = proc[q].db => p = q

Distinct == \A d, e \in Dirs : place[d].db # 0 /\ place[d].db = place[e].db => d = e

\* A database that no open accepts is being made, or was when its init was killed.
Stage(x, db) ==
  \/ x.pc = "version" /\ db.versions = {}
  \/ x.pc = "tables" /\ db.versions = {1} /\ db.columns = "none"
  \/ x.pc = "current" /\ db.versions = {1} /\ db.columns = "full"
Sound(n) ==
  \/ dbs[n].columns = "old" \/ dbs[n].cut \/ ~(dbs[n].versions \subseteq {1})
  \/ \E p \in Procs : proc[p].db = n /\ Stage(proc[p], dbs[n])
Made == \A d \in Dirs : place[d].db # 0 => Sound(place[d].db)

PInv ==
  /\ ProjectTypeOK
  /\ \A n \in Dbs : Shape(dbs[n])
  /\ \A p \in Procs : ProcOK(p)
  /\ OneCreates /\ Distinct /\ Made
-----------------------------------------------------------------------------
\* What a step of one process leaves to another.
Calm(q) ==
  /\ proc'[q] \in Process
  /\ proc'[q].pc = proc[q].pc /\ proc'[q].cmd = proc[q].cmd /\ proc'[q].at = proc[q].at
  /\ proc'[q].db = proc[q].db /\ proc'[q].pending = proc[q].pending /\ proc'[q].todo = proc[q].todo
  /\ proc[q].hit \subseteq proc'[q].hit
PlaceKept(q) == proc[q].pc \in Steps =>
  /\ place'[proc[q].at].db = place[proc[q].at].db \/ "removed" \in proc'[q].hit
  /\ \/ place'[proc[q].at].lock = place[proc[q].at].lock
     \/ "robbed" \in proc'[q].hit \/ "removed" \in proc'[q].hit
     \/ place[proc[q].at].lock # Nothing => place[proc[q].at].lock.by # q
DbKept(q) == proc[q].pc \in Steps =>
  /\ dbs[proc[q].db].versions \subseteq dbs'[proc[q].db].versions
  /\ dbs[proc[q].db].columns = "full" => dbs'[proc[q].db].columns = "full"
  /\ dbs[proc[q].db].rows \subseteq dbs'[proc[q].db].rows \/ "cleared" \in proc'[q].hit
  /\ proc[q].pc \in {"tables", "current"} =>
       /\ dbs'[proc[q].db].versions = dbs[proc[q].db].versions
       /\ dbs'[proc[q].db].columns = dbs[proc[q].db].columns
Kept(q) == PlaceKept(q) /\ DbKept(q)

LEMMA CalmIsOK ==
  ASSUME PInv, NEW q \in Procs, Calm(q), Kept(q), dbs' \in [Dbs -> Database]
  PROVE  ProcOK(q)'
<1>1. ProcOK(q) /\ proc[q] \in Process
  BY DEF PInv, ProjectTypeOK
<1>2. HoldsPlace(proc[q])'
  BY <1>1 DEF ProcOK, HoldsPlace, Calm, Kept, PlaceKept, DbKept
<1>3. Creates(proc[q])'
  BY <1>1 DEF ProcOK, Creates, Calm, Kept, PlaceKept, DbKept, Steps
<1>4. Migrates(proc[q])'
  BY <1>1 DEF ProcOK, Migrates, Calm, Kept, PlaceKept, DbKept, Steps
<1>5. IsReady(proc[q])'
  BY <1>1 DEF ProcOK, IsReady, Calm, Kept, PlaceKept, DbKept, Steps, Ready
<1>6. HasLock(q, proc[q])'
  BY <1>1 DEF ProcOK, HasLock, Calm, Kept, PlaceKept, DbKept, Steps
<1>7. Covers(proc[q])'
  <2> SUFFICES ASSUME proc'[q].pc = "writing", proc'[q].cmd # "sync"
               PROVE  proc'[q].todo \union dbs'[proc'[q].db].rows = Files \/ "cleared" \in proc'[q].hit
    BY DEF Covers
  <2>1. proc[q].pc = "writing" /\ proc[q].cmd # "sync"
    BY DEF Calm
  <2>2. proc[q].todo \union dbs[proc[q].db].rows = Files \/ "cleared" \in proc[q].hit
    BY <2>1, <1>1 DEF ProcOK, Covers
  <2>3. dbs[proc[q].db].rows \subseteq dbs'[proc[q].db].rows \/ "cleared" \in proc'[q].hit
    BY <2>1 DEF Kept, DbKept, Steps
  <2>4. proc[q].db \in Dbs
    BY <2>1, <1>1 DEF ProcOK, HoldsPlace, Steps
  <2>5. dbs'[proc[q].db].rows \subseteq Files
    BY <2>4 DEF Database
  <2> QED BY <2>2, <2>3, <2>5, <1>1 DEF Calm, Process
<1> QED BY <1>2, <1>3, <1>4, <1>5, <1>6, <1>7 DEF ProcOK

\* The parts of a step of p.
LEMMA StepInv ==
  ASSUME PInv, NEW p \in Procs,
         proc' = [proc' EXCEPT ![p] = proc'[p]], DOMAIN proc' = Procs,
         place' \in [Dirs -> Place], dbs' \in [Dbs -> Database], proc'[p] \in Process,
         \A q \in Procs \ {p} : Calm(q) /\ Kept(q),
         ProcOK(p)', \A n \in Dbs : Shape(dbs[n])',
         proc'[p].pc \in {"tables", "current"} =>
           \A q \in Procs \ {p} : ~(proc[q].pc \in {"tables", "current"} /\ proc[q].db = proc'[p].db),
         Distinct', Made'
  PROVE  PInv'
<1>1. proc' \in [Procs -> Process]
  BY DEF Calm
<1>2. \A q \in Procs : ProcOK(q)'
  BY CalmIsOK
<1>3. OneCreates'
  BY DEF OneCreates, Calm, PInv
<1> QED BY <1>1, <1>2, <1>3 DEF PInv, ProjectTypeOK

\* A database stays accounted for when p was not at work on its schema.
LEMMA SoundStays ==
  ASSUME NEW p \in Procs, NEW n \in Dbs, Sound(n),
         dbs'[n].versions = dbs[n].versions, dbs'[n].columns = dbs[n].columns, dbs[n].cut => dbs'[n].cut,
         \A q \in Procs \ {p} : Calm(q),
         ~(proc[p].db = n /\ Stage(proc[p], dbs[n]))
  PROVE  Sound(n)'
<1>1. CASE dbs[n].columns = "old" \/ dbs[n].cut \/ ~(dbs[n].versions \subseteq {1})
  BY <1>1 DEF Sound
<1>2. CASE \E q \in Procs : proc[q].db = n /\ Stage(proc[q], dbs[n])
  <2>1. PICK q \in Procs : proc[q].db = n /\ Stage(proc[q], dbs[n])
    BY <1>2
  <2>2. q # p
    BY <2>1
  <2>3. proc'[q].db = n /\ Stage(proc'[q], dbs'[n])
    BY <2>1, <2>2 DEF Calm, Stage
  <2> QED BY <2>3 DEF Sound
<1> QED BY <1>1, <1>2 DEF Sound

\* Databases that somebody has are as the step says, the others fresh.
LEMMA DbsStay ==
  ASSUME NEW new \in [Dbs -> Database], \A n \in Dbs : Shape(new[n]), DbsBecome(new)
  PROVE  /\ dbs' \in [Dbs -> Database] /\ \A n \in Dbs : Shape(dbs[n])'
         /\ \A n \in Dbs : (\E d \in Dirs : place'[d].db = n) \/ (\E q \in Procs : proc'[q].db = n) => dbs'[n] = new[n]
<1>1. Fresh \in Database /\ Shape(Fresh)
  BY DEF Fresh, Database, Shape
<1>2. \A n \in Dbs : dbs'[n] = IF InUse(n, place', proc') THEN new[n] ELSE Fresh
  BY DEF DbsBecome
<1>3. dbs' = [n \in Dbs |-> dbs'[n]]
  BY DEF DbsBecome
<1>4. \A n \in Dbs : dbs'[n] \in Database /\ Shape(dbs'[n])
  BY <1>1, <1>2
<1>5. dbs' \in [Dbs -> Database]
  BY <1>3, <1>4
<1> QED BY <1>2, <1>4, <1>5 DEF InUse

\* A step of p that changes no database, and leaves no schema unfinished.
LEMMA SameDatabases ==
  ASSUME PInv, NEW p \in Procs,
         proc' = [proc' EXCEPT ![p] = proc'[p]], DOMAIN proc' = Procs, proc'[p] \in Process,
         place' \in [Dirs -> Place], \A d \in Dirs : place'[d].db \in {0, place[d].db},
         dbs' = dbs \/ DbsBecome(dbs),
         ~Stage(proc[p], dbs[proc[p].db]), proc'[p].pc \notin {"tables", "current"},
         ProcOK(p)', \A q \in Procs \ {p} : Calm(q) /\ PlaceKept(q)
  PROVE  PInv'
<1>1. /\ place \in [Dirs -> Place] /\ dbs \in [Dbs -> Database] /\ proc \in [Procs -> Process]
      /\ \A n \in Dbs : Shape(dbs[n])
  BY DEF PInv, ProjectTypeOK
<1>2. /\ dbs' \in [Dbs -> Database] /\ \A n \in Dbs : Shape(dbs[n])'
      /\ \A n \in Dbs : (\E d \in Dirs : place'[d].db = n) \/ (\E q \in Procs : proc'[q].db = n) => dbs'[n] = dbs[n]
  <2>1. CASE dbs' = dbs
    BY <1>1, <2>1 DEF Shape
  <2>2. CASE DbsBecome(dbs)
    BY <1>1, <2>2, DbsStay
  <2> QED BY <2>1, <2>2
<1>4. \A q \in Procs \ {p} : proc[q].pc \in Steps => dbs'[proc[q].db] = dbs[proc[q].db]
  BY <1>2 DEF PInv, ProcOK, HoldsPlace, Calm
<1>5. \A q \in Procs \ {p} : Calm(q) /\ Kept(q)
  BY <1>4 DEF Kept, DbKept
<1>6. Made'
  <2> SUFFICES ASSUME NEW d \in Dirs, place'[d].db # 0 PROVE Sound(place[d].db)'
    BY DEF Made
  <2>0. PICK n \in Dbs : n = place[d].db /\ n = place'[d].db
    BY <1>1 DEF Place
  <2>1. ~(proc[p].db = n /\ Stage(proc[p], dbs[n]))
    OBVIOUS
  <2>2. Sound(n)
    BY <2>0 DEF PInv, Made
  <2>3. dbs'[n] = dbs[n]
    BY <1>2, <2>0
  <2>4. Sound(n)'
    BY <1>5, <2>1, <2>2, <2>3, SoundStays
  <2> QED BY <2>0, <2>4
<1>7. Distinct'
  BY DEF PInv, Distinct
<1> QED BY <1>1, <1>2, <1>5, <1>6, <1>7, StepInv

\* A step of p alone.
LEMMA LocalStep ==
  ASSUME PInv, NEW p \in Procs, NEW x \in Process, proc' = [proc EXCEPT ![p] = x], place' = place,
         dbs' = dbs \/ DbsBecome(dbs),
         ~Stage(proc[p], dbs[proc[p].db]), x.pc \notin {"tables", "current"}, ProcOK(p)'
  PROVE  PInv'
<1>1. place \in [Dirs -> Place] /\ proc \in [Procs -> Process]
  BY DEF PInv, ProjectTypeOK
<1>2. proc' = [proc' EXCEPT ![p] = proc'[p]] /\ DOMAIN proc' = Procs /\ proc'[p] = x
  BY <1>1
<1>3. \A q \in Procs \ {p} : Calm(q) /\ PlaceKept(q)
  BY <1>1 DEF Calm, PlaceKept
<1> QED BY <1>1, <1>2, <1>3, SameDatabases

-----------------------------------------------------------------------------
(* The commands.                                                           *)

LEMMA IdleIsProcess ==
  /\ NoCommand \in Process /\ \A code \in {0, 1} : Ended(code) \in Process /\ Ended(code).pc = "idle"
  /\ \A cmd \in Commands, d \in Dirs :
       [NoCommand EXCEPT !.pc = "loading", !.cmd = cmd, !.at = d] \in Process
<1>1. 1 \in Dirs
  BY ProjectAssumption DEF Dirs
<1>2. NoCommand \in Process
  BY <1>1 DEF NoCommand, Process, Commands
<1>3. \A code \in {0, 1} : Ended(code) \in Process
  BY <1>2 DEF Ended, NoCommand, Process
<1>4. \A code \in {0, 1} : Ended(code).pc = "idle"
  BY DEF Ended, NoCommand
<1>5. \A cmd \in Commands, d \in Dirs :
        [NoCommand EXCEPT !.pc = "loading", !.cmd = cmd, !.at = d] \in Process
  BY <1>2 DEF NoCommand, Process
<1> QED BY <1>2, <1>3, <1>4, <1>5

\* Who is at none of the steps owes nothing.
LEMMA NotAtWork ==
  ASSUME NEW p \in Procs, proc'[p].pc \notin Steps
  PROVE  ProcOK(p)'
BY DEF ProcOK, HoldsPlace, Creates, Migrates, IsReady, HasLock, Covers, Steps, Ready

LEMMA EndStep ==
  ASSUME PInv, NEW p \in Procs, NEW code \in {0, 1}, Ends(p, code), place' = place,
         dbs' = dbs \/ DbsBecome(dbs), ~Stage(proc[p], dbs[proc[p].db])
  PROVE  PInv'
<1>1. Ended(code) \in Process /\ Ended(code).pc = "idle"
  BY IdleIsProcess
<1>2. proc' = [proc EXCEPT ![p] = Ended(code)] /\ proc'[p] = Ended(code)
  BY DEF Ends, PInv, ProjectTypeOK
<1>3. ProcOK(p)'
  BY <1>1, <1>2, NotAtWork DEF Steps
<1> QED BY <1>1, <1>2, <1>3, LocalStep DEF Steps

\* A step outside the work on a schema.
LEMMA NoStage ==
  ASSUME NEW x, x.pc \notin Creating, NEW db
  PROVE  ~Stage(x, db)
BY DEF Stage, Creating

LEMMA StartInitInv == ASSUME PInv, NEW p \in Procs, NEW cmd \in Commands, NEW d \in Dirs, StartInit(p, cmd, d) PROVE PInv'
<1>1. proc[p].pc = "idle" /\ place' = place /\ dbs' = dbs
  BY DEF StartInit
<1>2. ~Stage(proc[p], dbs[proc[p].db])
  BY <1>1, NoStage DEF Creating
<1>3. CASE Ends(p, 0)
  BY <1>1, <1>2, <1>3, EndStep
<1>4. CASE proc' = [proc EXCEPT ![p] = [NoCommand EXCEPT !.pc = "loading", !.cmd = cmd, !.at = d]]
  <2>1. PICK x \in Process : x = [NoCommand EXCEPT !.pc = "loading", !.cmd = cmd, !.at = d]
    BY IdleIsProcess
  <2>2. x.pc = "loading"
    BY <2>1 DEF NoCommand
  <2>3. proc' = [proc EXCEPT ![p] = x] /\ proc'[p] = x
    BY <1>4, <2>1 DEF PInv, ProjectTypeOK
  <2>4. ProcOK(p)'
    BY <2>2, <2>3, NotAtWork DEF Steps
  <2> QED BY <1>1, <1>2, <2>2, <2>3, <2>4, LocalStep DEF Steps
<1> QED BY <1>3, <1>4 DEF StartInit

LEMMA StartOnInv == ASSUME PInv, NEW p \in Procs, NEW cmd \in Commands, NEW d \in Dirs, StartOn(p, cmd, d) PROVE PInv'
<1>1. proc[p].pc = "idle" /\ place' = place /\ dbs' = dbs
  BY DEF StartOn
<1>2. ~Stage(proc[p], dbs[proc[p].db])
  BY <1>1, NoStage DEF Creating
<1>3. CASE Ends(p, 0) \/ Ends(p, 1)
  BY <1>1, <1>2, <1>3, EndStep
<1>4. CASE \E at \in Dirs : proc' = [proc EXCEPT ![p] = [NoCommand EXCEPT !.pc = "loading", !.cmd = cmd, !.at = at]]
  <2>0. PICK at \in Dirs : proc' = [proc EXCEPT ![p] = [NoCommand EXCEPT !.pc = "loading", !.cmd = cmd, !.at = at]]
    BY <1>4
  <2>1. PICK x \in Process : x = [NoCommand EXCEPT !.pc = "loading", !.cmd = cmd, !.at = at]
    BY IdleIsProcess
  <2>2. x.pc = "loading"
    BY <2>1 DEF NoCommand
  <2>3. proc' = [proc EXCEPT ![p] = x] /\ proc'[p] = x
    BY <2>0, <2>1 DEF PInv, ProjectTypeOK
  <2>4. ProcOK(p)'
    BY <2>2, <2>3, NotAtWork DEF Steps
  <2> QED BY <1>1, <1>2, <2>2, <2>3, <2>4, LocalStep DEF Steps
<1> QED BY <1>3, <1>4 DEF StartOn

\* Declining, reading and being told no end a command and change nothing else.
LEMMA QuietEnd == ASSUME PInv, NEW p \in Procs, Decline(p) \/ ReportStatus(p) \/ Search(p) PROVE PInv'
<1>1. place' = place /\ (dbs' = dbs \/ DbsBecome(dbs)) /\ Ends(p, 0) /\ proc[p].pc \notin Creating
  BY DEF Decline, ReportStatus, Search, Creating
<1> QED BY <1>1, NoStage, EndStep

LEMMA OpenInv == ASSUME PInv, NEW p \in Procs, Open(p) PROVE PInv'
<1> DEFINE n == place[proc[p].at].db
           pending == Pending(dbs[n])
           pc == IF pending = {} THEN "opened" ELSE "migrating"
           open == [proc[p] EXCEPT !.db = n, !.pending = pending, !.pc = pc]
<1>1. proc[p].pc = "loading" /\ place' = place /\ dbs' = dbs
  BY DEF Open
<1>2. ~Stage(proc[p], dbs[proc[p].db])
  BY <1>1, NoStage DEF Creating
<1>3. CASE n = 0
  <2>1. Ends(p, 1)
    BY <1>3 DEF Open
  <2> QED BY <1>1, <1>2, <2>1, EndStep
<1>4. CASE n # 0
  <2>1. proc[p] \in Process /\ n \in Dbs /\ dbs[n] \in Database /\ Shape(dbs[n])
    BY <1>4 DEF PInv, ProjectTypeOK, Process, Place
  <2>2. open \in Process
    <3>1. pending \subseteq 2 .. CURRENT_SCHEMA_VERSION
      BY DEF Pending
    <3>2. pc \in {"opened", "migrating"}
      OBVIOUS
    <3> HIDE DEF n, pending, pc
    <3> QED BY <2>1, <3>1, <3>2 DEF Process
  <2>3. PICK x \in Process : x = open
    BY <2>2
  <2>4. x.db = n /\ x.pending = pending /\ x.at = proc[p].at /\ x.pc = pc
    <3> HIDE DEF n, pending, pc
    <3> QED BY <2>1, <2>3 DEF Process
  <2>5. proc' = [proc EXCEPT ![p] = x] /\ proc'[p] = x
    BY <1>4, <2>3 DEF Open, PInv, ProjectTypeOK
  <2>6. HoldsPlace(x)' /\ Creates(x)' /\ HasLock(p, x)' /\ Covers(x)'
    BY <1>1, <2>1, <2>4 DEF HoldsPlace, Creates, HasLock, Covers
  <2>7. dbs[n].versions \subseteq 1 .. 4
    BY <2>1 DEF Database, CURRENT_SCHEMA_VERSION
  <2>8. Migrates(x)'
    <3> SUFFICES ASSUME Pending(dbs[n]) # {}
                 PROVE  /\ 4 \in Pending(dbs[n]) /\ (2 \in Pending(dbs[n]) => 3 \in Pending(dbs[n]))
                        /\ 3 \notin Pending(dbs[n]) => 3 \in dbs[n].versions
                        /\ 2 \notin Pending(dbs[n]) /\ 3 \in Pending(dbs[n]) => 2 \in dbs[n].versions
      BY <1>1, <2>4 DEF Migrates
    <3> QED BY <2>7 DEF Pending, CURRENT_SCHEMA_VERSION
  <2>9. IsReady(x)'
    <3> SUFFICES ASSUME Pending(dbs[n]) = {} PROVE dbs[n].columns = "full" /\ 4 \in dbs[n].versions
      BY <1>1, <2>4 DEF IsReady, Ready
    <3>1. 4 \in dbs[n].versions
      BY <2>7 DEF Pending, CURRENT_SCHEMA_VERSION
    <3>2. ~(dbs[n].versions \subseteq {1}) /\ dbs[n].columns \in {"none", "old", "full"}
      BY <2>1, <3>1 DEF Database
    <3> QED BY <2>1, <3>1, <3>2 DEF Shape
  <2>10. ProcOK(p)'
    BY <2>5, <2>6, <2>8, <2>9 DEF ProcOK
  <2>11. x.pc \notin {"tables", "current"}
    BY <2>4
  <2> QED BY <1>1, <1>2, <2>1, <2>4, <2>5, <2>10, <2>11, LocalStep
<1> QED BY <1>3, <1>4

LEMMA CreateDirectoryInv == ASSUME PInv, NEW p \in Procs, CreateDirectory(p) PROVE PInv'
<1> DEFINE d == proc[p].at
<1>1. proc[p].pc = "loading" /\ dbs' = dbs /\ d \in Dirs
      /\ place \in [Dirs -> Place] /\ proc \in [Procs -> Process]
  BY DEF CreateDirectory, PInv, ProjectTypeOK, Process
<1>2. ~Stage(proc[p], dbs[proc[p].db])
  BY <1>1, NoStage DEF Creating
<1>3. CASE Initialized(d)
  <2>1. Ends(p, 1) /\ place' = place
    BY <1>3 DEF CreateDirectory
  <2> QED BY <1>1, <1>2, <2>1, EndStep
<1>4. CASE ~Initialized(d)
  <2>1. place' = [place EXCEPT ![d].made = TRUE] /\ proc' = [proc EXCEPT ![p].pc = "creating"]
    BY <1>4 DEF CreateDirectory, Continues
  <2>2. place' \in [Dirs -> Place] /\ \A e \in Dirs : place'[e].db = place[e].db /\ place'[e].lock = place[e].lock
    BY <1>1, <2>1 DEF Place
  <2>3. proc'[p] \in Process /\ proc'[p].pc = "creating"
    BY <1>1, <2>1 DEF Process
  <2>4. proc' = [proc' EXCEPT ![p] = proc'[p]] /\ DOMAIN proc' = Procs /\ \A q \in Procs \ {p} : proc'[q] = proc[q]
    BY <1>1, <2>1
  <2>5. \A q \in Procs \ {p} : Calm(q) /\ PlaceKept(q)
    BY <1>1, <2>2, <2>4 DEF Calm, PlaceKept, Process
  <2>6. ProcOK(p)'
    BY <2>3, NotAtWork DEF Steps
  <2> QED BY <1>1, <1>2, <2>2, <2>3, <2>4, <2>5, <2>6, SameDatabases
<1> QED BY <1>3, <1>4

\* What the robbed owner of a lock remembers.
LEMMA RobbingCalm ==
  ASSUME PInv, NEW q \in Procs, NEW lock, proc'[q] = Robbing(lock)[q]
  PROVE  Calm(q) /\ (lock # Nothing /\ lock.by = q => "robbed" \in proc'[q].hit)
<1>1. proc'[q] = IF lock # Nothing /\ lock.by = q THEN [proc[q] EXCEPT !.hit = @ \union {"robbed"}] ELSE proc[q]
  BY DEF Robbing
<1>2. proc[q] \in Process
  BY DEF PInv, ProjectTypeOK
<1> QED BY <1>1, <1>2 DEF Calm, Process

LEMMA UnlockInv == ASSUME PInv, NEW p \in Procs, NEW d \in Dirs, Unlock(p, d) PROVE PInv'
<1>1. proc[p].pc = "idle" /\ dbs' = dbs /\ place \in [Dirs -> Place] /\ proc \in [Procs -> Process]
  BY DEF Unlock, PInv, ProjectTypeOK
<1>2. ~Stage(proc[p], dbs[proc[p].db])
  BY <1>1, NoStage DEF Creating
<1>3. CASE Ends(p, 0) /\ place' = place
  BY <1>1, <1>2, <1>3, EndStep
<1>4. CASE \E at \in Dirs : /\ place' = [place EXCEPT ![at].lock = Nothing]
                           /\ proc' = [Robbing(place[at].lock) EXCEPT ![p] = Ended(0)]
  <2>1. PICK at \in Dirs : /\ place' = [place EXCEPT ![at].lock = Nothing]
                          /\ proc' = [Robbing(place[at].lock) EXCEPT ![p] = Ended(0)]
    BY <1>4
  <2>2. /\ place' \in [Dirs -> Place] /\ \A e \in Dirs : place'[e].db = place[e].db
        /\ \A e \in Dirs : e # at => place'[e] = place[e]
    BY <1>1, <2>1 DEF Place
  <2>3. /\ proc' = [proc' EXCEPT ![p] = proc'[p]] /\ DOMAIN proc' = Procs /\ proc'[p] = Ended(0)
    BY <2>1 DEF Robbing
  <2>4. proc'[p] \in Process /\ proc'[p].pc = "idle"
    BY <2>3, IdleIsProcess
  <2>5. \A q \in Procs \ {p} :
          Calm(q) /\ (place[at].lock # Nothing /\ place[at].lock.by = q => "robbed" \in proc'[q].hit)
    <3> TAKE q \in Procs \ {p}
    <3>1. proc'[q] = Robbing(place[at].lock)[q]
      BY <2>1 DEF Robbing
    <3> QED BY <3>1, RobbingCalm
  <2>6. \A q \in Procs \ {p} : PlaceKept(q)
    BY <1>1, <2>2, <2>5 DEF PlaceKept, Process
  <2>7. ProcOK(p)'
    BY <2>4, NotAtWork DEF Steps
  <2> QED BY <1>1, <1>2, <2>2, <2>3, <2>4, <2>5, <2>6, <2>7, SameDatabases
<1> QED BY <1>3, <1>4 DEF Unlock

LEMMA UninitializeInv == ASSUME PInv, NEW p \in Procs, Uninitialize(p) PROVE PInv'
<1>1. /\ proc[p].pc = "opened" /\ DbsBecome(dbs) /\ proc[p].at \in Dirs
      /\ place \in [Dirs -> Place] /\ proc \in [Procs -> Process]
  BY DEF Uninitialize, PInv, ProjectTypeOK, Process
<1>2. ~Stage(proc[p], dbs[proc[p].db])
  BY <1>1, NoStage DEF Creating
<1>3. PICK d \in Dirs : d = proc[p].at
  BY <1>1
<1>4. /\ place' = [place EXCEPT ![d] = Nowhere]
      /\ proc' = [Hitting(p, place[d].db, "removed") EXCEPT ![p] = Ended(0)]
  BY <1>3 DEF Uninitialize
<1>5. Nowhere \in Place /\ Nowhere.db = 0
  BY DEF Nowhere, Place
<1>6. place' \in [Dirs -> Place] /\ place'[d] = Nowhere /\ \A e \in Dirs : e # d => place'[e] = place[e]
  BY <1>1, <1>4, <1>5
<1>7. /\ proc' = [proc' EXCEPT ![p] = proc'[p]] /\ DOMAIN proc' = Procs /\ proc'[p] = Ended(0)
  BY <1>4 DEF Hitting
<1>8. proc'[p] \in Process /\ proc'[p].pc = "idle"
  BY <1>7, IdleIsProcess
<1>9. \A q \in Procs \ {p} : Calm(q) /\ (Holds(q, place[d].db) => "removed" \in proc'[q].hit)
  <2> TAKE q \in Procs \ {p}
  <2>1. proc'[q] = IF Holds(q, place[d].db) THEN [proc[q] EXCEPT !.hit = @ \union {"removed"}] ELSE proc[q]
    BY <1>4 DEF Hitting
  <2> QED BY <1>1, <2>1 DEF Calm, Process
<1>10. \A q \in Procs \ {p} : PlaceKept(q)
  <2> SUFFICES ASSUME NEW q \in Procs \ {p}, proc[q].pc \in Steps PROVE PlaceKept(q)
    BY DEF PlaceKept
  <2>1. HoldsPlace(proc[q])
    BY DEF PInv, ProcOK
  <2>2. CASE proc[q].at # d
    BY <1>1, <1>6, <2>2 DEF PlaceKept, Process
  <2>3. CASE proc[q].at = d
    <3>1. "removed" \in proc'[q].hit
      BY <1>9, <2>1, <2>3 DEF HoldsPlace, Holds, Steps, Calm
    <3> QED BY <3>1 DEF PlaceKept
  <2> QED BY <2>2, <2>3
<1>11. ProcOK(p)'
  BY <1>8, NotAtWork DEF Steps
<1>12. \A e \in Dirs : place'[e].db \in {0, place[e].db}
  BY <1>5, <1>6
<1> QED BY <1>1, <1>2, <1>6, <1>7, <1>8, <1>9, <1>10, <1>11, <1>12, SameDatabases

LEMMA AcquireInv == ASSUME PInv, NEW p \in Procs, Acquire(p) PROVE PInv'
<1>1. /\ proc[p].pc \in {"opened", "cleared"} /\ DbsBecome(dbs) /\ proc[p] \in Process /\ ProcOK(p)
      /\ place \in [Dirs -> Place] /\ proc \in [Procs -> Process] /\ dbs \in [Dbs -> Database]
  BY DEF Acquire, PInv, ProjectTypeOK
<1>2. ~Stage(proc[p], dbs[proc[p].db])
  BY <1>1, NoStage DEF Creating
<1>3. CASE place' = place /\ (Ends(p, 0) \/ Ends(p, 1))
  BY <1>1, <1>2, <1>3, EndStep
<1>4. CASE ~(place' = place /\ (Ends(p, 0) \/ Ends(p, 1)))
  <2>1. PICK d \in Dirs : d = proc[p].at
    BY <1>1 DEF Process
  <2>2. PICK S \in SUBSET Files :
          /\ proc[p].cmd # "sync" => S = Files
          /\ place' = [place EXCEPT ![d].lock = [by |-> p, stale |-> FALSE]]
          /\ proc' = [Robbing(place[d].lock) EXCEPT ![p].pc = "writing", ![p].todo = S]
    BY <1>4, <2>1 DEF Acquire
  <2>3. PICK x \in Process : x = Robbing(place[d].lock)[p] /\ x.pc = proc[p].pc /\ x.cmd = proc[p].cmd
          /\ x.at = d /\ x.db = proc[p].db /\ proc[p].hit \subseteq x.hit
    <3>1. Robbing(place[d].lock)[p] \in {proc[p], [proc[p] EXCEPT !.hit = @ \union {"robbed"}]}
      BY DEF Robbing
    <3>2. PICK x : x = Robbing(place[d].lock)[p]
      OBVIOUS
    <3> QED BY <1>1, <2>1, <3>1, <3>2 DEF Process
  <2>4. PICK y \in Process : y = [x EXCEPT !.pc = "writing", !.todo = S]
    BY DEF Process
  <2>5. y.pc = "writing" /\ y.todo = S /\ y.cmd = proc[p].cmd /\ y.at = d /\ y.db = proc[p].db /\ y.hit = x.hit
    BY <2>3, <2>4 DEF Process
  <2>6. proc' = [Robbing(place[d].lock) EXCEPT ![p] = y]
    BY <2>2, <2>3, <2>4 DEF Robbing
  <2>7. proc'[p] = y /\ proc' = [proc' EXCEPT ![p] = proc'[p]] /\ DOMAIN proc' = Procs
    BY <2>6 DEF Robbing
  <2>8. \A q \in Procs \ {p} :
          Calm(q) /\ (place[d].lock # Nothing /\ place[d].lock.by = q => "robbed" \in proc'[q].hit)
    <3> TAKE q \in Procs \ {p}
    <3>1. proc'[q] = Robbing(place[d].lock)[q]
      BY <2>6 DEF Robbing
    <3> QED BY <3>1, RobbingCalm
  <2>9. [by |-> p, stale |-> FALSE] \in Lock /\ [by |-> p, stale |-> FALSE] # Nothing
    <3>1. [by |-> p, stale |-> FALSE] \in Lock
      BY DEF Lock
    <3> QED BY <3>1, ProjectAssumption
  <2>10. /\ place' \in [Dirs -> Place] /\ \A e \in Dirs : place'[e].db = place[e].db
         /\ \A e \in Dirs : e # d => place'[e] = place[e]
         /\ place'[d].lock = [by |-> p, stale |-> FALSE]
    BY <1>1, <2>2, <2>9 DEF Place
  <2>11. \A q \in Procs \ {p} : PlaceKept(q)
    BY <1>1, <2>8, <2>10 DEF PlaceKept, Process
  <2>12. proc[p].db \in Dbs /\ dbs'[proc[p].db] = dbs[proc[p].db]
    <3>1. proc[p].db \in Dbs
      BY <1>1 DEF ProcOK, HoldsPlace, Steps
    <3>2. InUse(proc[p].db, place', proc')
      BY <2>5, <2>7 DEF InUse
    <3> QED BY <1>1, <3>1, <3>2 DEF DbsBecome
  <2>13. HoldsPlace(y)'
    BY <1>1, <2>1, <2>3, <2>5, <2>10 DEF ProcOK, HoldsPlace, Steps
  <2>14. Creates(y)' /\ Migrates(y)'
    BY <2>5 DEF Creates, Migrates
  <2>15. IsReady(y)'
    BY <1>1, <2>5, <2>12 DEF ProcOK, IsReady, Ready
  <2>16. HasLock(p, y)'
    BY <2>5, <2>9, <2>10 DEF HasLock
  <2>17. Covers(y)'
    <3>1. dbs[proc[p].db].rows \subseteq Files
      BY <1>1, <2>12 DEF Database
    <3> QED BY <2>2, <2>5, <2>12, <3>1 DEF Covers
  <2>18. ProcOK(p)'
    BY <2>7, <2>13, <2>14, <2>15, <2>16, <2>17 DEF ProcOK
  <2> QED BY <1>1, <1>2, <2>5, <2>7, <2>8, <2>10, <2>11, <2>18, SameDatabases
<1> QED BY <1>3, <1>4

LEMMA FinishInv == ASSUME PInv, NEW p \in Procs, Finish(p) PROVE PInv'
<1>1. /\ proc[p].pc = "writing" /\ DbsBecome(dbs) /\ place' = Released(p) /\ Ends(p, 0)
      /\ place \in [Dirs -> Place] /\ proc \in [Procs -> Process]
  BY DEF Finish, PInv, ProjectTypeOK
<1>2. ~Stage(proc[p], dbs[proc[p].db])
  BY <1>1, NoStage DEF Creating
<1>3. proc'[p] = Ended(0) /\ proc' = [proc' EXCEPT ![p] = proc'[p]] /\ DOMAIN proc' = Procs
      /\ \A q \in Procs \ {p} : proc'[q] = proc[q]
  BY <1>1 DEF Ends
<1>4. proc'[p] \in Process /\ proc'[p].pc = "idle"
  BY <1>3, IdleIsProcess
<1>5. \A e \in Dirs : place'[e] = IF place[e].lock # Nothing /\ place[e].lock.by = p /\ e = proc[p].at
                                    THEN [place[e] EXCEPT !.lock = Nothing] ELSE place[e]
  BY <1>1 DEF Released
<1>6. \A e \in Dirs : place'[e] \in Place /\ place'[e].db = place[e].db
  BY <1>1, <1>5 DEF Place
<1>7. place' \in [Dirs -> Place]
  BY <1>1, <1>6 DEF Released
<1>8. \A q \in Procs \ {p} : Calm(q) /\ PlaceKept(q)
  BY <1>1, <1>3, <1>5, <1>6 DEF Calm, PlaceKept, Process
<1>9. ProcOK(p)'
  BY <1>4, NotAtWork DEF Steps
<1> QED BY <1>1, <1>2, <1>3, <1>4, <1>6, <1>7, <1>8, <1>9, SameDatabases

LEMMA AgeInv == ASSUME PInv, NEW d \in Dirs, Age(d) PROVE PInv'
<1>1. /\ place' = [place EXCEPT ![d].lock.stale = TRUE] /\ place[d].lock # Nothing /\ dbs' = dbs /\ proc' = proc
      /\ place \in [Dirs -> Place] /\ proc \in [Procs -> Process] /\ dbs \in [Dbs -> Database]
  BY DEF Age, PInv, ProjectTypeOK
<1>2. place[d].lock \in Lock
  BY <1>1 DEF Place
<1>3. PICK l \in Lock : l = [place[d].lock EXCEPT !.stale = TRUE] /\ l.by = place[d].lock.by /\ l # Nothing
  <2>1. PICK l : l = [place[d].lock EXCEPT !.stale = TRUE]
    OBVIOUS
  <2>2. l \in Lock /\ l.by = place[d].lock.by
    BY <1>2, <2>1 DEF Lock
  <2> QED BY <2>1, <2>2, ProjectAssumption
<1>4. place'[d] = [place[d] EXCEPT !.lock = l] /\ \A e \in Dirs : e # d => place'[e] = place[e]
  BY <1>1, <1>3
<1>5. place'[d] \in Place /\ place'[d].db = place[d].db /\ place'[d].lock = l
  BY <1>1, <1>4 DEF Place
<1>6. place' \in [Dirs -> Place] /\ \A e \in Dirs : place'[e].db = place[e].db
  BY <1>1, <1>4, <1>5
<1>7. \A q \in Procs : ProcOK(q)'
  <2> TAKE q \in Procs
  <2>1. ProcOK(q) /\ proc[q].at \in Dirs
    BY <1>1 DEF PInv, Process
  <2>2. HoldsPlace(proc[q])' /\ Creates(proc[q])' /\ Migrates(proc[q])' /\ IsReady(proc[q])' /\ Covers(proc[q])'
    BY <1>1, <1>6, <2>1 DEF ProcOK, HoldsPlace, Creates, Migrates, IsReady, Covers
  <2>3. HasLock(q, proc[q])'
    BY <1>1, <1>3, <1>4, <1>5, <2>1 DEF ProcOK, HasLock
  <2> QED BY <2>2, <2>3 DEF ProcOK
<1>8. (\A n \in Dbs : Shape(dbs[n])') /\ OneCreates' /\ Distinct'
  BY <1>1, <1>6 DEF PInv, OneCreates, Distinct, Shape
<1>9. Made'
  <2> SUFFICES ASSUME NEW e \in Dirs, place'[e].db # 0 PROVE Sound(place[e].db)'
    BY DEF Made
  <2>1. PICK n \in Dbs : n = place'[e].db /\ n = place[e].db
    BY <1>1, <1>6 DEF Place
  <2>2. Sound(n)
    BY <2>1 DEF PInv, Made
  <2>3. Sound(n)'
    BY <1>1, <2>2 DEF Sound, Stage
  <2> QED BY <2>1, <2>3
<1> QED BY <1>1, <1>6, <1>7, <1>8, <1>9 DEF PInv, ProjectTypeOK
-----------------------------------------------------------------------------
(* What changes a database.                                                *)

\* What p makes of the database n that it has open, for those that have it too.
Grows(p, n, new) ==
  /\ dbs[n].versions \subseteq new.versions
  /\ dbs[n].columns = "full" => new.columns = "full"
  /\ \A q \in Procs \ {p} : proc[q].db = n /\ proc[q].pc \in Steps =>
       /\ dbs[n].rows \subseteq new.rows \/ "cleared" \in proc'[q].hit
       /\ proc[q].pc \in {"tables", "current"} =>
            /\ new.versions = dbs[n].versions /\ new.columns = dbs[n].columns
            /\ proc'[p].pc \notin {"tables", "current"}

LEMMA DatabaseStep ==
  ASSUME PInv, NEW p \in Procs, NEW n \in Dbs, n = proc[p].db, NEW new \in Database,
         proc' = [proc' EXCEPT ![p] = proc'[p]], DOMAIN proc' = Procs, proc'[p] \in Process,
         place' \in [Dirs -> Place], \A d \in Dirs : place'[d].db = place[d].db,
         dbs' = [dbs EXCEPT ![n] = new] \/ DbsBecome([dbs EXCEPT ![n] = new]),
         Shape(new), Grows(p, n, new),
         proc'[p].pc \in {"tables", "current"} => proc'[p].db = n,
         ProcOK(p)', \A q \in Procs \ {p} : Calm(q) /\ PlaceKept(q),
         \/ new.columns = "old" \/ new.cut \/ ~(new.versions \subseteq {1})
         \/ \E q \in Procs : proc'[q].db = n /\ Stage(proc'[q], new)
  PROVE  PInv'
<1>1. /\ place \in [Dirs -> Place] /\ dbs \in [Dbs -> Database] /\ proc \in [Procs -> Process]
      /\ \A m \in Dbs : Shape(dbs[m])
  BY DEF PInv, ProjectTypeOK
<1>2. PICK all \in [Dbs -> Database] : all = [dbs EXCEPT ![n] = new]
  BY <1>1
<1>3. all[n] = new /\ \A m \in Dbs : (m # n => all[m] = dbs[m]) /\ Shape(all[m])
  BY <1>1, <1>2
<1>4. /\ dbs' \in [Dbs -> Database] /\ \A m \in Dbs : Shape(dbs[m])'
      /\ \A m \in Dbs : (\E d \in Dirs : place'[d].db = m) \/ (\E q \in Procs : proc'[q].db = m) => dbs'[m] = all[m]
  <2>1. CASE dbs' = all
    BY <1>3, <2>1 DEF Shape
  <2>2. CASE DbsBecome(all)
    BY <1>3, <2>2, DbsStay
  <2> QED BY <1>2, <2>1, <2>2
<1>5. ASSUME NEW q \in Procs \ {p} PROVE DbKept(q)
  <2> SUFFICES ASSUME proc[q].pc \in Steps PROVE DbKept(q)
    BY DEF DbKept
  <2>1. PICK m \in Dbs : m = proc[q].db
    BY DEF PInv, ProcOK, HoldsPlace
  <2>2. dbs'[m] = all[m]
    BY <1>4, <2>1 DEF Calm
  <2>3. CASE m # n
    BY <1>3, <2>1, <2>2, <2>3 DEF DbKept
  <2>4. CASE m = n
    BY <1>3, <2>1, <2>2, <2>4 DEF DbKept, Grows
  <2> QED BY <2>3, <2>4
<1>6. \A q \in Procs \ {p} : Calm(q) /\ Kept(q)
  BY <1>5 DEF Kept
<1>7. proc'[p].pc \in {"tables", "current"} =>
        \A q \in Procs \ {p} : ~(proc[q].pc \in {"tables", "current"} /\ proc[q].db = proc'[p].db)
  BY DEF Grows, Steps
<1>8. Made'
  <2> SUFFICES ASSUME NEW d \in Dirs, place'[d].db # 0 PROVE Sound(place[d].db)'
    BY DEF Made
  <2>1. PICK m \in Dbs : m = place[d].db /\ m = place'[d].db
    BY <1>1 DEF Place
  <2>2. Sound(m) /\ dbs'[m] = all[m]
    BY <1>4, <2>1 DEF PInv, Made
  <2>3. CASE m # n
    <3>1. ~(proc[p].db = m /\ Stage(proc[p], dbs[m])) /\ dbs'[m] = dbs[m]
      BY <1>3, <2>2, <2>3
    <3>2. Sound(m)'
      BY <2>2, <3>1, SoundStays
    <3> QED BY <2>1, <3>2
  <2>4. CASE m = n
    <3>1. Sound(m)'
      BY <1>3, <2>2, <2>4 DEF Sound
    <3> QED BY <2>1, <3>1
  <2> QED BY <2>3, <2>4
<1>9. Distinct'
  BY DEF PInv, Distinct
<1> QED BY <1>4, <1>6, <1>7, <1>8, <1>9, StepInv

LEMMA CreateDatabaseInv == ASSUME PInv, NEW p \in Procs, CreateDatabase(p) PROVE PInv'
<1>1. /\ proc[p].pc = "creating" /\ proc[p] \in Process
      /\ place \in [Dirs -> Place] /\ dbs \in [Dbs -> Database] /\ proc \in [Procs -> Process]
      /\ \A n \in Dbs : Shape(dbs[n])
  BY DEF CreateDatabase, PInv, ProjectTypeOK
<1>2. ~Stage(proc[p], dbs[proc[p].db])
  BY <1>1, NoStage DEF Creating
<1>3. PICK d \in Dirs : d = proc[p].at
  BY <1>1 DEF Process
<1>4. PICK n \in Dbs :
        /\ IF Initialized(d) THEN n = place[d].db /\ dbs' = dbs ELSE NextDb(n) /\ dbs' = [dbs EXCEPT ![n] = Fresh]
        /\ place' = [place EXCEPT ![d].made = TRUE, ![d].db = n]
        /\ proc' = [proc EXCEPT ![p].pc = "version", ![p].db = n]
  BY <1>3 DEF CreateDatabase
<1>5. n # 0 /\ n \in Dbs
  BY ProjectAssumption DEF Dbs
<1>6. place' \in [Dirs -> Place] /\ place'[d].db = n /\ place'[d].lock = place[d].lock
      /\ \A e \in Dirs : e # d => place'[e] = place[e]
  <2>1. PICK made : made = [place[d] EXCEPT !.made = TRUE, !.db = n]
    OBVIOUS
  <2>2. made \in Place /\ made.db = n /\ made.lock = place[d].lock
    BY <1>1, <2>1 DEF Place
  <2>3. place' = [place EXCEPT ![d] = made]
    BY <1>1, <1>4, <2>1
  <2> QED BY <1>1, <2>2, <2>3
<1>7. proc'[p] \in Process /\ proc'[p].pc = "version" /\ proc'[p].db = n /\ proc'[p].at = d
  BY <1>1, <1>3, <1>4 DEF Process
<1>8. proc' = [proc' EXCEPT ![p] = proc'[p]] /\ DOMAIN proc' = Procs /\ \A q \in Procs \ {p} : proc'[q] = proc[q]
  BY <1>1, <1>4
<1>9. ProcOK(p)'
  BY <1>5, <1>6, <1>7 DEF ProcOK, HoldsPlace, Creates, Migrates, IsReady, HasLock, Covers, Ready
<1>10. CASE Initialized(d)
  <2>1. n = place[d].db /\ dbs' = dbs
    BY <1>4, <1>10
  <2>2. \A q \in Procs \ {p} : Calm(q) /\ PlaceKept(q)
    BY <1>1, <1>6, <1>8, <2>1 DEF Calm, PlaceKept, Process
  <2>3. \A e \in Dirs : place'[e].db \in {0, place[e].db}
    BY <1>6, <2>1
  <2> QED BY <1>2, <1>6, <1>7, <1>8, <1>9, <2>1, <2>2, <2>3, SameDatabases
<1>11. CASE ~Initialized(d)
  <2>1. NextDb(n) /\ dbs' = [dbs EXCEPT ![n] = Fresh] /\ place[d].db = 0
    BY <1>4, <1>11 DEF Initialized
  <2>2. (\A e \in Dirs : place[e].db # n) /\ (\A q \in Procs : proc[q].db # n)
    BY <2>1 DEF NextDb, InUse
  <2>3. Fresh \in Database /\ Shape(Fresh) /\ Fresh.versions = {}
    BY DEF Fresh, Database, Shape
  <2>4. dbs' \in [Dbs -> Database] /\ dbs'[n] = Fresh /\ \A m \in Dbs : m # n => dbs'[m] = dbs[m]
    BY <1>1, <2>1, <2>3
  <2>5. \A m \in Dbs : Shape(dbs'[m])
    BY <1>1, <2>3, <2>4
  <2>6. \A q \in Procs \ {p} : Calm(q) /\ DbKept(q)
    BY <1>1, <1>8, <2>2, <2>4 DEF PInv, ProcOK, HoldsPlace, Calm, DbKept
  <2>7. \A q \in Procs \ {p} : PlaceKept(q)
    <3> SUFFICES ASSUME NEW q \in Procs \ {p}, proc[q].pc \in Steps PROVE PlaceKept(q)
      BY DEF PlaceKept
    <3>1. proc'[q] = proc[q] /\ proc[q].at \in Dirs /\ HoldsPlace(proc[q])
      BY <1>1, <1>8 DEF PInv, ProcOK, Process
    <3>2. CASE proc[q].at # d
      BY <1>6, <3>1, <3>2 DEF PlaceKept
    <3>3. CASE proc[q].at = d
      <4>1. proc[q].db # 0
        BY <3>1, ProjectAssumption DEF HoldsPlace, Dbs
      <4>2. "removed" \in proc[q].hit
        BY <2>1, <3>1, <3>3, <4>1 DEF HoldsPlace
      <4> QED BY <3>1, <4>2 DEF PlaceKept
    <3> QED BY <3>2, <3>3
  <2>8. Distinct'
    BY <1>6, <2>2 DEF PInv, Distinct
  <2>9. Made'
    <3> SUFFICES ASSUME NEW e \in Dirs, place'[e].db # 0 PROVE Sound(place[e].db)'
      BY DEF Made
    <3>1. CASE e = d
      <4>1. Stage(proc'[p], dbs'[n])
        BY <1>7, <2>3, <2>4 DEF Stage
      <4>2. Sound(n)'
        BY <1>7, <4>1 DEF Sound
      <4> QED BY <1>6, <3>1, <4>2
    <3>2. CASE e # d
      <4>1. PICK m \in Dbs : m = place[e].db /\ m = place'[e].db
        BY <1>1, <1>6, <3>2 DEF Place
      <4>2. Sound(m) /\ m # n /\ dbs'[m] = dbs[m]
        BY <2>2, <2>4, <4>1 DEF PInv, Made
      <4>3. ~(proc[p].db = m /\ Stage(proc[p], dbs[m]))
        BY <1>2
      <4>4. Sound(m)'
        BY <2>6, <4>2, <4>3, SoundStays
      <4> QED BY <4>1, <4>4
    <3> QED BY <3>1, <3>2
  <2> QED BY <1>6, <1>7, <1>8, <1>9, <2>4, <2>5, <2>6, <2>7, <2>8, <2>9, StepInv DEF Kept
<1> QED BY <1>10, <1>11

LEMMA InsertVersionInv == ASSUME PInv, NEW p \in Procs, InsertVersion(p) PROVE PInv'
<1>1. /\ proc[p].pc = "version" /\ place' = place /\ proc[p] \in Process /\ HoldsPlace(proc[p])
      /\ place \in [Dirs -> Place] /\ dbs \in [Dbs -> Database] /\ proc \in [Procs -> Process]
  BY DEF InsertVersion, PInv, ProjectTypeOK, ProcOK
<1>2. PICK n \in Dbs : n = proc[p].db
  BY <1>1 DEF HoldsPlace, Steps
<1>3. dbs[n] \in Database /\ Shape(dbs[n])
  BY <1>1 DEF PInv
<1>4. CASE 1 \in dbs[n].versions
  <2>1. Ends(p, 1) /\ DbsBecome(dbs)
    BY <1>2, <1>4 DEF InsertVersion
  <2>2. ~Stage(proc[p], dbs[proc[p].db])
    BY <1>1, <1>2, <1>4 DEF Stage
  <2> QED BY <1>1, <2>1, <2>2, EndStep
<1>5. CASE 1 \notin dbs[n].versions
  <2>1. dbs' = [dbs EXCEPT ![n].versions = @ \union {1}] /\ proc' = [proc EXCEPT ![p].pc = "tables"]
    BY <1>2, <1>5 DEF InsertVersion, Continues
  <2>2. PICK new \in Database : new = [dbs[n] EXCEPT !.versions = @ \union {1}]
    <3>1. PICK new : new = [dbs[n] EXCEPT !.versions = @ \union {1}]
      OBVIOUS
    <3>2. new \in Database
      BY <1>3, <3>1 DEF Database, CURRENT_SCHEMA_VERSION
    <3> QED BY <3>1, <3>2
  <2>3. dbs[n].versions = {} /\ new.versions = {1} /\ new.columns = "none" /\ dbs[n].columns = "none" /\ new.rows = dbs[n].rows
    BY <1>3, <1>5, <2>2 DEF Shape, Database
  <2>4. dbs' = [dbs EXCEPT ![n] = new] /\ dbs'[n] = new
    BY <1>1, <2>1, <2>2
  <2>5. proc'[p] \in Process /\ proc'[p].pc = "tables" /\ proc'[p].db = n /\ proc'[p].at = proc[p].at /\ proc'[p].hit = proc[p].hit
    BY <1>1, <1>2, <2>1 DEF Process
  <2>6. proc' = [proc' EXCEPT ![p] = proc'[p]] /\ DOMAIN proc' = Procs /\ \A q \in Procs \ {p} : proc'[q] = proc[q]
    BY <1>1, <2>1
  <2>7. \A q \in Procs \ {p} : Calm(q) /\ PlaceKept(q)
    BY <1>1, <2>6 DEF Calm, PlaceKept
  <2>8. Shape(new)
    BY <2>3 DEF Shape
  <2>9. Grows(p, n, new)
    <3>1. \A q \in Procs : proc[q].pc \in {"tables", "current"} => dbs[proc[q].db].versions = {1}
      BY DEF PInv, ProcOK, Creates
    <3>2. \A q \in Procs : proc[q].db = n => proc[q].pc \notin {"tables", "current"}
      BY <2>3, <3>1
    <3> QED BY <2>3, <3>2 DEF Grows
  <2>10. ProcOK(p)'
    BY <1>1, <1>2, <2>3, <2>4, <2>5 DEF ProcOK, HoldsPlace, Creates, Migrates, IsReady, HasLock, Covers, Steps, Ready
  <2>11. Stage(proc'[p], new)
    BY <2>3, <2>5 DEF Stage
  <2> QED BY <1>1, <1>2, <2>4, <2>5, <2>6, <2>7, <2>8, <2>9, <2>10, <2>11, DatabaseStep
<1> QED BY <1>4, <1>5

LEMMA CreateTablesInv == ASSUME PInv, NEW p \in Procs, CreateTables(p) PROVE PInv'
<1>1. /\ proc[p].pc = "tables" /\ place' = place /\ proc[p] \in Process /\ HoldsPlace(proc[p]) /\ Creates(proc[p])
      /\ place \in [Dirs -> Place] /\ dbs \in [Dbs -> Database] /\ proc \in [Procs -> Process]
  BY DEF CreateTables, PInv, ProjectTypeOK, ProcOK
<1>2. PICK n \in Dbs : n = proc[p].db
  BY <1>1 DEF HoldsPlace, Steps
<1>3. dbs[n] \in Database /\ dbs[n].versions = {1} /\ dbs[n].columns = "none"
  BY <1>1, <1>2 DEF Creates
<1>4. dbs' = [dbs EXCEPT ![n].columns = "full"] /\ proc' = [proc EXCEPT ![p].pc = "current"]
  BY <1>1, <1>2, <1>3 DEF CreateTables, Continues
<1>5. PICK new \in Database : new = [dbs[n] EXCEPT !.columns = "full"]
  BY <1>3 DEF Database
<1>6. new.versions = {1} /\ new.columns = "full" /\ new.rows = dbs[n].rows
  BY <1>3, <1>5 DEF Database
<1>7. dbs' = [dbs EXCEPT ![n] = new] /\ dbs'[n] = new
  BY <1>1, <1>4, <1>5
<1>8. proc'[p] \in Process /\ proc'[p].pc = "current" /\ proc'[p].db = n /\ proc'[p].at = proc[p].at /\ proc'[p].hit = proc[p].hit
  BY <1>1, <1>2, <1>4 DEF Process
<1>9. proc' = [proc' EXCEPT ![p] = proc'[p]] /\ DOMAIN proc' = Procs /\ \A q \in Procs \ {p} : proc'[q] = proc[q]
  BY <1>1, <1>4
<1>10. \A q \in Procs \ {p} : Calm(q) /\ PlaceKept(q)
  BY <1>1, <1>9 DEF Calm, PlaceKept
<1>11. Shape(new)
  BY <1>6 DEF Shape
<1>12. Grows(p, n, new)
  <2>1. \A q \in Procs \ {p} : proc[q].db = n => proc[q].pc \notin {"tables", "current"}
    BY <1>1, <1>2 DEF PInv, OneCreates
  <2> QED BY <1>3, <1>6, <2>1 DEF Grows
<1>13. ProcOK(p)'
  BY <1>1, <1>2, <1>6, <1>7, <1>8 DEF ProcOK, HoldsPlace, Creates, Migrates, IsReady, HasLock, Covers, Steps, Ready
<1>14. Stage(proc'[p], new)
  BY <1>6, <1>8 DEF Stage
<1> QED BY <1>1, <1>2, <1>7, <1>8, <1>9, <1>10, <1>11, <1>12, <1>13, <1>14, DatabaseStep

LEMMA RecordCurrentInv == ASSUME PInv, NEW p \in Procs, RecordCurrent(p) PROVE PInv'
<1>1. /\ proc[p].pc = "current" /\ place' = place /\ proc[p] \in Process /\ HoldsPlace(proc[p]) /\ Creates(proc[p])
      /\ place \in [Dirs -> Place] /\ dbs \in [Dbs -> Database] /\ proc \in [Procs -> Process]
  BY DEF RecordCurrent, PInv, ProjectTypeOK, ProcOK
<1>2. PICK n \in Dbs : n = proc[p].db
  BY <1>1 DEF HoldsPlace, Steps
<1>3. dbs[n] \in Database /\ dbs[n].versions = {1} /\ dbs[n].columns = "full"
  BY <1>1, <1>2 DEF Creates
<1>4. PICK new : new = [dbs[n] EXCEPT !.versions = @ \union {4}]
  OBVIOUS
<1>5. new \in Database /\ new.versions = {1, 4} /\ new.columns = "full" /\ new.rows = dbs[n].rows
  BY <1>3, <1>4 DEF Database, CURRENT_SCHEMA_VERSION
<1>6. DbsBecome([dbs EXCEPT ![n] = new])
  <2>1. [dbs EXCEPT ![n].versions = @ \union {CURRENT_SCHEMA_VERSION}] = [dbs EXCEPT ![n] = new]
    BY <1>1, <1>4 DEF CURRENT_SCHEMA_VERSION
  <2> QED BY <1>2, <2>1 DEF RecordCurrent
<1>7. /\ proc'[p] \in Process
      /\ proc'[p].pc = "idle" \/ (proc'[p].pc = "opened" /\ proc'[p].db = n /\ proc'[p].at = proc[p].at /\ proc'[p].hit = proc[p].hit)
  <2>1. CASE proc' = [proc EXCEPT ![p].pc = "opened"]
    BY <1>1, <1>2, <2>1 DEF Process
  <2>2. CASE proc' = [proc EXCEPT ![p] = Ended(0)]
    BY <1>1, <2>2, IdleIsProcess
  <2> QED BY <2>1, <2>2 DEF RecordCurrent, Continues, Ends
<1>8. proc' = [proc' EXCEPT ![p] = proc'[p]] /\ DOMAIN proc' = Procs /\ \A q \in Procs \ {p} : proc'[q] = proc[q]
  BY <1>1 DEF RecordCurrent, Continues, Ends
<1>9. \A q \in Procs \ {p} : Calm(q) /\ PlaceKept(q)
  BY <1>1, <1>8 DEF Calm, PlaceKept
<1>10. Shape(new)
  BY <1>5 DEF Shape
<1>11. Grows(p, n, new)
  <2>1. \A q \in Procs \ {p} : proc[q].db = n => proc[q].pc \notin {"tables", "current"}
    BY <1>1, <1>2 DEF PInv, OneCreates
  <2> QED BY <1>3, <1>5, <2>1 DEF Grows
<1>12. ProcOK(p)'
  <2>1. CASE proc'[p].pc = "idle"
    BY <2>1, NotAtWork DEF Steps
  <2>2. CASE proc'[p].pc = "opened" /\ proc'[p].db = n /\ proc'[p].at = proc[p].at /\ proc'[p].hit = proc[p].hit
    <3>1. dbs'[n] = new
      <4>1. InUse(n, place', proc')
        BY <2>2 DEF InUse
      <4> QED BY <1>1, <1>6, <4>1 DEF DbsBecome
    <3> QED BY <1>1, <1>2, <1>5, <2>2, <3>1
         DEF ProcOK, HoldsPlace, Creates, Migrates, IsReady, HasLock, Covers, Steps, Ready
  <2> QED BY <1>7, <2>1, <2>2
<1>13. ~(new.versions \subseteq {1}) /\ proc'[p].pc \notin {"tables", "current"}
  BY <1>5, <1>7
<1> QED BY <1>1, <1>2, <1>5, <1>6, <1>7, <1>8, <1>9, <1>10, <1>11, <1>12, <1>13, DatabaseStep

LEMMA RunMigrationInv == ASSUME PInv, NEW p \in Procs, RunMigration(p) PROVE PInv'
<1>1. /\ proc[p].pc = "migrating" /\ place' = place /\ proc[p] \in Process /\ HoldsPlace(proc[p]) /\ Migrates(proc[p])
      /\ place \in [Dirs -> Place] /\ dbs \in [Dbs -> Database] /\ proc \in [Procs -> Process]
  BY DEF RunMigration, PInv, ProjectTypeOK, ProcOK
<1>2. PICK n \in Dbs : n = proc[p].db
  BY <1>1 DEF HoldsPlace, Steps
<1>3. PICK v \in proc[p].pending :
        /\ \A w \in proc[p].pending : v <= w
        /\ IF Applies(v, dbs[n])
             THEN /\ dbs' = [dbs EXCEPT ![n] = Migrated(v, @)]
                  /\ proc' = [proc EXCEPT ![p].pending = @ \ {v},
                                          ![p].pc = IF proc[p].pending = {v} THEN "opened" ELSE @]
             ELSE Ends(p, 1) /\ DbsBecome(dbs)
  BY <1>2 DEF RunMigration
<1>4. dbs[n] \in Database /\ Shape(dbs[n]) /\ dbs[n].columns \in {"none", "old", "full"} /\ dbs[n].versions \subseteq 1 .. 4
  BY <1>1 DEF PInv, Database, CURRENT_SCHEMA_VERSION
<1>5. proc[p].pending \subseteq {2, 3, 4} /\ v \in {2, 3, 4}
  BY <1>1 DEF Process, CURRENT_SCHEMA_VERSION
<1>6. CASE ~Applies(v, dbs[n])
  <2>1. ~Stage(proc[p], dbs[proc[p].db])
    BY <1>1, NoStage DEF Creating
  <2> QED BY <1>1, <1>3, <1>6, <2>1, EndStep
<1>7. CASE Applies(v, dbs[n])
  <2>1. PICK new : new = Migrated(v, dbs[n])
    OBVIOUS
  <2>2. new \in Database /\ new.versions = dbs[n].versions \union {v} /\ new.rows = dbs[n].rows
        /\ new.columns = IF v = 2 THEN "full" ELSE dbs[n].columns
    <3>1. PICK versions, columns : /\ versions = dbs[n].versions \union {v}
                                   /\ columns = IF v = 2 THEN "full" ELSE dbs[n].columns
      OBVIOUS
    <3>2. new = [dbs[n] EXCEPT !.versions = versions, !.columns = columns]
      BY <2>1, <3>1 DEF Migrated
    <3>3. versions \in SUBSET (1 .. CURRENT_SCHEMA_VERSION) /\ columns \in {"none", "old", "full"}
      BY <1>4, <1>5, <3>1 DEF CURRENT_SCHEMA_VERSION
    <3>4. new \in Database /\ new.versions = versions /\ new.columns = columns /\ new.rows = dbs[n].rows
      BY <1>4, <3>2, <3>3 DEF Database
    <3> QED BY <3>1, <3>4
  <2>3. v \notin dbs[n].versions /\ (v = 2 => dbs[n].columns = "old") /\ (v = 3 => dbs[n].columns # "none")
    BY <1>7 DEF Applies
  <2>4. /\ v = 2 => dbs[n].versions = {1}
        /\ v = 3 => 2 \in dbs[n].versions
        /\ v = 4 => 3 \in dbs[n].versions
    <3>1. v = 2 => dbs[n].versions = {1}
      BY <1>4, <2>3 DEF Shape
    <3>2. v = 3 => 2 \notin proc[p].pending
      BY <1>3, <1>5
    <3>3. v = 4 => 3 \notin proc[p].pending
      BY <1>3, <1>5
    <3> QED BY <1>1, <1>2, <3>1, <3>2, <3>3 DEF Migrates
  <2>5. new.columns = "full" /\ Shape(new) /\ ~(new.versions \subseteq {1})
    <3>1. new.columns = "full"
      BY <1>4, <1>5, <2>2, <2>4 DEF Shape
    <3>2. 1 \in dbs[n].versions
      BY <1>4, <1>5, <2>4 DEF Shape
    <3> QED BY <1>5, <2>2, <3>1, <3>2 DEF Shape
  <2>6. dbs' = [dbs EXCEPT ![n] = new] /\ dbs'[n] = new
    BY <1>1, <1>3, <1>7, <2>1
  <2>7. PICK x : x = [proc[p] EXCEPT !.pending = @ \ {v}, !.pc = IF proc[p].pending = {v} THEN "opened" ELSE @]
    OBVIOUS
  <2>8. proc' = [proc EXCEPT ![p] = x] /\ proc'[p] = x
    BY <1>1, <1>3, <1>7, <2>7
  <2>9. /\ x \in Process /\ x.db = n /\ x.at = proc[p].at /\ x.hit = proc[p].hit /\ x.pending = proc[p].pending \ {v}
        /\ x.pc = IF proc[p].pending = {v} THEN "opened" ELSE "migrating"
    BY <1>1, <1>2, <2>7 DEF Process
  <2>10. proc' = [proc' EXCEPT ![p] = proc'[p]] /\ DOMAIN proc' = Procs /\ \A q \in Procs \ {p} : proc'[q] = proc[q]
    BY <1>1, <2>8
  <2>11. \A q \in Procs \ {p} : Calm(q) /\ PlaceKept(q)
    BY <1>1, <2>10 DEF Calm, PlaceKept
  <2>12. Grows(p, n, new)
    <3>2. ~(dbs[n].versions = {1} /\ dbs[n].columns \in {"none", "full"})
      BY <1>5, <2>3, <2>4
    <3>3. ASSUME NEW q \in Procs, proc[q].db = n PROVE proc[q].pc \notin {"tables", "current"}
      <4>1. PICK m : m = proc[q].db
        OBVIOUS
      <4>2. /\ proc[q].pc = "tables" => dbs[m].versions = {1} /\ dbs[m].columns = "none"
            /\ proc[q].pc = "current" => dbs[m].versions = {1} /\ dbs[m].columns = "full"
        <5>1. /\ proc[q].pc = "tables" => dbs[proc[q].db].versions = {1} /\ dbs[proc[q].db].columns = "none"
              /\ proc[q].pc = "current" => dbs[proc[q].db].versions = {1} /\ dbs[proc[q].db].columns = "full"
          BY DEF PInv, ProcOK, Creates
        <5> QED BY <4>1, <5>1
      <4>3. m = n
        BY <3>3, <4>1
      <4> QED BY <3>2, <4>2, <4>3
    <3> QED BY <2>2, <2>5, <3>3 DEF Grows
  <2>13. HoldsPlace(x)' /\ Creates(x)' /\ HasLock(p, x)' /\ Covers(x)'
    BY <1>1, <1>2, <2>9 DEF HoldsPlace, Creates, HasLock, Covers, Steps
  <2>14. Migrates(x)'
    <3> SUFFICES ASSUME proc[p].pending # {v}
                 PROVE  /\ 4 \in x.pending /\ (2 \in x.pending => 3 \in x.pending)
                        /\ 3 \notin x.pending => 3 \in new.versions
                        /\ 2 \notin x.pending /\ 3 \in x.pending => 2 \in new.versions
      BY <2>6, <2>9 DEF Migrates
    <3>1. v # 4
      BY <1>3, <1>5
    <3>2. 4 \in proc[p].pending /\ (2 \in proc[p].pending => 3 \in proc[p].pending)
          /\ (3 \notin proc[p].pending => 3 \in dbs[n].versions)
      BY <1>1, <1>2 DEF Migrates
    <3>3. v = 2 \/ v = 3
      BY <1>5, <3>1
    <3>4. v = 3 => 2 \notin proc[p].pending
      BY <1>3
    <3> QED BY <2>2, <2>4, <2>9, <3>2, <3>3, <3>4
  <2>15. IsReady(x)'
    <3> SUFFICES ASSUME proc[p].pending = {v} PROVE new.columns = "full" /\ 4 \in new.versions
      BY <2>6, <2>9 DEF IsReady, Ready
    <3>1. 4 \in proc[p].pending
      BY <1>1 DEF Migrates
    <3> QED BY <2>2, <2>5, <3>1
  <2>16. ProcOK(p)'
    BY <2>8, <2>13, <2>14, <2>15 DEF ProcOK
  <2>17. proc'[p] \in Process /\ proc'[p].pc \notin {"tables", "current"}
    BY <2>8, <2>9
  <2> QED BY <1>1, <1>2, <2>2, <2>5, <2>6, <2>10, <2>11, <2>12, <2>16, <2>17, DatabaseStep
<1> QED BY <1>6, <1>7

LEMMA ClearInv == ASSUME PInv, NEW p \in Procs, Clear(p) PROVE PInv'
<1>1. /\ proc[p].pc = "opened" /\ place' = place /\ proc[p] \in Process /\ HoldsPlace(proc[p]) /\ IsReady(proc[p])
      /\ place \in [Dirs -> Place] /\ dbs \in [Dbs -> Database] /\ proc \in [Procs -> Process]
  BY DEF Clear, PInv, ProjectTypeOK, ProcOK
<1>2. PICK n \in Dbs : n = proc[p].db
  BY <1>1 DEF HoldsPlace, Steps
<1>3. dbs[n] \in Database /\ Shape(dbs[n]) /\ dbs[n].columns = "full" /\ 4 \in dbs[n].versions
  BY <1>1, <1>2 DEF PInv, IsReady, Ready
<1>4. PICK new : new = [dbs[n] EXCEPT !.rows = {}]
  OBVIOUS
<1>5. new \in Database /\ new.versions = dbs[n].versions /\ new.columns = dbs[n].columns
  BY <1>3, <1>4 DEF Database
<1>6. dbs' = [dbs EXCEPT ![n] = new] /\ dbs'[n] = new
  BY <1>1, <1>2, <1>4 DEF Clear
<1>7. proc' = [Hitting(p, n, "cleared") EXCEPT ![p].pc = "cleared"]
  BY <1>2 DEF Clear
<1>8. Hitting(p, n, "cleared")[p] = proc[p]
  BY DEF Hitting
<1>9. proc'[p] \in Process /\ proc'[p].pc = "cleared" /\ proc'[p].db = n /\ proc'[p].at = proc[p].at /\ proc'[p].hit = proc[p].hit
  <2>1. proc'[p] = [proc[p] EXCEPT !.pc = "cleared"]
    BY <1>7, <1>8 DEF Hitting
  <2> QED BY <1>1, <1>2, <2>1 DEF Process
<1>10. proc' = [proc' EXCEPT ![p] = proc'[p]] /\ DOMAIN proc' = Procs
  BY <1>7 DEF Hitting
<1>11. \A q \in Procs \ {p} : Calm(q) /\ PlaceKept(q) /\ (Holds(q, n) => "cleared" \in proc'[q].hit)
  <2> TAKE q \in Procs \ {p}
  <2>1. proc'[q] = IF Holds(q, n) THEN [proc[q] EXCEPT !.hit = @ \union {"cleared"}] ELSE proc[q]
    BY <1>7 DEF Hitting
  <2>0. proc[q] \in Process
    BY <1>1
  <2>2. Calm(q) /\ (Holds(q, n) => "cleared" \in proc'[q].hit)
    <3>1. CASE Holds(q, n)
      BY <2>0, <2>1, <3>1 DEF Calm, Process
    <3>2. CASE ~Holds(q, n)
      BY <2>0, <2>1, <3>2 DEF Calm
    <3> QED BY <3>1, <3>2
  <2>3. PlaceKept(q)
    BY <1>1 DEF PlaceKept
  <2> QED BY <2>2, <2>3
<1>12. Shape(new)
  BY <1>3, <1>5 DEF Shape
<1>13. Grows(p, n, new)
  BY <1>5, <1>9, <1>11 DEF Grows, Holds, Steps
<1>14. ProcOK(p)'
  BY <1>1, <1>2, <1>3, <1>5, <1>6, <1>9 DEF ProcOK, HoldsPlace, Creates, Migrates, IsReady, HasLock, Covers, Steps, Ready
<1>15. ~(new.versions \subseteq {1})
  BY <1>3, <1>5
<1> QED BY <1>1, <1>2, <1>5, <1>6, <1>9, <1>10, <1>11, <1>12, <1>13, <1>14, <1>15, DatabaseStep

LEMMA StoreInv == ASSUME PInv, NEW p \in Procs, Store(p) PROVE PInv'
<1>1. /\ proc[p].pc = "writing" /\ place' = place /\ proc[p] \in Process /\ ProcOK(p)
      /\ place \in [Dirs -> Place] /\ dbs \in [Dbs -> Database] /\ proc \in [Procs -> Process]
  BY DEF Store, PInv, ProjectTypeOK
<1>2. PICK n \in Dbs : n = proc[p].db
  BY <1>1 DEF ProcOK, HoldsPlace, Steps
<1>3. PICK f \in proc[p].todo : /\ dbs' = [dbs EXCEPT ![n].rows = @ \union {f}]
                                /\ proc' = [proc EXCEPT ![p].todo = @ \ {f}]
  BY <1>2 DEF Store
<1>4. dbs[n] \in Database /\ Shape(dbs[n]) /\ dbs[n].columns = "full" /\ 4 \in dbs[n].versions /\ f \in Files
  BY <1>1, <1>2 DEF PInv, ProcOK, IsReady, Ready, Process
<1>5. PICK new : new = [dbs[n] EXCEPT !.rows = @ \union {f}]
  OBVIOUS
<1>6. new \in Database /\ new.versions = dbs[n].versions /\ new.columns = dbs[n].columns /\ new.rows = dbs[n].rows \union {f}
  BY <1>4, <1>5 DEF Database
<1>7. dbs' = [dbs EXCEPT ![n] = new] /\ dbs'[n] = new
  BY <1>1, <1>3, <1>5
<1>8. PICK x : x = [proc[p] EXCEPT !.todo = @ \ {f}]
  OBVIOUS
<1>9. /\ x \in Process /\ x.pc = "writing" /\ x.db = n /\ x.at = proc[p].at /\ x.hit = proc[p].hit
      /\ x.cmd = proc[p].cmd /\ x.todo = proc[p].todo \ {f}
  BY <1>1, <1>2, <1>8 DEF Process
<1>10. proc'[p] = x /\ proc' = [proc' EXCEPT ![p] = proc'[p]] /\ DOMAIN proc' = Procs
       /\ \A q \in Procs \ {p} : proc'[q] = proc[q]
  BY <1>1, <1>3, <1>8
<1>11. \A q \in Procs \ {p} : Calm(q) /\ PlaceKept(q)
  BY <1>1, <1>10 DEF Calm, PlaceKept
<1>12. Shape(new)
  BY <1>4, <1>6 DEF Shape
<1>13. Grows(p, n, new)
  BY <1>6, <1>9, <1>10 DEF Grows
<1>14. HoldsPlace(x)' /\ Creates(x)' /\ Migrates(x)' /\ IsReady(x)' /\ HasLock(p, x)'
  BY <1>1, <1>2, <1>4, <1>6, <1>7, <1>9 DEF ProcOK, HoldsPlace, Creates, Migrates, IsReady, HasLock, Steps, Ready
<1>15. Covers(x)'
  <2>1. proc[p].cmd # "sync" => proc[p].todo \union dbs[n].rows = Files \/ "cleared" \in proc[p].hit
    BY <1>1, <1>2 DEF ProcOK, Covers
  <2>2. x.todo \union new.rows = proc[p].todo \union dbs[n].rows
    BY <1>6, <1>9
  <2> QED BY <1>7, <1>9, <2>1, <2>2 DEF Covers
<1>16. ProcOK(p)'
  BY <1>10, <1>14, <1>15 DEF ProcOK
<1>17. ~(new.versions \subseteq {1})
  BY <1>4, <1>6
<1> QED BY <1>1, <1>2, <1>6, <1>7, <1>9, <1>10, <1>11, <1>12, <1>13, <1>16, <1>17, DatabaseStep

LEMMA KillInv == ASSUME PInv, NEW p \in Procs, Kill(p) PROVE PInv'
<1>1. /\ proc[p].pc # "idle" /\ Ends(p, 1) /\ proc[p] \in Process /\ HoldsPlace(proc[p])
      /\ place \in [Dirs -> Place] /\ dbs \in [Dbs -> Database] /\ proc \in [Procs -> Process]
  BY DEF Kill, PInv, ProjectTypeOK, ProcOK
<1>2. proc'[p] = Ended(1) /\ proc' = [proc' EXCEPT ![p] = proc'[p]] /\ DOMAIN proc' = Procs
      /\ \A q \in Procs \ {p} : proc'[q] = proc[q]
  BY <1>1 DEF Ends
<1>3. proc'[p] \in Process /\ proc'[p].pc = "idle"
  BY <1>2, IdleIsProcess
<1>4. ProcOK(p)'
  BY <1>3, NotAtWork DEF Steps
<1>5. \A e \in Dirs : place'[e] = IF place[e].lock # Nothing /\ place[e].lock.by = p
                                    THEN [place[e] EXCEPT !.lock.by = "dead"] ELSE place[e]
  BY DEF Kill
<1>6. \A e \in Dirs : place'[e] \in Place /\ place'[e].db = place[e].db
  <2> TAKE e \in Dirs
  <2>1. CASE place[e].lock # Nothing /\ place[e].lock.by = p
    <3>1. place[e] \in Place /\ place[e].lock \in Lock
      BY <1>1, <2>1 DEF Place
    <3>2. PICK l : l = [place[e].lock EXCEPT !.by = "dead"]
      OBVIOUS
    <3>3. l \in Lock
      BY <3>1, <3>2 DEF Lock
    <3>4. place'[e] = [place[e] EXCEPT !.lock = l]
      BY <1>5, <2>1, <3>2
    <3> QED BY <3>1, <3>3, <3>4 DEF Place
  <2>2. CASE ~(place[e].lock # Nothing /\ place[e].lock.by = p)
    BY <1>1, <1>5, <2>2
  <2> QED BY <2>1, <2>2
<1>7. place' \in [Dirs -> Place]
  BY <1>6 DEF Kill
<1>8. \A q \in Procs \ {p} : Calm(q) /\ PlaceKept(q)
  <2> TAKE q \in Procs \ {p}
  <2>1. Calm(q)
    BY <1>1, <1>2 DEF Calm
  <2>2. proc[q].at \in Dirs
    BY <1>1 DEF Process
  <2>3. \/ place'[proc[q].at].lock = place[proc[q].at].lock
        \/ place[proc[q].at].lock # Nothing => place[proc[q].at].lock.by # q
    BY <1>5, <2>2
  <2> QED BY <1>6, <2>1, <2>2, <2>3 DEF PlaceKept
<1>9. CASE proc[p].pc \notin Creating
  <2>1. DbsBecome(dbs) /\ ~Stage(proc[p], dbs[proc[p].db])
    BY <1>9, NoStage DEF Kill
  <2> QED BY <1>2, <1>3, <1>4, <1>6, <1>7, <1>8, <2>1, SameDatabases
<1>10. CASE proc[p].pc \in Creating
  <2>1. PICK n \in Dbs : n = proc[p].db
    BY <1>1, <1>10 DEF HoldsPlace, Steps, Creating
  <2>2. dbs[n] \in Database /\ Shape(dbs[n])
    BY <1>1 DEF PInv
  <2>3. PICK new : new = [dbs[n] EXCEPT !.cut = TRUE]
    OBVIOUS
  <2>4. new \in Database /\ new.cut /\ new.versions = dbs[n].versions /\ new.columns = dbs[n].columns /\ new.rows = dbs[n].rows
    BY <2>2, <2>3 DEF Database
  <2>5. DbsBecome([dbs EXCEPT ![n] = new])
    <3>1. [dbs EXCEPT ![n].cut = TRUE] = [dbs EXCEPT ![n] = new]
      BY <1>1, <2>3
    <3> QED BY <1>10, <2>1, <3>1 DEF Kill
  <2>6. Shape(new)
    BY <2>2, <2>4 DEF Shape
  <2>7. Grows(p, n, new)
    BY <1>3, <2>4 DEF Grows
  <2> QED BY <1>2, <1>3, <1>4, <1>6, <1>7, <1>8, <2>1, <2>4, <2>5, <2>6, <2>7, DatabaseStep
<1> QED BY <1>9, <1>10
-----------------------------------------------------------------------------
(* The specification.                                                      *)

LEMMA InitInv == ProjectInit => PInv
<1> SUFFICES ASSUME ProjectInit PROVE PInv
  OBVIOUS
<1>1. Dirs \subseteq Dbs
  BY ProjectAssumption, FS_CardinalityType DEF Dirs, Dbs
<1>2. /\ \A d \in Dirs : place[d] \in Place /\ place[d].db \in {0, d}
      /\ DOMAIN place = Dirs
  <2>1. Nowhere \in Place /\ \A n \in Dbs : [Nowhere EXCEPT !.made = TRUE, !.db = n] \in Place
    BY DEF Nowhere, Place
  <2>2. [Nowhere EXCEPT !.made = TRUE] \in Place
    BY DEF Nowhere, Place
  <2>3. \A d \in Dirs : place[d] \in {Nowhere, [Nowhere EXCEPT !.made = TRUE]}
                                      \union {[Nowhere EXCEPT !.made = TRUE, !.db = n] : n \in Dirs}
    BY DEF ProjectInit
  <2>4. ASSUME NEW d \in Dirs PROVE place[d] \in Place
    <3>1. CASE place[d] \in {Nowhere, [Nowhere EXCEPT !.made = TRUE]}
      BY <2>1, <2>2, <3>1
    <3>2. CASE place[d] \in {[Nowhere EXCEPT !.made = TRUE, !.db = n] : n \in Dirs}
      <4>1. PICK n \in Dirs : place[d] = [Nowhere EXCEPT !.made = TRUE, !.db = n]
        BY <3>2
      <4> QED BY <1>1, <2>1, <4>1
    <3> QED BY <2>3, <3>1, <3>2
  <2>5. DOMAIN place = Dirs /\ \A d \in Dirs : place[d].db \in {0, d}
    BY DEF ProjectInit
  <2> QED BY <2>4, <2>5
<1>3. place \in [Dirs -> Place]
  <2>1. place = [d \in Dirs |-> place[d]]
    BY DEF ProjectInit
  <2> QED BY <1>2, <2>1
<1>4. Old(Files) \in Database /\ Fresh \in Database /\ Shape(Old(Files)) /\ Shape(Fresh) /\ Old(Files).columns = "old"
  BY DEF Old, Fresh, Database, Shape, CURRENT_SCHEMA_VERSION
<1>5. \A n \in Dbs : dbs[n] = IF n \in Dirs /\ place[n].db = n THEN Old(Files) ELSE Fresh
  BY DEF ProjectInit
<1>6. dbs \in [Dbs -> Database] /\ \A n \in Dbs : Shape(dbs[n])
  BY <1>4, <1>5 DEF ProjectInit
<1>7. proc \in [Procs -> Process] /\ \A p \in Procs : proc[p].pc = "idle"
  BY IdleIsProcess DEF ProjectInit, NoCommand
<1>8. \A p \in Procs : ProcOK(p)
  BY <1>7 DEF ProcOK, HoldsPlace, Creates, Migrates, IsReady, HasLock, Covers, Steps, Ready
<1>9. OneCreates
  BY <1>7 DEF OneCreates
<1>10. Distinct
  BY <1>2 DEF Distinct
<1>11. Made
  BY <1>1, <1>2, <1>4, <1>5 DEF Made, Sound
<1> QED BY <1>3, <1>6, <1>7, <1>8, <1>9, <1>10, <1>11 DEF PInv, ProjectTypeOK

LEMMA NextInv == PInv /\ [ProjectNext]_projectVars => PInv'
<1> SUFFICES ASSUME PInv, [ProjectNext]_projectVars PROVE PInv'
  OBVIOUS
<1>1. CASE UNCHANGED projectVars
  <2>1. place' = place /\ dbs' = dbs /\ proc' = proc
    BY <1>1 DEF projectVars
  <2>2. ProjectTypeOK' /\ \A n \in Dbs : Shape(dbs[n])'
    BY <2>1 DEF PInv, ProjectTypeOK, Shape
  <2>3. ASSUME NEW p \in Procs PROVE ProcOK(p)'
    <3>1. ProcOK(p)
      BY DEF PInv
    <3> QED BY <2>1, <3>1 DEF ProcOK, HoldsPlace, Creates, Migrates, IsReady, HasLock, Covers
  <2>4. OneCreates' /\ Distinct'
    BY <2>1 DEF PInv, OneCreates, Distinct
  <2>5. Made'
    BY <2>1 DEF PInv, Made, Sound, Stage
  <2> QED BY <2>2, <2>3, <2>4, <2>5 DEF PInv
<1>2. CASE \E p \in Procs, d \in Dirs : (\E cmd \in Commands : StartInit(p, cmd, d) \/ StartOn(p, cmd, d)) \/ Unlock(p, d)
  BY <1>2, StartInitInv, StartOnInv, UnlockInv
<1>3. ASSUME NEW p \in Procs,
             \/ Decline(p) \/ CreateDirectory(p) \/ CreateDatabase(p) \/ InsertVersion(p)
             \/ CreateTables(p) \/ RecordCurrent(p) \/ Open(p) \/ RunMigration(p)
             \/ ReportStatus(p) \/ Search(p) \/ Uninitialize(p) \/ Clear(p) \/ Acquire(p)
             \/ Store(p) \/ Finish(p) \/ Kill(p)
      PROVE  PInv'
  BY <1>3, QuietEnd, CreateDirectoryInv, CreateDatabaseInv, InsertVersionInv, CreateTablesInv, RecordCurrentInv,
     OpenInv, RunMigrationInv, UninitializeInv, ClearInv, AcquireInv, StoreInv, FinishInv, KillInv
<1>4. CASE \E d \in Dirs : Age(d)
  BY <1>4, AgeInv
<1> QED BY <1>1, <1>2, <1>3, <1>4 DEF ProjectNext

LEMMA PInvHolds == ProjectSpec => []PInv
BY InitInv, NextInv, PTL DEF ProjectSpec

\* No command works on a database whose schema is older than its code.
LEMMA CurrentSchema == PInv => SchemaIsCurrent
BY DEF PInv, ProcOK, IsReady, SchemaIsCurrent, Ready, CURRENT_SCHEMA_VERSION

LEMMA CutWhenStuck == PInv => StuckIsCut
<1> SUFFICES ASSUME PInv, NEW d \in Dirs, Initialized(d), ~Opens(dbs[place[d].db])
             PROVE  dbs[place[d].db].cut \/ \E p \in Procs : Holds(p, place[d].db) /\ proc[p].pc \in Creating
  BY DEF StuckIsCut
<1>1. PICK n \in Dbs : n = place[d].db
  BY DEF PInv, ProjectTypeOK, Place, Initialized
<1>2. Sound(n) /\ Shape(dbs[n]) /\ dbs[n].versions \subseteq 1 .. 4 /\ dbs[n].columns \in {"none", "old", "full"}
  BY <1>1 DEF PInv, Made, Initialized, ProjectTypeOK, Database, CURRENT_SCHEMA_VERSION
<1>3. PICK v \in Pending(dbs[n]) : (v = 2 /\ dbs[n].columns # "old") \/ (v = 3 /\ dbs[n].columns = "none")
  BY <1>1 DEF Opens
<1>4. dbs[n].columns # "old" /\ dbs[n].versions \subseteq {1}
  <2>1. CASE v = 2
    BY <1>2, <1>3, <2>1 DEF Pending
  <2>2. CASE v = 3
    BY <1>2, <1>3, <2>2 DEF Shape
  <2> QED BY <1>3, <2>1, <2>2
<1>5. dbs[n].cut \/ \E p \in Procs : proc[p].db = n /\ Stage(proc[p], dbs[n])
  BY <1>2, <1>4 DEF Sound
<1> QED BY <1>1, <1>5 DEF Stage, Holds, Creating

LEMMA Reports == PInv => ReportsHold
<1> SUFFICES ASSUME PInv, NEW p \in Procs, proc[p].pc = "writing", proc[p].todo = {}, proc[p].cmd # "sync"
             PROVE  /\ dbs[proc[p].db].rows = Files \/ "cleared" \in proc[p].hit
                    /\ place[proc[p].at].db = proc[p].db \/ "removed" \in proc[p].hit
  BY DEF ReportsHold
<1>1. HoldsPlace(proc[p]) /\ Covers(proc[p])
  BY DEF PInv, ProcOK
<1> QED BY <1>1 DEF HoldsPlace, Covers, Steps

LEMMA Writers == PInv => OneWriter
<1> SUFFICES ASSUME PInv, NEW p \in Procs, NEW q \in Procs, p # q,
                    proc[p].pc = "writing", proc[q].pc = "writing", proc[p].db = proc[q].db,
                    "robbed" \notin proc[p].hit, "removed" \notin proc[p].hit,
                    "robbed" \notin proc[q].hit, "removed" \notin proc[q].hit
             PROVE  FALSE
  BY DEF OneWriter
<1>1. /\ HoldsPlace(proc[p]) /\ HoldsPlace(proc[q]) /\ HasLock(p, proc[p]) /\ HasLock(q, proc[q])
      /\ proc[p].at \in Dirs /\ proc[q].at \in Dirs /\ Distinct
  BY DEF PInv, ProcOK, ProjectTypeOK, Process
<1>2. proc[p].db \in Dbs /\ proc[p].db # 0
  BY <1>1, ProjectAssumption DEF HoldsPlace, Steps, Dbs
<1>3. proc[p].at = proc[q].at
  BY <1>1, <1>2 DEF HoldsPlace, Distinct, Steps
<1> QED BY <1>1, <1>3 DEF HasLock

(* A database on disk is usable unless an init was killed on it, no command *)
(* runs on an old schema, one command writes at a time, and what a command  *)
(* reports as indexed is there for the next one.                            *)
THEOREM ProjectHolds == ProjectSpec => []ProjectInv
<1>1. PInv => ProjectInv
  BY CurrentSchema, CutWhenStuck, Reports, Writers DEF PInv, ProjectInv
<1> QED BY <1>1, PInvHolds, PTL

-----------------------------------------------------------------------------
(* Third, what the reading commands answer.  Their definitions are          *)
(* recursive functions, so the proofs need induction over the naturals: a   *)
(* set that holds 0 and the successor of each of its members holds all.     *)
LEMMA NatInd ==
  ASSUME NEW S, 0 \in S, \A n \in Nat : n \in S => n + 1 \in S
  PROVE  Nat \subseteq S
<1>1. SUFFICES ASSUME Nat \ S # {} PROVE FALSE
  OBVIOUS
<1> DEFINE R == OpToRel(<, Nat)
<1>2. IsWellFoundedOn(R, Nat)
  BY NatLessThanWellFounded
<1>3. PICK x \in Nat \ S : \A y \in Nat \ S : ~(<<y, x>> \in R)
  <2> HIDE DEF R
  <2> QED BY <1>1, <1>2, WFMin
<1>4. \A i, j \in Nat : i < j => <<i, j>> \in R
  BY DEF OpToRel
<1> HIDE DEF R
<1>5. x # 0 /\ x - 1 \in Nat /\ x - 1 < x
  BY <1>3
<1>6. <<x - 1, x>> \in R
  BY <1>3, <1>4, <1>5
<1>7. x - 1 \in S
  BY <1>3, <1>4, <1>6
<1> QED BY <1>3, <1>5, <1>7

\* f starts with a and goes on by step.
Unfolds(f, n, a, step) == f[0] = a /\ \A k \in 1 .. n : f[k] = step[k][f[k - 1]]

\* A function that is defined by recursion up to n exists.
LEMMA Recursion ==
  ASSUME NEW X, NEW a \in X, NEW step \in [Nat -> [X -> X]], NEW n \in Nat
  PROVE  \E f \in [0 .. n -> X] : Unfolds(f, n, a, step)
<1> DEFINE S == {m \in Nat : \E f \in [0 .. m -> X] : Unfolds(f, m, a, step)}
<1>1. 0 \in S
  <2> DEFINE f == [k \in 0 .. 0 |-> a]
  <2>1. f \in [0 .. 0 -> X] /\ Unfolds(f, 0, a, step)
    BY DEF Unfolds
  <2> HIDE DEF f
  <2> QED BY <2>1
<1>2. ASSUME NEW m \in Nat, m \in S PROVE m + 1 \in S
  <2>1. PICK f \in [0 .. m -> X] : Unfolds(f, m, a, step)
    BY <1>2
  <2> DEFINE g == [k \in 0 .. (m + 1) |-> IF k <= m THEN f[k] ELSE step[k][f[m]]]
  <2>2. f[m] \in X /\ step[m + 1] \in [X -> X]
    BY <2>1
  <2>3. step[m + 1][f[m]] \in X
    BY <2>2
  <2>4. g \in [0 .. (m + 1) -> X]
    BY <2>1, <2>3
  <2>5. g[0] = a
    BY <2>1 DEF Unfolds
  <2>6. ASSUME NEW k \in 1 .. (m + 1) PROVE g[k] = step[k][g[k - 1]]
    BY <2>1 DEF Unfolds
  <2>7. Unfolds(g, m + 1, a, step)
    BY <2>5, <2>6 DEF Unfolds
  <2> HIDE DEF g
  <2> QED BY <2>4, <2>7
<1> HIDE DEF S
<1>3. Nat \subseteq S
  BY <1>1, <1>2, NatInd
<1> QED BY <1>3 DEF S

-----------------------------------------------------------------------------
(* What reaches a file over at most k imports grows with k, and its last     *)
(* stage is Importers.                                                       *)
OfQuestion(q) == q \in Questions /\ q.op = "affected"

Reached(q, f) == {f} \union {e[1] : e \in q.imports}
Stages(q, f, w) ==
  /\ w \in [0 .. q.depth -> SUBSET Reached(q, f)]
  /\ w[0] = {f}
  /\ \A k \in 1 .. q.depth : w[k] = w[k - 1] \union UNION {FileDependents(q, g) : g \in w[k - 1] \ q.tests}

LEMMA DependentsType ==
  ASSUME NEW q, NEW f, NEW g PROVE FileDependents(q, g) \subseteq Reached(q, f)
BY DEF FileDependents, Reached

LEMMA ImportersStages ==
  ASSUME NEW q, OfQuestion(q), NEW f
  PROVE  \E w : Stages(q, f, w) /\ Importers(q, f) = w[q.depth]
<1> DEFINE X == SUBSET Reached(q, f)
           grown(x) == x \union UNION {FileDependents(q, g) : g \in x \ q.tests}
           step == [k \in Nat |-> [x \in X |-> grown(x)]]
           body(w) == [k \in 0 .. q.depth |-> IF k = 0 THEN {f} ELSE grown(w[k - 1])]
<1>1. q.depth \in Nat
  BY QuestionsAssumption DEF OfQuestion
<1>2. \A x \in X : grown(x) \in X
  BY DependentsType
<1>3. {f} \in X
  BY DEF Reached
<1> HIDE DEF X, grown
<1>4. step \in [Nat -> [X -> X]]
  BY <1>2
<1>5. PICK g \in [0 .. q.depth -> X] : Unfolds(g, q.depth, {f}, step)
  <2> HIDE DEF step
  <2> QED BY <1>1, <1>3, <1>4, Recursion
<1>6. g[0] = {f} /\ \A k \in 1 .. q.depth : g[k] = grown(g[k - 1])
  <2>1. ASSUME NEW k \in 1 .. q.depth PROVE g[k] = grown(g[k - 1])
    <3>1. k - 1 \in 0 .. q.depth /\ k \in Nat
      BY <1>1
    <3>2. g[k - 1] \in X
      BY <3>1, <1>5
    <3>3. g[k] = step[k][g[k - 1]]
      BY <1>5 DEF Unfolds
    <3> QED BY <3>1, <3>2, <3>3
  <2> QED BY <2>1, <1>5 DEF Unfolds
<1>7. g = body(g)
  BY <1>1, <1>5, <1>6
<1>8. PICK w : w = body(w) /\ Importers(q, f) = w[q.depth]
  <2> DEFINE w == CHOOSE w : w = body(w)
  <2>1. w = body(w)
    <3> HIDE DEF body
    <3> QED BY <1>7
  <2>2. Importers(q, f) = w[q.depth]
    BY Zenon DEF Importers, grown
  <2> HIDE DEF w
  <2> QED BY <2>1, <2>2
<1>9. /\ DOMAIN w = 0 .. q.depth
      /\ w[0] = {f}
      /\ \A k \in 1 .. q.depth : w[k] = grown(w[k - 1])
  <2>1. /\ DOMAIN body(w) = 0 .. q.depth
        /\ \A k \in 0 .. q.depth : body(w)[k] = IF k = 0 THEN {f} ELSE grown(w[k - 1])
    OBVIOUS
  <2> HIDE DEF body
  <2>2. /\ DOMAIN w = 0 .. q.depth
        /\ \A k \in 0 .. q.depth : w[k] = IF k = 0 THEN {f} ELSE grown(w[k - 1])
    BY <1>8, <2>1
  <2> QED BY <1>1, <2>2
<1>10. Stages(q, f, w)
  <2> DEFINE S == {m \in Nat : m <= q.depth => w[m] \in X}
  <2>1. 0 \in S
    BY <1>3, <1>9
  <2>2. ASSUME NEW m \in Nat, m \in S PROVE m + 1 \in S
    BY <2>2, <1>1, <1>2, <1>9
  <2> HIDE DEF S
  <2>3. Nat \subseteq S
    BY <2>1, <2>2, NatInd
  <2>4. \A m \in 0 .. q.depth : w[m] \in X
    BY <2>3, <1>1 DEF S
  <2>5. w = [k \in 0 .. q.depth |-> w[k]]
    BY <1>8
  <2>6. w \in [0 .. q.depth -> X]
    BY <2>4, <2>5
  <2> QED BY <2>6, <1>9 DEF Stages, X, grown
<1> QED BY <1>8, <1>10

LEMMA StagesGrow ==
  ASSUME NEW q, OfQuestion(q), NEW f, NEW w, Stages(q, f, w), NEW k \in 0 .. q.depth
  PROVE  f \in w[k] /\ w[k] \subseteq w[q.depth]
<1>1. q.depth \in Nat
  BY QuestionsAssumption DEF OfQuestion
<1> DEFINE S == {m \in Nat : m <= q.depth => f \in w[m]}
           T == {m \in Nat : m <= q.depth => w[q.depth - m] \subseteq w[q.depth]}
<1>2. \A m \in 1 .. q.depth : w[m - 1] \subseteq w[m]
  BY DEF Stages
<1>3. 0 \in S /\ 0 \in T
  BY <1>1 DEF Stages
<1>4. ASSUME NEW m \in Nat, m \in S PROVE m + 1 \in S
  BY <1>1, <1>2, <1>4
<1>5. ASSUME NEW m \in Nat, m \in T PROVE m + 1 \in T
  <2>1. SUFFICES ASSUME m + 1 <= q.depth PROVE w[q.depth - (m + 1)] \subseteq w[q.depth]
    OBVIOUS
  <2>2. q.depth - m \in 1 .. q.depth /\ q.depth - (m + 1) = (q.depth - m) - 1
    BY <2>1, <1>1
  <2> QED BY <2>1, <2>2, <1>1, <1>2, <1>5
<1> HIDE DEF S, T
<1>6. Nat \subseteq S
  BY <1>3, <1>4, NatInd
<1>7. Nat \subseteq T
  BY <1>3, <1>5, NatInd
<1>8. k \in S /\ (q.depth - k) \in T /\ q.depth - (q.depth - k) = k
  BY <1>1, <1>6, <1>7
<1> QED BY <1>1, <1>8 DEF S, T

\* A test is reached by itself alone: no walk begins there.
LEMMA TestsAreNotWalked ==
  ASSUME NEW q, OfQuestion(q), NEW f \in q.tests PROVE Importers(q, f) = {f}
<1>1. q.depth \in Nat
  BY QuestionsAssumption DEF OfQuestion
<1>2. PICK w : Stages(q, f, w) /\ Importers(q, f) = w[q.depth]
  BY ImportersStages
<1> DEFINE S == {m \in Nat : m <= q.depth => w[m] = {f}}
<1>3. 0 \in S
  BY <1>2 DEF Stages
<1>4. ASSUME NEW m \in Nat, m \in S PROVE m + 1 \in S
  <2>1. SUFFICES ASSUME m + 1 <= q.depth PROVE w[m + 1] = {f}
    OBVIOUS
  <2>2. w[m] = {f} /\ m + 1 \in 1 .. q.depth /\ (m + 1) - 1 = m
    BY <2>1, <1>1, <1>4
  <2>3. w[m + 1] = w[m] \union UNION {FileDependents(q, g) : g \in w[m] \ q.tests}
    BY <2>2, <1>2 DEF Stages
  <2> QED BY <2>2, <2>3
<1> HIDE DEF S
<1>5. Nat \subseteq S
  BY <1>3, <1>4, NatInd
<1>6. q.depth \in S
  BY <1>1, <1>5
<1> QED BY <1>1, <1>2, <1>6 DEF S

\* A finite set in some order.
LEMMA InSomeOrder ==
  ASSUME NEW S, IsFiniteSet(S)
  PROVE  /\ SetToSeq(S) \in Seq(S)
         /\ \A x \in S : \E k \in 1 .. Len(SetToSeq(S)) : SetToSeq(S)[k] = x
<1> DEFINE n == Cardinality(S)
           s == SetToSeq(S)
<1>1. n \in Nat /\ ExistsBijection(1 .. n, S)
  BY FS_CardinalityType
<1>2. \E g \in [1 .. n -> S] : IsInjective(g)
  BY <1>1 DEF ExistsBijection, Bijection, Injection, IsInjective
<1>3. s \in [1 .. n -> S] /\ IsInjective(s)
  BY <1>2 DEF SetToSeq
<1>4. s \in Injection(1 .. n, S)
  BY <1>3 DEF Injection
<1>5. Cardinality(1 .. n) = n /\ IsFiniteSet(1 .. n)
  BY <1>1, FS_Interval
<1> HIDE DEF s
<1>6. s \in Surjection(1 .. n, S)
  <2> HIDE DEF n
  <2> QED BY <1>4, <1>5, FS_Injection DEF n
<1>7. s \in Seq(S) /\ Len(s) = n
  BY <1>1, <1>3
<1> QED BY <1>6, <1>7 DEF Surjection, s

-----------------------------------------------------------------------------
(* The walk from one changed file goes by growing distance: the queue holds  *)
(* what is as far as its head, then what is one import farther, and what is  *)
(* visited is all within the head's distance; all that was visited has been  *)
(* expanded or is in the queue.                                              *)
Entry(q) == [file : ToSet(q.changed) \union {e[1] : e \in q.imports}, depth : 0 .. q.depth]

Queued(u, v) == \E i \in 1 .. Len(u) : u[i].file = v
Expanded(q, v, visited) == FileDependents(q, v) \subseteq visited
Complete(q, u, visited) == \A v \in visited \ q.tests : Queued(u, v) \/ Expanded(q, v, visited)

ByDistance(u) ==
  \A i, j \in 1 .. Len(u) : i < j => u[i].depth <= u[j].depth /\ u[j].depth <= u[1].depth + 1
FromQueue(q, w, u, visited) ==
  \A i \in 1 .. Len(u) : u[i].file \in (w[u[i].depth] \intersect visited) \ q.tests
NotSooner(w, u) == \A i \in 1 .. Len(u) : u[i].depth = u[1].depth + 1 => u[i].file \notin w[u[1].depth]

Walking(q, w, u, visited) ==
  /\ u \in Seq(Entry(q))
  /\ visited \subseteq w[q.depth]
  /\ ByDistance(u) /\ FromQueue(q, w, u, visited)
  /\ IF u = <<>>
       THEN visited = w[q.depth]
       ELSE /\ w[u[1].depth] \subseteq visited
            /\ NotSooner(w, u)
            /\ u[1].depth < q.depth => Complete(q, u, visited)

\* The queue after its head was taken and the files of on put behind.
LEMMA QueueAfter ==
  ASSUME NEW E, NEW u \in Seq(E), u # <<>>, NEW S, NEW on \in Seq(S), NEW d,
         \A x \in S : [file |-> x, depth |-> d] \in E,
         NEW u2, u2 = Tail(u) \o [i \in 1 .. Len(on) |-> [file |-> on[i], depth |-> d]]
  PROVE  /\ u2 \in Seq(E)
         /\ Len(u) \in Nat \ {0} /\ Len(on) \in Nat /\ Len(u2) = (Len(u) - 1) + Len(on)
         /\ \A i \in 1 .. (Len(u) - 1) : u2[i] = u[i + 1]
         /\ \A i \in 1 .. Len(on) : u2[(Len(u) - 1) + i] = [file |-> on[i], depth |-> d]
         /\ Head(u) = u[1] /\ u[1] \in E
<1> DEFINE t == Tail(u)
           b == [i \in 1 .. Len(on) |-> [file |-> on[i], depth |-> d]]
<1>1. Len(u) \in Nat \ {0} /\ Len(on) \in Nat
  OBVIOUS
<1>2. t \in Seq(E) /\ Len(t) = Len(u) - 1 /\ \A i \in 1 .. (Len(u) - 1) : t[i] = u[i + 1]
  BY <1>1
<1>3. \A i \in 1 .. Len(on) : b[i] \in E
  BY <1>1
<1>4. b \in Seq(E) /\ Len(b) = Len(on) /\ \A i \in 1 .. Len(on) : b[i] = [file |-> on[i], depth |-> d]
  BY <1>1, <1>3
<1>5. Head(u) = u[1] /\ u[1] \in E
  BY <1>1
<1> HIDE DEF t, b
<1>6. u2 = t \o b
  BY DEF t, b
<1> QED BY <1>1, <1>2, <1>4, <1>5, <1>6

LEMMA DependentsFinite ==
  ASSUME NEW q, OfQuestion(q), NEW f PROVE IsFiniteSet(FileDependents(q, f))
<1> DEFINE T == {e[1] : e \in q.imports}
           g == [e \in q.imports |-> e[1]]
<1>1. IsFiniteSet(q.imports)
  BY QuestionsAssumption DEF OfQuestion
<1>2. g \in Surjection(q.imports, T)
  BY DEF Surjection
<1>3. IsFiniteSet(T)
  <2> HIDE DEF T, g
  <2> QED BY <1>1, <1>2, FS_Surjection
<1>4. FileDependents(q, f) \in SUBSET T
  BY DEF FileDependents
<1> HIDE DEF T
<1> QED BY <1>3, <1>4, FS_Subset

\* One step of the walk: the head is expanded, unless it is as far as was asked.
NewOnes(q, u, visited) == IF u[1].depth >= q.depth THEN {} ELSE FileDependents(q, u[1].file) \ visited
NextQueue(q, u, new) ==
  Tail(u) \o [i \in 1 .. Len(SetToSeq(new \ q.tests)) |->
                [file |-> SetToSeq(new \ q.tests)[i], depth |-> u[1].depth + 1]]

LEMMA VisitKeepsWalking ==
  ASSUME NEW q, OfQuestion(q), NEW f, NEW w, Stages(q, f, w), NEW u, NEW visited,
         Walking(q, w, u, visited), u # <<>>,
         NEW new, new = NewOnes(q, u, visited), NEW u2, u2 = NextQueue(q, u, new)
  PROVE  Walking(q, w, u2, visited \union new)
<1>0. PICK h, on, n, m, visited2 :
        /\ h = u[1].depth /\ on = SetToSeq(new \ q.tests) /\ n = Len(u) - 1 /\ m = Len(on)
        /\ visited2 = visited \union new
  OBVIOUS
<1>1. /\ q.depth \in Nat /\ u \in Seq(Entry(q))
      /\ w \in [0 .. q.depth -> SUBSET Reached(q, f)]
  BY QuestionsAssumption DEF OfQuestion, Walking, Stages
<1>2. u[1] \in Entry(q) /\ Len(u) \in Nat \ {0}
  BY <1>1
<1>3. h \in 0 .. q.depth
  BY <1>0, <1>2 DEF Entry
<1>4. /\ new = IF h >= q.depth THEN {} ELSE FileDependents(q, u[1].file) \ visited
      /\ new # {} => h < q.depth
  <2>1. new = IF h >= q.depth THEN {} ELSE FileDependents(q, u[1].file) \ visited
    BY <1>0 DEF NewOnes
  <2>2. new # {} => h < q.depth
    BY <2>1, <1>1, <1>3
  <2> QED BY <2>1, <2>2
<1>5. IsFiniteSet(new \ q.tests)
  <2>1. IsFiniteSet(FileDependents(q, u[1].file))
    BY DependentsFinite
  <2>2. new \ q.tests \in SUBSET FileDependents(q, u[1].file)
    BY DEF NewOnes
  <2> QED BY <2>1, <2>2, FS_Subset
<1>6. /\ on \in Seq(new \ q.tests)
      /\ \A x \in new \ q.tests : \E k \in 1 .. m : on[k] = x
  BY <1>0, <1>5, InSomeOrder
<1>7. \A x \in new \ q.tests : [file |-> x, depth |-> h + 1] \in Entry(q)
  <2> SUFFICES ASSUME NEW x \in new \ q.tests PROVE [file |-> x, depth |-> h + 1] \in Entry(q)
    OBVIOUS
  <2>1. h < q.depth /\ x \in FileDependents(q, u[1].file)
    BY <1>1, <1>3, <1>4
  <2>2. x \in {e[1] : e \in q.imports}
    BY <2>1 DEF FileDependents
  <2>3. h + 1 \in 0 .. q.depth
    BY <2>1, <1>1, <1>3
  <2> QED BY <2>2, <2>3 DEF Entry
<1>8. /\ u2 \in Seq(Entry(q)) /\ n \in Nat /\ m \in Nat /\ Len(u2) = n + m
      /\ \A i \in 1 .. n : u2[i] = u[i + 1]
      /\ \A i \in 1 .. m : u2[n + i] = [file |-> on[i], depth |-> h + 1]
  <2>1. u2 = Tail(u) \o [i \in 1 .. Len(on) |-> [file |-> on[i], depth |-> h + 1]]
    BY <1>0 DEF NextQueue
  <2> DEFINE d == h + 1
  <2> HIDE DEF d
  <2>2. u2 = Tail(u) \o [i \in 1 .. Len(on) |-> [file |-> on[i], depth |-> d]]
    BY <2>1 DEF d
  <2>3. \A x \in new \ q.tests : [file |-> x, depth |-> d] \in Entry(q)
    BY <1>7 DEF d
  <2>4. /\ u2 \in Seq(Entry(q))
        /\ Len(u) \in Nat \ {0} /\ Len(on) \in Nat /\ Len(u2) = (Len(u) - 1) + Len(on)
        /\ \A i \in 1 .. (Len(u) - 1) : u2[i] = u[i + 1]
        /\ \A i \in 1 .. Len(on) : u2[(Len(u) - 1) + i] = [file |-> on[i], depth |-> d]
    <3>1. u \in Seq(Entry(q)) /\ u # <<>> /\ on \in Seq(new \ q.tests)
      BY <1>1, <1>6
    <3> DEFINE E == Entry(q)
               S == new \ q.tests
    <3> HIDE DEF E, S
    <3>2. u \in Seq(E) /\ on \in Seq(S) /\ \A x \in S : [file |-> x, depth |-> d] \in E
      BY <2>3, <3>1 DEF E, S
    <3>3. /\ u2 \in Seq(E)
          /\ Len(u) \in Nat \ {0} /\ Len(on) \in Nat /\ Len(u2) = (Len(u) - 1) + Len(on)
          /\ \A i \in 1 .. (Len(u) - 1) : u2[i] = u[i + 1]
          /\ \A i \in 1 .. Len(on) : u2[(Len(u) - 1) + i] = [file |-> on[i], depth |-> d]
      BY <2>2, <3>1, <3>2, QueueAfter
    <3> QED BY <3>3 DEF E
  <2>5. n = Len(u) - 1 /\ m = Len(on)
    BY <1>0
  <2> HIDE DEF d
  <2>6. n \in Nat /\ m \in Nat /\ Len(u2) = n + m
    BY <2>4, <2>5
  <2>7. \A i \in 1 .. n : u2[i] = u[i + 1]
    BY <2>4, <2>5
  <2>8. \A i \in 1 .. m : u2[n + i] = [file |-> on[i], depth |-> d]
    BY <2>4, <2>5
  <2> QED BY <2>4, <2>6, <2>7, <2>8 DEF d
<1>9. \A i \in 1 .. m : on[i] \in new \ q.tests
  BY <1>0, <1>6
<1>b. h \in Nat /\ n \in Nat /\ m \in Nat /\ q.depth \in Nat /\ Len(u2) \in Nat /\ h <= q.depth
  BY <1>1, <1>3, <1>8
<1>10. /\ ByDistance(u) /\ FromQueue(q, w, u, visited) /\ NotSooner(w, u)
       /\ w[h] \subseteq visited /\ visited \subseteq w[q.depth]
       /\ h < q.depth => Complete(q, u, visited)
  BY <1>0 DEF Walking
<1>11. \A i \in 1 .. Len(u) : u[i] \in Entry(q) /\ u[i].depth \in 0 .. q.depth
  <2> SUFFICES ASSUME NEW i \in 1 .. Len(u) PROVE u[i] \in Entry(q) /\ u[i].depth \in 0 .. q.depth
    OBVIOUS
  <2>1. u[i] \in Entry(q)
    BY <1>1
  <2> QED BY <2>1 DEF Entry
\* What is behind the head, and what is put behind it.
<1>12. ASSUME NEW i \in 1 .. n
       PROVE  /\ u2[i].file \in (w[u2[i].depth] \intersect visited) \ q.tests
              /\ u2[i].depth \in {h, h + 1}
              /\ u2[i].depth = h + 1 => u2[i].file \notin w[h]
  <2>1. i + 1 \in 1 .. Len(u) /\ 1 \in 1 .. Len(u) /\ 1 < i + 1 /\ u2[i] = u[i + 1]
    BY <1>0, <1>2, <1>8
  <2>2. h <= u[i + 1].depth /\ u[i + 1].depth <= h + 1
    BY <2>1, <1>0, <1>10 DEF ByDistance
  <2>3. u[i + 1].depth \in 0 .. q.depth
    BY <2>1, <1>11
  <2>4. u[i + 1].depth \in {h, h + 1}
    BY <2>2, <2>3, <1>b
  <2>5. u[i + 1].file \in (w[u[i + 1].depth] \intersect visited) \ q.tests
    BY <2>1, <1>10 DEF FromQueue
  <2>6. u[i + 1].depth = h + 1 => u[i + 1].file \notin w[h]
    BY <2>1, <1>0, <1>10 DEF NotSooner
  <2> QED BY <2>1, <2>4, <2>5, <2>6
<1>13. h < q.depth => new \subseteq w[h + 1] /\ w[h + 1] \subseteq w[q.depth]
  <2> SUFFICES ASSUME h < q.depth PROVE new \subseteq w[h + 1] /\ w[h + 1] \subseteq w[q.depth]
    OBVIOUS
  <2>1. h + 1 \in 1 .. q.depth /\ (h + 1) - 1 = h /\ h + 1 \in 0 .. q.depth
    BY <1>1, <1>3
  <2>2. w[h + 1] = w[h] \union UNION {FileDependents(q, g) : g \in w[h] \ q.tests}
    BY <2>1 DEF Stages
  <2>3. u[1].file \in w[h] \ q.tests
    <3>1. 1 \in 1 .. Len(u)
      BY <1>2
    <3> QED BY <3>1, <1>0, <1>10 DEF FromQueue
  <2>4. FileDependents(q, u[1].file) \subseteq w[h + 1]
    BY <2>2, <2>3
  <2>5. new \subseteq FileDependents(q, u[1].file)
    BY <1>4
  <2> QED BY <2>1, <2>4, <2>5, StagesGrow
<1>14. ASSUME NEW i \in 1 .. m
       PROVE  /\ h < q.depth
              /\ u2[n + i].file \in w[h + 1] \ q.tests
              /\ u2[n + i].file \in new
              /\ u2[n + i].file \notin visited /\ u2[n + i].file \notin w[h]
              /\ u2[n + i].depth = h + 1
  <2>0. on[i] \in new \ q.tests /\ u2[n + i] = [file |-> on[i], depth |-> h + 1]
    BY <1>8, <1>9
  <2>1. on[i] \in new \ q.tests /\ u2[n + i].file = on[i] /\ u2[n + i].depth = h + 1
    <3> DEFINE e == [file |-> on[i], depth |-> h + 1]
    <3>1. e.file = on[i] /\ e.depth = h + 1
      OBVIOUS
    <3>2. u2[n + i] = e
      BY <2>0
    <3> HIDE DEF e
    <3> QED BY <2>0, <3>1, <3>2
  <2>2. h < q.depth
    BY <2>1, <1>4
  <2>3. on[i] \notin visited
    BY <2>1, <1>4
  <2> QED BY <2>1, <2>2, <2>3, <1>10, <1>13
<1>15. \A j \in 1 .. Len(u2) : j \in 1 .. n \/ (j - n \in 1 .. m /\ j = n + (j - n))
  BY <1>8
<1>16. ASSUME NEW j \in 1 .. Len(u2)
       PROVE  /\ u2[j].file \in (w[u2[j].depth] \intersect visited2) \ q.tests
              /\ u2[j].depth \in {h, h + 1}
              /\ u2[j].depth = h + 1 => u2[j].file \notin w[h]
  <2>1. CASE j \in 1 .. n
    BY <2>1, <1>0, <1>12
  <2>2. CASE j - n \in 1 .. m /\ j = n + (j - n)
    <3>1. PICK i \in 1 .. m : j = n + i
      BY <2>2
    <3> QED BY <3>1, <1>0, <1>14
  <2> QED BY <2>1, <2>2, <1>15
<1>17. visited2 \subseteq w[q.depth]
  BY <1>0, <1>4, <1>10, <1>13
<1>18. FromQueue(q, w, u2, visited2)
  BY <1>16 DEF FromQueue
<1>19. ByDistance(u2)
  <2> SUFFICES ASSUME NEW i \in 1 .. Len(u2), NEW j \in 1 .. Len(u2), i < j
               PROVE  u2[i].depth <= u2[j].depth /\ u2[j].depth <= u2[1].depth + 1
    BY DEF ByDistance
  <2>1. 1 \in 1 .. Len(u2)
    BY <1>8
  <2>2. u2[1].depth \in {h, h + 1} /\ u2[i].depth \in {h, h + 1} /\ u2[j].depth \in {h, h + 1}
    BY <2>1, <1>16
  <2>0. h \in Nat
    BY <1>1, <1>3
  <2>3. u2[j].depth <= u2[1].depth + 1
    BY <1>b, <2>2
  <2>4. u2[i].depth <= u2[j].depth
    <3>1. CASE j \in 1 .. n
      <4>1. /\ i \in 1 .. n /\ i + 1 \in 1 .. Len(u) /\ j + 1 \in 1 .. Len(u) /\ i + 1 < j + 1
            /\ u2[i] = u[i + 1] /\ u2[j] = u[j + 1]
        BY <3>1, <1>0, <1>2, <1>8
      <4> QED BY <4>1, <1>10 DEF ByDistance
    <3>2. CASE j - n \in 1 .. m /\ j = n + (j - n)
      <4>0. PICK k \in 1 .. m : j = n + k
        BY <3>2
      <4>1. u2[j].depth = h + 1
        BY <4>0, <1>14
      <4> QED BY <4>1, <1>b, <2>2
    <3> QED BY <3>1, <3>2, <1>15
  <2> QED BY <2>3, <2>4
<1>20. h < q.depth => Complete(q, u2, visited2)
  <2> SUFFICES ASSUME h < q.depth, NEW v \in visited2 \ q.tests
               PROVE  Queued(u2, v) \/ Expanded(q, v, visited2)
    BY DEF Complete
  <2>1. CASE v \in new
    <3>1. PICK k \in 1 .. m : on[k] = v
      BY <2>1, <1>0, <1>6
    <3>2. n + k \in 1 .. Len(u2)
      BY <3>1, <1>8, <1>b
    <3>3. u2[n + k].file = v
      <4> DEFINE e == [file |-> on[k], depth |-> h + 1]
      <4>1. e.file = on[k]
        OBVIOUS
      <4>2. u2[n + k] = e
        BY <3>1, <1>8
      <4> HIDE DEF e
      <4> QED BY <3>1, <4>1, <4>2
    <3> QED BY <3>2, <3>3 DEF Queued
  <2>2. CASE v = u[1].file
    BY <2>2, <1>0, <1>1, <1>3, <1>4 DEF Expanded
  <2>3. CASE v \in visited /\ v # u[1].file
    <3>1. Queued(u, v) \/ Expanded(q, v, visited)
      BY <2>3, <1>10 DEF Complete
    <3>2. CASE Queued(u, v)
      <4>1. PICK i \in 1 .. Len(u) : u[i].file = v
        BY <3>2 DEF Queued
      <4>2. i - 1 \in 1 .. n /\ i - 1 \in 1 .. Len(u2) /\ (i - 1) + 1 = i
        BY <4>1, <2>3, <1>0, <1>2, <1>8
      <4>3. u2[i - 1].file = v
        BY <4>1, <4>2, <1>8
      <4> QED BY <4>2, <4>3 DEF Queued
    <3>3. CASE Expanded(q, v, visited)
      BY <3>3, <1>0 DEF Expanded
    <3> QED BY <3>1, <3>2, <3>3
  <2> QED BY <1>0, <2>1, <2>2, <2>3
<1>21. CASE u2 # <<>>
  <2>0. h \in Nat
    BY <1>1, <1>3
  <2>1. 1 \in 1 .. Len(u2)
    <3>1. Len(u2) \in Nat /\ Len(u2) # 0
      <4>1. u2 \in Seq(Entry(q))
        BY <1>8
      <4> QED BY <4>1, <1>21
    <3> QED BY <3>1
  <2>2. u2[1].depth \in {h, h + 1}
    BY <2>1, <1>16
  <2>3. CASE u2[1].depth = h
    <3>1. NotSooner(w, u2)
      BY <2>3, <1>16 DEF NotSooner
    <3>2. w[u2[1].depth] \subseteq visited2
      BY <2>3, <1>0, <1>10
    <3> QED BY <1>0, <3>1, <3>2, <2>3, <1>8, <1>17, <1>18, <1>19, <1>20, <1>21 DEF Walking
  <2>4. CASE u2[1].depth = h + 1
    <3>1. \A j \in 1 .. Len(u2) : u2[j].depth = h + 1
      <4> SUFFICES ASSUME NEW j \in 1 .. Len(u2) PROVE u2[j].depth = h + 1
        OBVIOUS
      <4>1. CASE j = 1
        BY <4>1, <2>4
      <4>2. CASE j # 1
        <5>1. 1 < j /\ u2[j].depth \in {h, h + 1}
          <6>1. j \in Nat /\ j >= 1
            BY <1>b
          <6>2. u2[j].depth \in {h, h + 1}
            BY <1>16
          <6> QED BY <6>1, <6>2, <4>2
        <5>2. u2[1].depth <= u2[j].depth
          BY <5>1, <2>1, <1>19 DEF ByDistance
        <5> QED BY <5>1, <5>2, <2>4, <1>b
      <4> QED BY <4>1, <4>2
    <3>2. h < q.depth
      <4>1. u2[1] \in Entry(q)
        <5>1. u2 \in Seq(Entry(q))
          BY <1>8
        <5> QED BY <5>1, <2>1
      <4>2. u2[1].depth \in 0 .. q.depth
        BY <4>1 DEF Entry
      <4>3. h + 1 <= q.depth
        BY <4>2, <2>4, <1>b
      <4> QED BY <4>3, <2>0, <1>1
    <3>3. \A v \in w[h] : ~Queued(u2, v)
      <4> SUFFICES ASSUME NEW v \in w[h], NEW j \in 1 .. Len(u2), u2[j].file = v PROVE FALSE
        BY DEF Queued
      <4>1. u2[j].depth = h + 1
        BY <3>1
      <4> QED BY <4>1, <1>16
    <3>4. \A v \in w[h] \ q.tests : FileDependents(q, v) \subseteq visited2
      BY <3>2, <3>3, <1>0, <1>10, <1>20 DEF Complete, Expanded
    <3>5. h + 1 \in 1 .. q.depth /\ (h + 1) - 1 = h
      BY <3>2, <1>1, <1>3
    <3>6. w[h + 1] = w[h] \union UNION {FileDependents(q, g) : g \in w[h] \ q.tests}
      BY <3>5 DEF Stages
    <3>7. w[u2[1].depth] \subseteq visited2
      <4>1. w[h] \subseteq visited2
        BY <1>0, <1>10
      <4>2. w[h + 1] \subseteq visited2
        BY <4>1, <3>4, <3>6
      <4> QED BY <4>2, <2>4
    <3>8. NotSooner(w, u2)
      <4>1. h + 1 # (h + 1) + 1
        BY <2>0
      <4> QED BY <4>1, <2>4, <3>1 DEF NotSooner
    <3> QED BY <1>0, <3>2, <3>7, <3>8, <1>8, <1>17, <1>18, <1>19, <1>20, <1>21 DEF Walking
  <2> QED BY <2>2, <2>3, <2>4
<1>22. CASE u2 = <<>>
  <2>1. w[q.depth] \subseteq visited2
    <3>1. CASE h = q.depth
      BY <3>1, <1>0, <1>10
    <3>2. CASE h < q.depth
      <4>1. \A v \in visited2 \ q.tests : FileDependents(q, v) \subseteq visited2
        <5>1. Len(u2) = 0
          <6>1. u2 \in Seq(Entry(q))
            BY <1>8
          <6> QED BY <6>1, <1>22
        <5>2. \A v : ~Queued(u2, v)
          <6>1. 1 .. Len(u2) = {}
            BY <5>1
          <6> QED BY <6>1 DEF Queued
        <5> QED BY <3>2, <5>2, <1>20 DEF Complete, Expanded
      <4> DEFINE S == {k \in Nat : h + k <= q.depth => w[h + k] \subseteq visited2}
      <4>0. h \in Nat
        BY <1>1, <1>3
      <4>2. 0 \in S
        BY <4>0, <1>0, <1>10
      <4>3. ASSUME NEW k \in Nat, k \in S PROVE k + 1 \in S
        <5>1. SUFFICES ASSUME h + (k + 1) <= q.depth PROVE w[h + (k + 1)] \subseteq visited2
          OBVIOUS
        <5>2. h + (k + 1) \in 1 .. q.depth /\ (h + (k + 1)) - 1 = h + k /\ h + k <= q.depth
          BY <5>1, <4>0, <1>1
        <5>3. w[h + (k + 1)] = w[h + k] \union UNION {FileDependents(q, g) : g \in w[h + k] \ q.tests}
          BY <5>2 DEF Stages
        <5>4. w[h + k] \subseteq visited2
          BY <5>2, <4>3
        <5> QED BY <5>3, <5>4, <4>1
      <4> HIDE DEF S
      <4>4. Nat \subseteq S
        BY <4>2, <4>3, NatInd
      <4>5. q.depth - h \in S /\ h + (q.depth - h) = q.depth
        BY <4>4, <4>0, <1>1, <1>3
      <4> QED BY <4>5, <4>0, <1>1 DEF S
    <3> QED BY <3>1, <3>2, <1>1, <1>3
  <2>2. visited2 = w[q.depth]
    BY <2>1, <1>17
  <2> QED BY <1>0, <2>2, <1>8, <1>17, <1>18, <1>19, <1>22 DEF Walking
<1> QED BY <1>21, <1>22

-----------------------------------------------------------------------------
(* After i changed files, what was found is the tests that reach one of      *)
(* them; while the next is walked, those that were visited from it too.      *)
Past(q, i) == UNION {Importers(q, q.changed[j]) : j \in 1 .. i}
AllReached(q) == q.tests \intersect UNION {Importers(q, f) : f \in ToSet(q.changed)}

LeftAfter(q, left, i) ==
  /\ i \in 0 .. Len(q.changed)
  /\ Len(left) = Len(q.changed) - i
  /\ \A j \in 1 .. Len(left) : left[j] = q.changed[i + j]

FoundAfter(q, u, visited, found, i) ==
  IF u = <<>> THEN found = q.tests \intersect Past(q, i)
  ELSE /\ i # 0
       /\ found = q.tests \intersect (Past(q, i - 1) \union visited)
       /\ \E w : /\ Stages(q, q.changed[i], w) /\ Importers(q, q.changed[i]) = w[q.depth]
                 /\ Walking(q, w, u, visited)

AffectedOK(q, left, u, visited, found) ==
  /\ left \in Seq(ToSet(q.changed))
  /\ \E i : LeftAfter(q, left, i) /\ FoundAfter(q, u, visited, found, i)

LEMMA ChangedType ==
  ASSUME NEW q, OfQuestion(q)
  PROVE  /\ q.changed \in Seq(ToSet(q.changed)) /\ Len(q.changed) \in Nat
         /\ q.depth \in Nat
         /\ \A j \in 1 .. Len(q.changed) : q.changed[j] \in ToSet(q.changed)
         /\ \A f \in ToSet(q.changed) : \E j \in 1 .. Len(q.changed) : q.changed[j] = f
<1>1. q.changed \in Seq(ToSet(q.changed)) /\ q.depth \in Nat
  BY QuestionsAssumption DEF OfQuestion
<1>2. Len(q.changed) \in Nat /\ DOMAIN q.changed = 1 .. Len(q.changed)
  BY <1>1
<1> QED BY <1>1, <1>2 DEF ToSet

LEMMA PastGrows ==
  ASSUME NEW q, NEW i \in Nat
  PROVE  Past(q, i + 1) = Past(q, i) \union Importers(q, q.changed[i + 1])
<1>1. 1 .. (i + 1) = (1 .. i) \union {i + 1}
  OBVIOUS
<1> QED BY <1>1 DEF Past

LEMMA NextFile ==
  ASSUME NEW q, OfQuestion(q), NEW left \in Seq(ToSet(q.changed)), left # <<>>, NEW i, LeftAfter(q, left, i)
  PROVE  /\ Tail(left) \in Seq(ToSet(q.changed))
         /\ LeftAfter(q, Tail(left), i + 1)
         /\ i \in Nat /\ Head(left) = q.changed[i + 1] /\ Head(left) \in ToSet(q.changed)
<1>1. Len(left) \in Nat \ {0} /\ Head(left) = left[1] /\ left[1] \in ToSet(q.changed)
  OBVIOUS
<1>2. /\ Tail(left) \in Seq(ToSet(q.changed)) /\ Len(Tail(left)) = Len(left) - 1
      /\ \A j \in 1 .. (Len(left) - 1) : Tail(left)[j] = left[j + 1]
  BY <1>1
<1>3. i \in 0 .. Len(q.changed) /\ Len(q.changed) \in Nat /\ Len(left) = Len(q.changed) - i
  BY ChangedType DEF LeftAfter
<1>4. i + 1 \in 0 .. Len(q.changed) /\ Len(Tail(left)) = Len(q.changed) - (i + 1)
  BY <1>1, <1>2, <1>3
<1>5. ASSUME NEW j \in 1 .. Len(Tail(left)) PROVE Tail(left)[j] = q.changed[(i + 1) + j]
  <2>1. j \in 1 .. (Len(left) - 1) /\ j + 1 \in 1 .. Len(left) /\ i + (j + 1) = (i + 1) + j
    BY <1>1, <1>2, <1>3
  <2>2. left[j + 1] = q.changed[i + (j + 1)]
    BY <2>1 DEF LeftAfter
  <2> QED BY <2>1, <2>2, <1>2
<1>6. left[1] = q.changed[i + 1]
  <2>1. 1 \in 1 .. Len(left)
    BY <1>1
  <2> QED BY <2>1 DEF LeftAfter
<1> QED BY <1>1, <1>2, <1>3, <1>4, <1>5, <1>6 DEF LeftAfter

LEMMA BeginsOK ==
  ASSUME NEW q, OfQuestion(q)
  PROVE  AffectedOK(q, q.changed, <<>>, {}, {})
<1>1. LeftAfter(q, q.changed, 0)
  BY ChangedType DEF LeftAfter
<1>2. FoundAfter(q, <<>>, {}, {}, 0)
  BY DEF FoundAfter, Past
<1> QED BY <1>1, <1>2, ChangedType DEF AffectedOK

LEMMA TestTaken ==
  ASSUME NEW q, OfQuestion(q), NEW left, NEW visited, NEW found,
         AffectedOK(q, left, <<>>, visited, found), left # <<>>, Head(left) \in q.tests
  PROVE  AffectedOK(q, Tail(left), <<>>, visited, found \union {Head(left)})
<1>1. PICK i : LeftAfter(q, left, i) /\ FoundAfter(q, <<>>, visited, found, i)
  BY DEF AffectedOK
<1>2. /\ Tail(left) \in Seq(ToSet(q.changed)) /\ LeftAfter(q, Tail(left), i + 1)
      /\ i \in Nat /\ Head(left) = q.changed[i + 1]
  BY <1>1, NextFile DEF AffectedOK
<1>3. Past(q, i + 1) = Past(q, i) \union {Head(left)}
  <2>1. Importers(q, q.changed[i + 1]) = {Head(left)}
    BY <1>2, TestsAreNotWalked
  <2> QED BY <2>1, <1>2, PastGrows
<1>4. FoundAfter(q, <<>>, visited, found \union {Head(left)}, i + 1)
  BY <1>1, <1>3 DEF FoundAfter
<1> QED BY <1>2, <1>4 DEF AffectedOK

LEMMA WalkBegins ==
  ASSUME NEW q, OfQuestion(q), NEW left, NEW visited, NEW found,
         AffectedOK(q, left, <<>>, visited, found), left # <<>>, Head(left) \notin q.tests
  PROVE  AffectedOK(q, Tail(left), <<[file |-> Head(left), depth |-> 0]>>, {Head(left)}, found)
<1> DEFINE f == Head(left)
           e == [file |-> f, depth |-> 0]
           u == <<e>>
<1>1. PICK i : LeftAfter(q, left, i) /\ FoundAfter(q, <<>>, visited, found, i)
  BY DEF AffectedOK
<1>2. /\ Tail(left) \in Seq(ToSet(q.changed)) /\ LeftAfter(q, Tail(left), i + 1)
      /\ i \in Nat /\ f = q.changed[i + 1] /\ f \in ToSet(q.changed)
  BY <1>1, NextFile DEF AffectedOK
<1>3. q.depth \in Nat
  BY ChangedType
<1>4. PICK w : Stages(q, f, w) /\ Importers(q, f) = w[q.depth]
  BY ImportersStages
<1>5. w[0] = {f} /\ {f} \subseteq w[q.depth]
  <2>1. 0 \in 0 .. q.depth
    BY <1>3
  <2> QED BY <2>1, <1>4, StagesGrow DEF Stages
<1>6. e \in Entry(q) /\ e.file = f /\ e.depth = 0
  BY <1>2, <1>3 DEF Entry
<1> HIDE DEF e
<1>7. u \in Seq(Entry(q)) /\ Len(u) = 1 /\ u[1] = e /\ u # <<>>
  BY <1>6
<1> HIDE DEF u, f
<1>8. ByDistance(u) /\ NotSooner(w, u)
  BY <1>6, <1>7 DEF ByDistance, NotSooner
<1>9. f \notin q.tests
  BY DEF f
<1>10. FromQueue(q, w, u, {f})
  BY <1>5, <1>6, <1>7, <1>9 DEF FromQueue
<1>11. Complete(q, u, {f})
  BY <1>6, <1>7 DEF Complete, Queued
<1>12. Walking(q, w, u, {f})
  BY <1>5, <1>6, <1>7, <1>8, <1>10, <1>11 DEF Walking
<1>13. FoundAfter(q, u, {f}, found, i + 1)
  <2>1. i + 1 # 0 /\ (i + 1) - 1 = i
    BY <1>2
  <2>2. found = q.tests \intersect (Past(q, i) \union {f})
    BY <1>1, <1>9 DEF FoundAfter
  <2>3. Stages(q, q.changed[i + 1], w) /\ Importers(q, q.changed[i + 1]) = w[q.depth]
    BY <1>2, <1>4
  <2> QED BY <2>1, <2>2, <2>3, <1>7, <1>12 DEF FoundAfter
<1>14. AffectedOK(q, Tail(left), u, {f}, found)
  BY <1>2, <1>13 DEF AffectedOK
<1> QED BY <1>14 DEF u, e, f

LEMMA WalkGoesOn ==
  ASSUME NEW q, OfQuestion(q), NEW left, NEW u, NEW visited, NEW found,
         AffectedOK(q, left, u, visited, found), u # <<>>,
         NEW new, new = NewOnes(q, u, visited), NEW u2, u2 = NextQueue(q, u, new)
  PROVE  AffectedOK(q, left, u2, visited \union new, found \union (new \intersect q.tests))
<1>1. PICK i : LeftAfter(q, left, i) /\ FoundAfter(q, u, visited, found, i)
  BY DEF AffectedOK
<1>2. i # 0 /\ found = q.tests \intersect (Past(q, i - 1) \union visited)
  BY <1>1 DEF FoundAfter
<1>3. PICK w : /\ Stages(q, q.changed[i], w) /\ Importers(q, q.changed[i]) = w[q.depth]
               /\ Walking(q, w, u, visited)
  BY <1>1 DEF FoundAfter
<1>4. Walking(q, w, u2, visited \union new)
  BY <1>3, VisitKeepsWalking
<1>5. found \union (new \intersect q.tests) = q.tests \intersect (Past(q, i - 1) \union (visited \union new))
  BY <1>2
<1>6. CASE u2 # <<>>
  <2>1. FoundAfter(q, u2, visited \union new, found \union (new \intersect q.tests), i)
    BY <1>2, <1>3, <1>4, <1>5, <1>6 DEF FoundAfter
  <2> QED BY <2>1, <1>1 DEF AffectedOK
<1>7. CASE u2 = <<>>
  <2>1. visited \union new = Importers(q, q.changed[i])
    BY <1>3, <1>4, <1>7 DEF Walking
  <2>2. i - 1 \in Nat /\ (i - 1) + 1 = i
    <3>1. i \in 0 .. Len(q.changed) /\ Len(q.changed) \in Nat
      BY <1>1, ChangedType DEF LeftAfter
    <3> QED BY <3>1, <1>2
  <2>3. Past(q, i) = Past(q, i - 1) \union Importers(q, q.changed[i])
    <3>1. Past(q, (i - 1) + 1) = Past(q, i - 1) \union Importers(q, q.changed[(i - 1) + 1])
      BY <2>2, PastGrows
    <3> QED BY <3>1, <2>2
  <2>4. found \union (new \intersect q.tests) = q.tests \intersect Past(q, i)
    BY <2>1, <2>3, <1>5
  <2>5. FoundAfter(q, u2, visited \union new, found \union (new \intersect q.tests), i)
    BY <2>4, <1>7 DEF FoundAfter
  <2> QED BY <2>5, <1>1 DEF AffectedOK
<1> QED BY <1>6, <1>7

LEMMA AllFound ==
  ASSUME NEW q, OfQuestion(q), NEW visited, NEW found, AffectedOK(q, <<>>, <<>>, visited, found)
  PROVE  found = AllReached(q)
<1>1. PICK i : LeftAfter(q, <<>>, i) /\ FoundAfter(q, <<>>, visited, found, i)
  BY DEF AffectedOK
<1>2. i = Len(q.changed)
  <2>1. i \in 0 .. Len(q.changed) /\ Len(q.changed) \in Nat /\ 0 = Len(q.changed) - i
    BY <1>1, ChangedType DEF LeftAfter
  <2> QED BY <2>1
<1>3. found = q.tests \intersect Past(q, i)
  BY <1>1 DEF FoundAfter
<1>4. Past(q, i) = UNION {Importers(q, f) : f \in ToSet(q.changed)}
  <2>1. {q.changed[j] : j \in 1 .. i} = ToSet(q.changed)
    BY <1>2, ChangedType
  <2> QED BY <2>1 DEF Past
<1> QED BY <1>3, <1>4 DEF AllReached

-----------------------------------------------------------------------------
(* What answers for a name comes once and from all the matches that are      *)
(* taken for it.                                                             *)
Once(s) == \A i, j \in 1 .. Len(s) : s[i] = s[j] => i = j

LEMMA MembersOf ==
  ASSUME NEW T, NEW s \in Seq(T)
  PROVE  /\ Len(s) \in Nat /\ ToSet(s) = {s[i] : i \in 1 .. Len(s)} /\ ToSet(s) \subseteq T
         /\ (ToSet(s) = {} <=> s = <<>>)
<1>1. Len(s) \in Nat /\ DOMAIN s = 1 .. Len(s) /\ \A i \in 1 .. Len(s) : s[i] \in T
  OBVIOUS
<1>2. ToSet(s) = {s[i] : i \in 1 .. Len(s)}
  BY <1>1 DEF ToSet
<1>3. s = <<>> => ToSet(s) = {}
  BY DEF ToSet
<1>4. s # <<>> => 1 \in 1 .. Len(s)
  BY <1>1
<1> QED BY <1>1, <1>2, <1>3, <1>4

LEMMA MembersAppended ==
  ASSUME NEW T, NEW s \in Seq(T), NEW x \in T
  PROVE  Append(s, x) \in Seq(T) /\ ToSet(Append(s, x)) = ToSet(s) \union {x}
         /\ (Once(s) /\ x \notin ToSet(s) => Once(Append(s, x)))
<1> DEFINE t == Append(s, x)
<1>1. /\ t \in Seq(T) /\ Len(s) \in Nat /\ Len(t) = Len(s) + 1
      /\ t[Len(s) + 1] = x /\ \A i \in 1 .. Len(s) : t[i] = s[i]
  OBVIOUS
<1> HIDE DEF t
<1>2. ToSet(t) = {t[i] : i \in 1 .. Len(t)} /\ ToSet(s) = {s[i] : i \in 1 .. Len(s)}
  BY <1>1, MembersOf
<1>3. 1 .. Len(t) = (1 .. Len(s)) \union {Len(s) + 1}
  BY <1>1
<1>4. ToSet(t) = ToSet(s) \union {x}
  BY <1>1, <1>2, <1>3
<1>5. ASSUME Once(s), x \notin ToSet(s) PROVE Once(t)
  <2> SUFFICES ASSUME NEW i \in 1 .. Len(t), NEW j \in 1 .. Len(t), t[i] = t[j] PROVE i = j
    BY DEF Once
  <2>1. \A k \in 1 .. Len(s) : t[k] # x
    BY <1>1, <1>2, <1>5
  <2>2. CASE i = Len(s) + 1 \/ j = Len(s) + 1
    BY <2>1, <2>2, <1>1, <1>3
  <2>3. CASE i \in 1 .. Len(s) /\ j \in 1 .. Len(s)
    BY <2>3, <1>1, <1>5 DEF Once
  <2> QED BY <2>2, <2>3, <1>3
<1> QED BY <1>1, <1>4, <1>5 DEF t

LEMMA AddingType ==
  ASSUME NEW T, NEW got \in Seq(T), Once(got), NEW things \in Seq(T)
  PROVE  /\ Adding(got, things) \in Seq(T) /\ Once(Adding(got, things))
         /\ ToSet(Adding(got, things)) = ToSet(got) \union ToSet(things)
<1> DEFINE X == Seq(T)
           n == Len(things)
           with(x, k) == IF things[k] \in ToSet(x) THEN x ELSE Append(x, things[k])
           step == [k \in Nat |-> [x \in X |-> IF k \in 1 .. n THEN with(x, k) ELSE x]]
           body(w) == [k \in 0 .. n |-> IF k = 0 THEN got ELSE with(w[k - 1], k)]
<1>1. n \in Nat /\ got \in X /\ \A k \in 1 .. n : things[k] \in T
  OBVIOUS
<1>2. ASSUME NEW k \in 1 .. n, NEW x \in X
      PROVE  /\ with(x, k) \in X
             /\ ToSet(with(x, k)) = ToSet(x) \union {things[k]}
             /\ Once(x) => Once(with(x, k))
  <2>1. things[k] \in T
    BY <1>1
  <2>2. CASE things[k] \in ToSet(x)
    BY <2>2
  <2>3. CASE things[k] \notin ToSet(x)
    <3>1. /\ Append(x, things[k]) \in Seq(T)
          /\ ToSet(Append(x, things[k])) = ToSet(x) \union {things[k]}
          /\ Once(x) => Once(Append(x, things[k]))
      BY <2>1, <2>3, MembersAppended
    <3> QED BY <3>1, <2>3
  <2> QED BY <2>2, <2>3
<1> HIDE DEF X, n, with
<1>3. step \in [Nat -> [X -> X]]
  BY <1>2
<1>4. PICK g \in [0 .. n -> X] : Unfolds(g, n, got, step)
  <2> HIDE DEF step
  <2> QED BY <1>1, <1>3, Recursion
<1>5. \A k \in 1 .. n : g[k] = with(g[k - 1], k)
  <2> SUFFICES ASSUME NEW k \in 1 .. n PROVE g[k] = with(g[k - 1], k)
    OBVIOUS
  <2>1. k - 1 \in 0 .. n /\ k \in Nat
    BY <1>1
  <2>2. g[k - 1] \in X
    BY <2>1, <1>4
  <2>3. g[k] = step[k][g[k - 1]]
    BY <1>4 DEF Unfolds
  <2> QED BY <2>1, <2>2, <2>3
<1>6. g = body(g)
  BY <1>1, <1>4, <1>5 DEF Unfolds
<1>7. PICK w : w = body(w) /\ Adding(got, things) = w[n]
  <2> DEFINE w == CHOOSE w : w = body(w)
  <2>1. w = body(w)
    <3> HIDE DEF body
    <3> QED BY <1>6
  <2>2. Adding(got, things) = w[n]
    BY Zenon DEF Adding, with, n
  <2> HIDE DEF w
  <2> QED BY <2>1, <2>2
<1>8. w[0] = got /\ \A k \in 1 .. n : w[k] = with(w[k - 1], k)
  <2>1. \A k \in 0 .. n : body(w)[k] = IF k = 0 THEN got ELSE with(w[k - 1], k)
    OBVIOUS
  <2> HIDE DEF body
  <2>2. \A k \in 0 .. n : w[k] = IF k = 0 THEN got ELSE with(w[k - 1], k)
    BY <1>7, <2>1
  <2> QED BY <1>1, <2>2
<1> DEFINE S == {m \in Nat : m <= n => /\ w[m] \in X /\ Once(w[m])
                                       /\ ToSet(w[m]) = ToSet(got) \union {things[j] : j \in 1 .. m}}
<1>9. 0 \in S
  BY <1>1, <1>8
<1>10. ASSUME NEW m \in Nat, m \in S PROVE m + 1 \in S
  <2>1. SUFFICES ASSUME m + 1 <= n
                 PROVE  /\ w[m + 1] \in X /\ Once(w[m + 1])
                        /\ ToSet(w[m + 1]) = ToSet(got) \union {things[j] : j \in 1 .. (m + 1)}
    OBVIOUS
  <2>2. m + 1 \in 1 .. n /\ (m + 1) - 1 = m /\ m <= n
    BY <2>1, <1>1
  <2>3. w[m] \in X /\ Once(w[m]) /\ ToSet(w[m]) = ToSet(got) \union {things[j] : j \in 1 .. m}
    BY <2>2, <1>10
  <2>4. w[m + 1] = with(w[m], m + 1)
    BY <2>2, <1>8
  <2>5. 1 .. (m + 1) = (1 .. m) \union {m + 1}
    OBVIOUS
  <2>6. /\ with(w[m], m + 1) \in X /\ Once(with(w[m], m + 1))
        /\ ToSet(with(w[m], m + 1)) = ToSet(w[m]) \union {things[m + 1]}
    BY <2>2, <2>3, <1>2
  <2>7. {things[j] : j \in 1 .. (m + 1)} = {things[j] : j \in 1 .. m} \union {things[m + 1]}
    BY <2>5
  <2> QED BY <2>3, <2>4, <2>6, <2>7
<1> HIDE DEF S
<1>11. Nat \subseteq S
  BY <1>9, <1>10, NatInd
<1>12. /\ w[n] \in X /\ Once(w[n])
       /\ ToSet(w[n]) = ToSet(got) \union {things[j] : j \in 1 .. n}
  <2>1. n \in S /\ n <= n
    BY <1>1, <1>11
  <2> QED BY <2>1 DEF S
<1>13. ToSet(things) = {things[j] : j \in 1 .. n}
  BY MembersOf DEF n
<1> QED BY <1>7, <1>12, <1>13 DEF X

OfName(q) == q \in Questions /\ q.op # "affected"
Things(q) == UNION {ToSet(m.of) : m \in ToSet(q.matches)}

LEMMA MatchesType ==
  ASSUME NEW q, OfName(q)
  PROVE  /\ q.op \in {"callers", "callees", "impact"} /\ q.limit \in Nat
         /\ Len(q.matches) \in Nat
         /\ ToSet(q.matches) = {q.matches[i] : i \in 1 .. Len(q.matches)}
         /\ (q.matches = <<>> <=> Len(q.matches) = 0)
         /\ \A i \in 1 .. Len(q.matches) :
               q.matches[i].exact \in BOOLEAN /\ q.matches[i].of \in Seq(Things(q))
<1>1. /\ q.op \in {"callers", "callees", "impact"} /\ q.limit \in Nat
      /\ q.matches \in Seq(ToSet(q.matches))
      /\ \A m \in ToSet(q.matches) : m.exact \in BOOLEAN /\ m.of \in Seq(ToSet(m.of))
  BY QuestionsAssumption DEF OfName
<1>2. Len(q.matches) \in Nat /\ ToSet(q.matches) = {q.matches[i] : i \in 1 .. Len(q.matches)}
  BY <1>1, MembersOf
<1>3. q.matches = <<>> <=> Len(q.matches) = 0
  BY <1>1
<1>4. ASSUME NEW i \in 1 .. Len(q.matches)
      PROVE  q.matches[i].exact \in BOOLEAN /\ q.matches[i].of \in Seq(Things(q))
  <2>1. q.matches[i] \in ToSet(q.matches)
    BY <1>2
  <2>2. ToSet(q.matches[i].of) \subseteq Things(q)
    BY <2>1 DEF Things
  <2>3. q.matches[i].of \in Seq(ToSet(q.matches[i].of))
    BY <2>1, <1>1
  <2>4. \A S, T, s : S \subseteq T /\ s \in Seq(S) => s \in Seq(T)
    OBVIOUS
  <2>5. q.matches[i].of \in Seq(Things(q))
    BY <2>2, <2>3, <2>4
  <2> QED BY <2>1, <2>5, <1>1
<1> QED BY <1>1, <1>2, <1>3, <1>4

TakenUpTo(q, i) == UNION {ToSet(q.matches[j].of) : j \in {j \in 1 .. i : Taken(q, q.matches[j])}}

LEMMA GatheredType ==
  ASSUME NEW q, OfName(q)
  PROVE  /\ Gathered(q) \in Seq(Things(q)) /\ Once(Gathered(q))
         /\ ToSet(Gathered(q)) = TakenUpTo(q, Len(q.matches))
<1> DEFINE X == {s \in Seq(Things(q)) : Once(s)}
           n == Len(q.matches)
           with(x, k) == IF Taken(q, q.matches[k]) THEN Adding(x, q.matches[k].of) ELSE x
           step == [k \in Nat |-> [x \in X |-> IF k \in 1 .. n THEN with(x, k) ELSE x]]
           body(w) == [k \in 0 .. n |-> IF k = 0 THEN <<>> ELSE with(w[k - 1], k)]
<1>1. n \in Nat
  BY MatchesType
<1>a. <<>> \in X
  BY DEF Once
<1>2. ASSUME NEW k \in 1 .. n, NEW x \in X
      PROVE  /\ with(x, k) \in X
             /\ ToSet(with(x, k)) = ToSet(x) \union (IF Taken(q, q.matches[k]) THEN ToSet(q.matches[k].of) ELSE {})
  <2>1. x \in Seq(Things(q)) /\ Once(x) /\ q.matches[k].of \in Seq(Things(q))
    BY MatchesType
  <2>2. /\ Adding(x, q.matches[k].of) \in Seq(Things(q)) /\ Once(Adding(x, q.matches[k].of))
        /\ ToSet(Adding(x, q.matches[k].of)) = ToSet(x) \union ToSet(q.matches[k].of)
    BY <2>1, AddingType
  <2> QED BY <2>1, <2>2
<1> HIDE DEF X, n, with
<1>3. step \in [Nat -> [X -> X]]
  BY <1>2
<1>4. PICK g \in [0 .. n -> X] : Unfolds(g, n, <<>>, step)
  <2> HIDE DEF step
  <2> QED BY <1>1, <1>a, <1>3, Recursion
<1>5. \A k \in 1 .. n : g[k] = with(g[k - 1], k)
  <2> SUFFICES ASSUME NEW k \in 1 .. n PROVE g[k] = with(g[k - 1], k)
    OBVIOUS
  <2>1. k - 1 \in 0 .. n /\ k \in Nat
    BY <1>1
  <2>2. g[k - 1] \in X
    BY <2>1, <1>4
  <2>3. g[k] = step[k][g[k - 1]]
    BY <1>4 DEF Unfolds
  <2> QED BY <2>1, <2>2, <2>3
<1>6. g = body(g)
  BY <1>1, <1>4, <1>5 DEF Unfolds
<1>7. PICK w : w = body(w) /\ Gathered(q) = w[n]
  <2> DEFINE w == CHOOSE w : w = body(w)
  <2>1. w = body(w)
    <3> HIDE DEF body
    <3> QED BY <1>6
  <2>2. Gathered(q) = w[n]
    BY Zenon DEF Gathered, with, n
  <2> HIDE DEF w
  <2> QED BY <2>1, <2>2
<1>8. w[0] = <<>> /\ \A k \in 1 .. n : w[k] = with(w[k - 1], k)
  <2>1. \A k \in 0 .. n : body(w)[k] = IF k = 0 THEN <<>> ELSE with(w[k - 1], k)
    OBVIOUS
  <2> HIDE DEF body
  <2>2. \A k \in 0 .. n : w[k] = IF k = 0 THEN <<>> ELSE with(w[k - 1], k)
    BY <1>7, <2>1
  <2> QED BY <1>1, <2>2
<1> DEFINE S == {m \in Nat : m <= n => w[m] \in X /\ ToSet(w[m]) = TakenUpTo(q, m)}
<1>9. 0 \in S
  <2>1. TakenUpTo(q, 0) = {} /\ ToSet(<<>>) = {}
    BY DEF TakenUpTo, ToSet
  <2> QED BY <2>1, <1>a, <1>8
<1>10. ASSUME NEW m \in Nat, m \in S PROVE m + 1 \in S
  <2>1. SUFFICES ASSUME m + 1 <= n
                 PROVE  w[m + 1] \in X /\ ToSet(w[m + 1]) = TakenUpTo(q, m + 1)
    OBVIOUS
  <2>2. m + 1 \in 1 .. n /\ (m + 1) - 1 = m /\ m <= n
    BY <2>1, <1>1
  <2>3. w[m] \in X /\ ToSet(w[m]) = TakenUpTo(q, m)
    BY <2>2, <1>10
  <2>4. w[m + 1] = with(w[m], m + 1)
    BY <2>2, <1>8
  <2>5. 1 .. (m + 1) = (1 .. m) \union {m + 1}
    OBVIOUS
  <2>6. TakenUpTo(q, m + 1) =
          TakenUpTo(q, m) \union (IF Taken(q, q.matches[m + 1]) THEN ToSet(q.matches[m + 1].of) ELSE {})
    BY <2>5 DEF TakenUpTo
  <2>7. /\ with(w[m], m + 1) \in X
        /\ ToSet(with(w[m], m + 1)) =
              ToSet(w[m]) \union (IF Taken(q, q.matches[m + 1]) THEN ToSet(q.matches[m + 1].of) ELSE {})
    BY <2>2, <2>3, <1>2
  <2> QED BY <2>3, <2>4, <2>6, <2>7
<1> HIDE DEF S
<1>11. Nat \subseteq S
  BY <1>9, <1>10, NatInd
<1>12. w[n] \in X /\ ToSet(w[n]) = TakenUpTo(q, n)
  <2>1. n \in S /\ n <= n
    BY <1>1, <1>11
  <2> QED BY <2>1 DEF S
<1> QED BY <1>7, <1>12 DEF X, n

\* What holds of the symbols of the name and of what they are answered with.
Named(q) == {m \in ToSet(q.matches) : m.exact}
OfNamed(q) == UNION {ToSet(m.of) : m \in Named(q)}
Answers(q, answer) ==
  OfNamed(q) # {} =>
    /\ ToSet(answer) \subseteq OfNamed(q)
    /\ Len(answer) = Cardinality(ToSet(answer))
    /\ (ToSet(answer) = OfNamed(q) \/ (q.op # "impact" /\ Len(answer) = q.limit))

LEMMA BestOfNamed ==
  ASSUME NEW q, OfName(q), OfNamed(q) # {}
  PROVE  /\ OrOfTheBest(q) \in Seq(Things(q)) /\ Once(OrOfTheBest(q))
         /\ ToSet(OrOfTheBest(q)) = OfNamed(q)
<1>1. /\ Gathered(q) \in Seq(Things(q)) /\ Once(Gathered(q))
      /\ ToSet(Gathered(q)) = TakenUpTo(q, Len(q.matches))
  BY GatheredType
<1>2. /\ Len(q.matches) \in Nat
      /\ ToSet(q.matches) = {q.matches[i] : i \in 1 .. Len(q.matches)}
      /\ \A i \in 1 .. Len(q.matches) : q.matches[i].exact \in BOOLEAN
  BY MatchesType
<1>3. PICK k \in 1 .. Len(q.matches) : q.matches[k].exact
  BY <1>2 DEF OfNamed, Named
<1>4. \A i \in 1 .. Len(q.matches) : Taken(q, q.matches[i]) <=> q.matches[i].exact
  <2>1. CASE Len(q.matches) = 1
    <3>1. \A i \in 1 .. Len(q.matches) : i = k
      BY <2>1
    <3> QED BY <3>1, <2>1, <1>3 DEF Taken
  <2>2. CASE Len(q.matches) # 1
    BY <2>2 DEF Taken
  <2> QED BY <2>1, <2>2
<1>5. TakenUpTo(q, Len(q.matches)) = OfNamed(q)
  BY <1>2, <1>4 DEF TakenUpTo, OfNamed, Named
<1>6. Gathered(q) # <<>>
  BY <1>1, <1>5, MembersOf
<1> QED BY <1>1, <1>5, <1>6 DEF OrOfTheBest

LEMMA OnceIsCounted ==
  ASSUME NEW T, NEW s \in Seq(T), Once(s) PROVE Len(s) = Cardinality(ToSet(s))
<1>1. Len(s) \in Nat /\ ToSet(s) = {s[i] : i \in 1 .. Len(s)}
  BY MembersOf
<1> DEFINE f == [i \in 1 .. Len(s) |-> s[i]]
<1>2. f \in Bijection(1 .. Len(s), ToSet(s))
  BY <1>1 DEF Once, Bijection, Injection, Surjection, IsInjective
<1>3. IsFiniteSet(1 .. Len(s)) /\ Cardinality(1 .. Len(s)) = Len(s)
  BY <1>1, FS_Interval
<1>4. ExistsBijection(1 .. Len(s), ToSet(s))
  BY <1>2 DEF ExistsBijection
<1> QED BY <1>3, <1>4, FS_Bijection

LEMMA UpToType ==
  ASSUME NEW T, NEW s \in Seq(T), Once(s), NEW n \in Nat
  PROVE  /\ UpTo(n, s) \in Seq(T) /\ Once(UpTo(n, s)) /\ ToSet(UpTo(n, s)) \subseteq ToSet(s)
         /\ (ToSet(UpTo(n, s)) = ToSet(s) \/ Len(UpTo(n, s)) = n)
<1>1. Len(s) \in Nat /\ ToSet(s) = {s[i] : i \in 1 .. Len(s)} /\ \A i \in 1 .. Len(s) : s[i] \in T
  BY MembersOf
<1>2. PICK m \in Nat : m = IF Len(s) < n THEN Len(s) ELSE n
  BY <1>1
<1>3. m <= Len(s) /\ (m = Len(s) \/ m = n)
  BY <1>1, <1>2
<1>4. UpTo(n, s) = [i \in 1 .. m |-> s[i]]
  BY <1>2 DEF UpTo
<1> DEFINE t == [i \in 1 .. m |-> s[i]]
<1>5. \A i \in 1 .. m : i \in 1 .. Len(s)
  BY <1>1, <1>3
<1>6. t \in Seq(T) /\ Len(t) = m /\ \A i \in 1 .. m : t[i] = s[i]
  BY <1>1, <1>5
<1> HIDE DEF t
<1>7. ToSet(t) = {s[i] : i \in 1 .. m}
  BY <1>6, MembersOf
<1>8. Once(t)
  BY <1>5, <1>6 DEF Once
<1>9. ToSet(t) \subseteq ToSet(s) /\ (ToSet(t) = ToSet(s) \/ Len(t) = n)
  BY <1>1, <1>3, <1>5, <1>6, <1>7
<1> QED BY <1>4, <1>6, <1>8, <1>9 DEF t

LEMMA NameAnswered ==
  ASSUME NEW q, OfName(q)
  PROVE  /\ q.op = "impact" => Answers(q, OrOfTheBest(q))
         /\ q.op # "impact" => Answers(q, UpTo(q.limit, OrOfTheBest(q)))
<1> SUFFICES ASSUME OfNamed(q) # {}
             PROVE  /\ q.op = "impact" => Answers(q, OrOfTheBest(q))
                    /\ q.op # "impact" => Answers(q, UpTo(q.limit, OrOfTheBest(q)))
  BY DEF Answers
<1> DEFINE s == OrOfTheBest(q)
           t == UpTo(q.limit, s)
<1>1. s \in Seq(Things(q)) /\ Once(s) /\ ToSet(s) = OfNamed(q) /\ q.limit \in Nat
  BY BestOfNamed, MatchesType
<1> HIDE DEF s
<1>2. t \in Seq(Things(q)) /\ Once(t) /\ ToSet(t) \subseteq ToSet(s) /\ (ToSet(t) = ToSet(s) \/ Len(t) = q.limit)
  BY <1>1, UpToType
<1> HIDE DEF t
<1>3. Len(s) = Cardinality(ToSet(s)) /\ Len(t) = Cardinality(ToSet(t))
  BY <1>1, <1>2, OnceIsCounted
<1>4. Answers(q, s)
  BY <1>1, <1>3 DEF Answers
<1>5. q.op # "impact" => Answers(q, t)
  BY <1>1, <1>2, <1>3 DEF Answers
<1> QED BY <1>4, <1>5 DEF s, t

-----------------------------------------------------------------------------
(* The question as it is worked on.                                          *)
AnAsk(a) ==
  /\ DOMAIN a = {"q", "left", "queue", "visited", "found", "answer"}
  /\ a = [x \in DOMAIN a |-> a[x]]

AskOK ==
  /\ AnAsk(ask)
  /\ ask.q \in Questions
  /\ IF ask.q.op = "affected"
       THEN /\ AffectedOK(ask.q, ask.left, ask.queue, ask.visited, ask.found)
            /\ ask.answer # Nothing => ask.answer = AllReached(ask.q)
       ELSE ask.left = <<>> /\ ask.queue = <<>> /\ (ask.answer # Nothing => Answers(ask.q, ask.answer))

LEMMA AskBegins == AskInit => AskOK
<1> SUFFICES ASSUME AskInit PROVE AskOK
  OBVIOUS
<1>1. PICK q \in Questions : ask = Asked(q)
  BY DEF AskInit
<1>2. /\ ask.q = q /\ ask.left = (IF q.op = "affected" THEN q.changed ELSE <<>>) /\ ask.queue = <<>>
      /\ ask.visited = {} /\ ask.found = {} /\ ask.answer = Nothing /\ AnAsk(ask)
  BY <1>1 DEF Asked, AnAsk
<1>3. q.op = "affected" => AffectedOK(q, q.changed, <<>>, {}, {})
  BY BeginsOK DEF OfQuestion
<1> QED BY <1>2, <1>3 DEF AskOK

LEMMA TakeChangedFileOK == ASSUME AskOK, TakeChangedFile PROVE AskOK'
<1> DEFINE f == Head(ask.left)
<1>1. /\ OfQuestion(ask.q) /\ AnAsk(ask) /\ ask.queue = <<>> /\ ask.left # <<>>
      /\ AffectedOK(ask.q, ask.left, ask.queue, ask.visited, ask.found)
      /\ ask.answer # Nothing => ask.answer = AllReached(ask.q)
  BY DEF AskOK, TakeChangedFile, OfQuestion
<1>2. CASE f \in ask.q.tests
  <2>1. ask' = [ask EXCEPT !.left = Tail(@), !.found = @ \union {f}]
    BY <1>2 DEF TakeChangedFile
  <2>2. /\ ask'.q = ask.q /\ ask'.left = Tail(ask.left) /\ ask'.queue = ask.queue
        /\ ask'.visited = ask.visited /\ ask'.found = ask.found \union {f} /\ ask'.answer = ask.answer
        /\ AnAsk(ask')
    BY <2>1, <1>1 DEF AnAsk
  <2>3. AffectedOK(ask.q, Tail(ask.left), <<>>, ask.visited, ask.found \union {f})
    BY <1>1, <1>2, TestTaken
  <2> QED BY <1>1, <2>2, <2>3 DEF AskOK, OfQuestion
<1>3. CASE f \notin ask.q.tests
  <2>1. ask' = [ask EXCEPT !.left = Tail(@), !.queue = <<[file |-> f, depth |-> 0]>>, !.visited = {f}]
    BY <1>3 DEF TakeChangedFile
  <2>2. /\ ask'.q = ask.q /\ ask'.left = Tail(ask.left) /\ ask'.queue = <<[file |-> f, depth |-> 0]>>
        /\ ask'.visited = {f} /\ ask'.found = ask.found /\ ask'.answer = ask.answer
        /\ AnAsk(ask')
    BY <2>1, <1>1 DEF AnAsk
  <2>3. AffectedOK(ask.q, Tail(ask.left), <<[file |-> f, depth |-> 0]>>, {f}, ask.found)
    BY <1>1, <1>3, WalkBegins
  <2> QED BY <1>1, <2>2, <2>3 DEF AskOK, OfQuestion
<1> QED BY <1>2, <1>3

LEMMA VisitDependentsOK == ASSUME AskOK, VisitDependents PROVE AskOK'
<1> DEFINE new == NewOnes(ask.q, ask.queue, ask.visited)
<1>1. /\ OfQuestion(ask.q) /\ AnAsk(ask) /\ ask.queue # <<>>
      /\ AffectedOK(ask.q, ask.left, ask.queue, ask.visited, ask.found)
      /\ ask.answer # Nothing => ask.answer = AllReached(ask.q)
  BY DEF AskOK, VisitDependents, OfQuestion
<1>2. Head(ask.queue) = ask.queue[1]
  OBVIOUS
<1>3. ask' = [ask EXCEPT !.visited = @ \union new, !.found = @ \union (new \intersect ask.q.tests),
                         !.queue = NextQueue(ask.q, ask.queue, new)]
  <2>1. ask' = [ask EXCEPT !.visited = ask.visited \union new,
                           !.found = ask.found \union (new \intersect ask.q.tests),
                           !.queue = NextQueue(ask.q, ask.queue, new)]
    BY <1>2, Zenon DEF VisitDependents, NewOnes, NextQueue
  <2> QED BY <2>1
<1> HIDE DEF new
<1>4. /\ ask'.q = ask.q /\ ask'.left = ask.left /\ ask'.queue = NextQueue(ask.q, ask.queue, new)
      /\ ask'.visited = ask.visited \union new /\ ask'.found = ask.found \union (new \intersect ask.q.tests)
      /\ ask'.answer = ask.answer /\ AnAsk(ask')
  BY <1>1, <1>3 DEF AnAsk
<1>5. AffectedOK(ask.q, ask.left, NextQueue(ask.q, ask.queue, new), ask.visited \union new,
                 ask.found \union (new \intersect ask.q.tests))
  BY <1>1, WalkGoesOn DEF new
<1> QED BY <1>1, <1>4, <1>5 DEF AskOK, OfQuestion

LEMMA AnswersOK == ASSUME AskOK, AnswerAffected \/ AnswerSymbol PROVE AskOK'
<1>1. CASE AnswerAffected
  <2>1. /\ OfQuestion(ask.q) /\ AnAsk(ask) /\ AffectedOK(ask.q, <<>>, <<>>, ask.visited, ask.found)
        /\ ask.left = <<>> /\ ask.queue = <<>> /\ ask' = [ask EXCEPT !.answer = ask.found]
    BY <1>1 DEF AnswerAffected, AskOK, OfQuestion
  <2>2. /\ ask'.q = ask.q /\ ask'.left = <<>> /\ ask'.queue = <<>> /\ ask'.visited = ask.visited
        /\ ask'.found = ask.found /\ ask'.answer = ask.found /\ AnAsk(ask')
    BY <2>1 DEF AnAsk
  <2>3. ask.found = AllReached(ask.q)
    BY <2>1, AllFound
  <2> QED BY <2>1, <2>2, <2>3 DEF AskOK, OfQuestion
<1>2. CASE AnswerSymbol
  <2>1. OfName(ask.q) /\ AnAsk(ask) /\ ask.left = <<>> /\ ask.queue = <<>>
    BY <1>2 DEF AnswerSymbol, AskOK, OfName
  <2>2. PICK ans : /\ ask' = [ask EXCEPT !.answer = ans]
                   /\ ask.q.op = "impact" => ans = OrOfTheBest(ask.q)
                   /\ ask.q.op # "impact" => ans = UpTo(ask.q.limit, OrOfTheBest(ask.q))
    <3>1. ask.q.op \in {"callers", "callees", "impact"}
      BY <2>1, MatchesType
    <3>2. CASE ask.q.op = "impact"
      BY <3>2, <1>2 DEF AnswerSymbol, ImpactOf
    <3>3. CASE ask.q.op = "callers"
      BY <3>3, <1>2 DEF AnswerSymbol, CallersOf
    <3>4. CASE ask.q.op = "callees"
      BY <3>4, <1>2 DEF AnswerSymbol, CalleesOf
    <3> QED BY <3>1, <3>2, <3>3, <3>4
  <2>3. /\ ask'.q = ask.q /\ ask'.left = <<>> /\ ask'.queue = <<>> /\ ask'.answer = ans /\ AnAsk(ask')
    BY <2>1, <2>2 DEF AnAsk
  <2>4. Answers(ask.q, ans)
    BY <2>1, <2>2, NameAnswered
  <2> QED BY <2>1, <2>3, <2>4 DEF AskOK, OfName
<1> QED BY <1>1, <1>2

LEMMA AskOKHolds == AskSpec => []AskOK
<1>1. AskOK /\ [AskNext]_ask => AskOK'
  <2> SUFFICES ASSUME AskOK, [AskNext]_ask PROVE AskOK'
    OBVIOUS
  <2>1. CASE ask' = ask
    BY <2>1 DEF AskOK
  <2> QED BY <2>1, TakeChangedFileOK, VisitDependentsOK, AnswersOK DEF AskNext
<1> QED BY <1>1, AskBegins, PTL DEF AskSpec

(* The tests that are said to be affected are those within the asked number *)
(* of imports of a change, and a name is answered for by what has it.       *)
THEOREM QuestionsHold == AskSpec => []QuestionsInv
<1>1. AskOK => AffectedIsWithinReach
  BY DEF AskOK, AffectedIsWithinReach, AllReached
<1>2. AskOK => SymbolsAnswer
  <2> SUFFICES ASSUME AskOK, ask.q.op # "affected", ask.answer # Nothing, OfNamed(ask.q) # {}
               PROVE  /\ ToSet(ask.answer) \subseteq OfNamed(ask.q)
                      /\ Len(ask.answer) = Cardinality(ToSet(ask.answer))
                      /\ (ToSet(ask.answer) = OfNamed(ask.q) \/ (ask.q.op # "impact" /\ Len(ask.answer) = ask.q.limit))
    BY DEF SymbolsAnswer, OfNamed, Named
  <2> QED BY DEF AskOK, Answers
<1>3. AskOK => QuestionsInv
  BY <1>1, <1>2 DEF QuestionsInv
<1> QED BY <1>3, AskOKHolds, PTL
=============================================================================

------------------------------ MODULE FileLock ------------------------------
(***************************************************************************)
(* class FileLock (src/src/utils.ts): the pid file that keeps the git      *)
(* hooks, the command line and the MCP server from writing one database at *)
(* once.  Each action is one file-system call, because other processes run *)
(* between the calls.  A file is known by the process that created it; it  *)
(* exists before its pid is in it, and it ages.                            *)
(***************************************************************************)
EXTENDS Naturals, FiniteSets

CONSTANTS Procs,       \* the processes, each with one pid
          None,        \* no file; no pid in the file
          CanCrash,    \* whether processes may be killed
          CanOutlive   \* whether a holder may outlive STALE_TIMEOUT_MS

\* What the proofs assume; GraphWriters, which composes this module, assumes it.
FileLockAssumption ==
  None \notin Procs /\ CanCrash \in BOOLEAN /\ CanOutlive \in BOOLEAN

VARIABLES creator,  \* who created the file now at lockPath, or None
          written,  \* the pid is in it
          aged,     \* its mtime is STALE_TIMEOUT_MS or more ago
          pc,       \* where each process is
          seen,     \* the pid each process read last, None if it was not a number
          robbed    \* history: a file was unlinked under the process it belongs to
vars == <<creator, written, aged, pc, seen, robbed>>

PC == {"idle", "exists", "read", "stat", "unlink", "catchUnlink", "create", "write",
       "holding", "relRead", "relUnlink", "crashed"}

\* A process whose file should be there.
Owns == {"write", "holding", "relRead", "relUnlink"}

TypeOK ==
  /\ creator \in Procs \cup {None}
  /\ written \in BOOLEAN
  /\ aged \in BOOLEAN
  /\ pc \in [Procs -> PC]
  /\ seen \in [Procs -> Procs \cup {None}]
  /\ robbed \in BOOLEAN

Init ==
  /\ creator = None
  /\ written = FALSE
  /\ aged = FALSE
  /\ pc = [p \in Procs |-> "idle"]
  /\ seen = [p \in Procs |-> None]
  /\ robbed = FALSE

Goto(p, label) == pc' = [pc EXCEPT ![p] = label]
isProcessAlive(p) == pc[p] # "crashed"

\* unlinkSync(lockPath) by p, of whatever file is there.
Unlink(p) ==
  /\ creator' = None
  /\ written' = FALSE
  /\ aged' = FALSE
  /\ robbed' = (robbed \/ (creator \notin {None, p} /\ pc[creator] \in Owns))

Keep == UNCHANGED <<creator, written, aged, robbed>>
-----------------------------------------------------------------------------
(* acquire()                                                               *)

Acquire(p) == pc[p] = "idle" /\ Goto(p, "exists") /\ Keep /\ UNCHANGED seen

CheckExists(p) ==
  /\ pc[p] = "exists"
  /\ Goto(p, IF creator = None THEN "create" ELSE "read")
  /\ Keep /\ UNCHANGED seen

\* A file that has gone meanwhile throws, into the catch block.
Read(p) ==
  /\ pc[p] = "read"
  /\ IF creator = None
       THEN Goto(p, "catchUnlink") /\ UNCHANGED seen
       ELSE /\ Goto(p, "stat")
            /\ seen' = [seen EXCEPT ![p] = IF written THEN creator ELSE None]
  /\ Keep

\* A young file with the pid of a live process refuses the caller.
Stat(p) ==
  /\ pc[p] = "stat"
  /\ Goto(p, IF creator = None THEN "catchUnlink"
             ELSE IF ~aged /\ seen[p] # None /\ isProcessAlive(seen[p]) THEN "idle"
             ELSE "unlink")
  /\ Keep /\ UNCHANGED seen

\* The stale file: a second unlink of a file that is gone throws as well.
UnlinkStale(p) ==
  /\ pc[p] = "unlink"
  /\ IF creator = None THEN Goto(p, "catchUnlink") /\ Keep
                       ELSE Goto(p, "create") /\ Unlink(p)
  /\ UNCHANGED seen

\* The catch block removes the file without looking at it again.
CatchUnlink(p) ==
  /\ pc[p] = "catchUnlink"
  /\ Goto(p, "create")
  /\ Unlink(p)
  /\ UNCHANGED seen

\* open(lockPath, O_CREAT | O_EXCL): the file exists, still empty.
Create(p) ==
  /\ pc[p] = "create"
  /\ IF creator = None
       THEN Goto(p, "write") /\ creator' = p /\ written' = FALSE /\ aged' = FALSE
       ELSE Goto(p, "idle") /\ UNCHANGED <<creator, written, aged>>
  /\ UNCHANGED <<seen, robbed>>

\* write(pid): into this process's own file, wherever that is now.
Write(p) ==
  /\ pc[p] = "write"
  /\ Goto(p, "holding")
  /\ written' = (written \/ creator = p)
  /\ UNCHANGED <<creator, aged, seen, robbed>>
-----------------------------------------------------------------------------
(* release(), a crash, and time                                            *)

Release(p) == pc[p] = "holding" /\ Goto(p, "relRead") /\ Keep /\ UNCHANGED seen

ReleaseRead(p) ==
  /\ pc[p] = "relRead"
  /\ Goto(p, IF creator = p /\ written THEN "relUnlink" ELSE "idle")
  /\ Keep /\ UNCHANGED seen

ReleaseUnlink(p) ==
  /\ pc[p] = "relUnlink"
  /\ Goto(p, "idle")
  /\ Unlink(p)
  /\ UNCHANGED seen

Crash(p) ==
  /\ CanCrash
  /\ pc[p] \notin {"idle", "crashed"}
  /\ Goto(p, "crashed")
  /\ Keep /\ UNCHANGED seen

\* Two minutes pass over the file: of a dead process, or of a slow one.
Age ==
  /\ creator # None /\ ~aged
  /\ CanOutlive \/ pc[creator] \notin Owns
  /\ aged' = TRUE
  /\ UNCHANGED <<creator, written, pc, seen, robbed>>

\* The calls of acquire() after its first line, and those of release().
AcquireStep(p) ==
  \/ CheckExists(p) \/ Read(p) \/ Stat(p) \/ UnlinkStale(p) \/ CatchUnlink(p)
  \/ Create(p) \/ Write(p)
ReleaseStep(p) == Release(p) \/ ReleaseRead(p) \/ ReleaseUnlink(p)

Step(p) == AcquireStep(p) \/ ReleaseStep(p)

Next == (\E p \in Procs : Acquire(p) \/ Step(p) \/ Crash(p)) \/ Age

Spec == Init /\ [][Next]_vars

\* A process inside acquire, its critical section or release goes on.
FairSpec == Spec /\ \A p \in Procs : WF_vars(Step(p))
-----------------------------------------------------------------------------
\* The file of a process inside its critical section is its own, unless it was
\* taken from it: exclusive creation alone admits one holder.
FileLockInv ==
  /\ TypeOK
  /\ ~robbed => \A p \in Procs : pc[p] \in Owns => creator = p
  /\ written => creator # None

\* Two processes hold the lock only after one of them was robbed of its file.
OneHolder ==
  ~robbed => \A p, q \in Procs : pc[p] \in Owns /\ pc[q] \in Owns => p = q

\* A killed holder does not lock the others out (the stale takeover in
\* acquire): a process that found its file gets past it, or is killed itself.
DeadHolderYields ==
  \A p, q \in Procs :
    (pc[p] = "stat" /\ seen[p] = q /\ creator = q /\ pc[q] = "crashed") ~>
      (creator # q \/ pc[p] \in {"create", "crashed"})

\* Once every process has released, and none was killed, the file is gone.
NothingLeftBehind == (\A p \in Procs : pc[p] = "idle") => creator = None
=============================================================================

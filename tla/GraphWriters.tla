----------------------------- MODULE GraphWriters -----------------------------
(***************************************************************************)
(* Who writes the graph database: the operations of class CodeGraph        *)
(* (src/src/index.ts) over both of its locks.  The MCP server runs several *)
(* operations, one at a time behind the in-process mutex; other processes  *)
(* (git hooks, the command line) run one each; all meet at the lock file.  *)
(* Composes Mutex and FileLock: their steps are taken here, and what an    *)
(* operation does between two awaits is one action.                        *)
(***************************************************************************)
EXTENDS Naturals, Sequences, FiniteSets

CONSTANTS Callers,     \* the operations of the server
          MaxCalls,    \* bound on their calls
          Server,      \* the server's process
          Others,      \* the other processes
          Kinds,       \* the operations called
          None,        \* nobody
          CanCrash,    \* whether the other processes may be killed
          CanOutlive   \* whether an operation may outlive the stale timeout

Procs == Others \cup {Server}

ASSUME WritersAssumption ==
  /\ Server \notin Others
  /\ None \notin Procs \cup Callers
  /\ Kinds \subseteq {"indexAll", "indexFiles", "sync"}
  /\ MaxCalls \in Nat
  /\ CanCrash \in BOOLEAN /\ CanOutlive \in BOOLEAN

VARIABLES locked, waitQueue, turn, calls,                \* the server's mutex
          creator, written, aged, lpc, seen, robbed,     \* the lock file
          stage,   \* how far the operation of each process is
          kind,    \* what it is
          open     \* whether the server's instance is open

mutexVars == <<locked, waitQueue, turn, calls>>
fileVars == <<creator, written, aged, lpc, seen, robbed>>
vars == <<mutexVars, fileVars, stage, kind, open>>

M == INSTANCE Mutex WITH pc <- turn, Nobody <- None
F == INSTANCE FileLock WITH pc <- lpc

Stages == {"none", "locking", "extracting", "resolving", "finally"}

Init ==
  /\ M!Init /\ F!Init
  /\ stage = [p \in Procs |-> "none"]
  /\ kind = [p \in Procs |-> None]
  /\ open = TRUE

To(p, s) == stage' = [stage EXCEPT ![p] = s]

\* indexMutex.withLock: a call arrives, or a waiter is resumed.
EnterMutex(c) ==
  /\ M!Acquire(c) \/ M!Resume(c)
  /\ UNCHANGED <<fileVars, stage, kind, open>>

\* The operation begins with fileLock.acquire(); the server's inside the mutex.
Begin(p) ==
  /\ stage[p] = "none"
  /\ p = Server => \E c \in Callers : turn[c] = "holding"
  /\ F!Acquire(p)
  /\ To(p, "locking")
  /\ \E k \in Kinds : kind' = [kind EXCEPT ![p] = k]
  /\ UNCHANGED <<mutexVars, open>>

TakeFileLock_IgnoresRefusal(p) ==
  /\ stage[p] = "locking"
  /\ F!AcquireStep(p)
  /\ To(p, IF lpc'[p] \notin {"idle", "holding"} THEN "locking"
           ELSE IF p = Server => open THEN "extracting" ELSE "finally")
  /\ UNCHANGED <<mutexVars, kind, open>>

\* The calls of acquire(): it throws, and the operation returns a refusal, or it
\* returns; a closed database then ends the operation with an exception.
TakeFileLock(p) ==
  /\ stage[p] = "locking"
  /\ F!AcquireStep(p)
  /\ To(p, IF lpc'[p] = "idle" THEN "finally"
           ELSE IF lpc'[p] # "holding" THEN "locking"
           ELSE IF p = Server => open THEN "extracting" ELSE "finally")
  /\ UNCHANGED <<mutexVars, kind, open>>

\* indexFiles returns the orchestrator's promise without awaiting it, so its
\* finally block releases the lock file while the files are still indexed.
EarlyRelease(p) ==
  /\ stage[p] = "extracting" /\ kind[p] = "indexFiles"
  /\ F!ReleaseStep(p)
  /\ UNCHANGED <<mutexVars, stage, kind, open>>

\* The orchestrator is done; indexAll and sync resolve references unless
\* nothing changed.
Extracted(p) ==
  /\ stage[p] = "extracting"
  /\ lpc[p] = IF kind[p] = "indexFiles" THEN "idle" ELSE "holding"
  /\ \/ kind[p] # "indexFiles" /\ To(p, "resolving")
     \/ To(p, "finally")
  /\ UNCHANGED <<mutexVars, fileVars, kind, open>>

Resolved(p) ==
  /\ stage[p] = "resolving" /\ lpc[p] = "holding"
  /\ To(p, "finally")
  /\ UNCHANGED <<mutexVars, fileVars, kind, open>>

\* finally { fileLock.release() }
ReleaseFileLock(p) ==
  /\ stage[p] = "finally"
  /\ F!ReleaseStep(p)
  /\ UNCHANGED <<mutexVars, stage, kind, open>>

End_KeepsMutex(p) ==
  /\ stage[p] = "finally" /\ lpc[p] = "idle"
  /\ To(p, "none")
  /\ kind' = [kind EXCEPT ![p] = None]
  /\ UNCHANGED <<fileVars, mutexVars, open>>

\* The operation's promise settles; in the server, withLock gives the mutex back.
End(p) ==
  /\ stage[p] = "finally" /\ lpc[p] = "idle"
  /\ To(p, "none")
  /\ kind' = [kind EXCEPT ![p] = None]
  /\ IF p = Server THEN \E c \in Callers : M!Release(c) ELSE UNCHANGED mutexVars
  /\ UNCHANGED <<fileVars, open>>

\* close() of the server's instance releases the lock file and closes the
\* database under a running operation, whose next query throws; the other
\* processes close theirs when their operation has ended.
Close ==
  /\ open /\ open' = FALSE
  /\ stage[Server] \in {"none", "extracting", "resolving"}
  /\ lpc[Server] \in {"idle", "holding"}
  /\ To(Server, IF stage[Server] = "none" THEN "none" ELSE "finally")
  /\ UNCHANGED <<mutexVars, fileVars, kind>>

Crash(p) ==
  /\ p \in Others
  /\ F!Crash(p)
  /\ UNCHANGED <<mutexVars, stage, kind, open>>

Age ==
  /\ F!Age
  /\ UNCHANGED <<mutexVars, stage, kind, open>>

Step(p) ==
  TakeFileLock(p) \/ EarlyRelease(p) \/ Extracted(p) \/ Resolved(p)
    \/ ReleaseFileLock(p) \/ End(p)

Next ==
  \/ \E c \in Callers : EnterMutex(c)
  \/ \E p \in Procs : Begin(p) \/ Step(p) \/ Crash(p)
  \/ Close \/ Age

Spec == Init /\ [][Next]_vars

\* Resumed callers run, the server begins what it holds the mutex for, and a
\* running operation goes on; nobody else is obliged to begin one.
FairSpec ==
  /\ Spec
  /\ \A c \in Callers : WF_vars(turn[c] = "resumed" /\ EnterMutex(c))
  /\ WF_vars(Begin(Server))
  /\ \A p \in Procs : WF_vars(Step(p))
-----------------------------------------------------------------------------
\* The processes that write the database.
Writing ==
  {p \in Procs : stage[p] \in {"extracting", "resolving"} /\ lpc[p] # "crashed"}

\* The operations and the locks agree: an operation of the server runs inside
\* the mutex, a process inside acquire is about to operate, and one that writes
\* holds the lock file unless it is an indexFiles.
WritersInv ==
  /\ stage \in [Procs -> Stages]
  /\ kind \in [Procs -> Kinds \cup {None}]
  /\ stage[Server] # "none" => \E c \in Callers : turn[c] = "holding"
  /\ \A p \in Procs :
       /\ stage[p] # "none" => kind[p] \in Kinds
       /\ stage[p] = "none" => lpc[p] \in {"idle", "crashed"}
       /\ stage[p] \in {"extracting", "resolving"} /\ kind[p] # "indexFiles"
            => lpc[p] \in {"holding", "crashed"}

\* Operations that await their own work write one at a time, unless a lock file
\* was taken from its owner (indexAll and sync, under withLock).
OneWriter ==
  ~robbed => \A p, q \in {r \in Writing : kind[r] # "indexFiles"} : p = q

\* A call of the server ends, whether it was refused, closed under or completed.
CallsEnd == \A c \in Callers : turn[c] # "idle" ~> turn[c] = "idle"

\* "Prevents multiple processes (e.g., git hooks, CLI, MCP server) from writing
\* to the same database simultaneously" (class FileLock), of any operation.
SingleWriter == ~robbed => \A p, q \in Writing : p = q

\* The mutex implements an exclusive resource.
Abstract == INSTANCE Exclusive WITH Users <- Callers, Nobody <- None, owner <- M!Holder
IsExclusive == Abstract!Spec

\* The properties of the two locks, of this composition.
MutexInv == M!MutexInv
NoLostWakeup == M!NoLostWakeup
FileLockInv == F!FileLockInv
OneHolder == F!OneHolder
NothingLeftBehind == F!NothingLeftBehind
DeadHolderYields == F!DeadHolderYields

\* Neither a killed holder nor an operation that fails keeps the others out.
LocksYield == DeadHolderYields /\ CallsEnd

\* Both locks do their work under the operations: the mutex has one holder and
\* its queue strands nobody, the lock file has one owner while none is robbed and
\* is gone when all have released, the operations agree with both, and write one at
\* a time where they await their work.
LocksInv ==
  /\ MutexInv /\ NoLostWakeup
  /\ FileLockInv /\ OneHolder /\ NothingLeftBehind
  /\ WritersInv /\ OneWriter
=============================================================================

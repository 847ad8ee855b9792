-------------------------- MODULE GraphAccessProofs --------------------------
(***************************************************************************)
(* Proofs about the access to the graph: the operations that write it in   *)
(* turn (GraphWriters) first, the walks that read it (Traversal) second.   *)
(*                                                                         *)
(* GraphWriters takes only steps of its two locks, so what is proved of    *)
(* each lock alone holds of it here, for any number of callers and         *)
(* processes.                                                              *)
(*                                                                         *)
(* The walks answer what reachability says, for every graph and question.  *)
(* TInv types their state.  BInv is what a breadth-first walk keeps: the   *)
(* queue holds at most two distances, all that is nearer is visited and    *)
(* nothing farther, and the edges of the answer are a tree in which        *)
(* nothing is farther from the start than in the graph.  DInv is what a    *)
(* depth-first walk keeps: what it found is within its depth and, where    *)
(* the depth does not bind, an edge out of a visited node is still to be   *)
(* taken or leads to a found one.  CInv is what the search for cycles      *)
(* keeps: the frames are a path of imports, and until a cycle is reported  *)
(* a finished file imports only finished ones, none of which leads back.   *)
(***************************************************************************)
EXTENDS GraphWriters, Traversal, FiniteSetTheorems, SequenceTheorems, WellFoundedInduction, TLAPS

\* What the two locks ask of their constants.
LEMMA LockAssumptions == M!MutexAssumption /\ F!FileLockAssumption
BY WritersAssumption DEF WritersAssumption, M!MutexAssumption, F!FileLockAssumption
-----------------------------------------------------------------------------
(* The mutex, for every set of callers and any number of calls.            *)

\* The loop head keeps the flag, the queue and the callers in agreement when
\* the caller that runs it is neither queued nor holding.
LEMMA TestAndTakeInv ==
  ASSUME M!MutexInv, NEW c \in Callers, turn[c] \in {"idle", "resumed"},
         M!TestAndTake(c), calls' \in 0..MaxCalls
  PROVE  M!MutexInv'
<1> USE DEF M!MutexInv, M!TypeOK
<1>1. CASE locked
  <2>1. /\ waitQueue' = Append(waitQueue, c)
        /\ turn' = [turn EXCEPT ![c] = "waiting"]
        /\ locked' = locked
    BY <1>1 DEF M!TestAndTake
  <2>2. /\ waitQueue' \in Seq(Callers)
        /\ Len(waitQueue') = Len(waitQueue) + 1
        /\ \A i \in 1..Len(waitQueue) : waitQueue'[i] = waitQueue[i]
        /\ waitQueue'[Len(waitQueue) + 1] = c
    BY <2>1
  <2>3. \A i \in 1..Len(waitQueue) : waitQueue[i] # c
    OBVIOUS
  <2>4. \A d \in Callers :
          turn'[d] = "waiting" <=> \E i \in 1..Len(waitQueue') : waitQueue'[i] = d
    BY <2>1, <2>2
  <2>5. \A i, j \in 1..Len(waitQueue') : waitQueue'[i] = waitQueue'[j] => i = j
    <3>1. Len(waitQueue) \in Nat OBVIOUS
    <3>2. \A i \in 1..Len(waitQueue') : i \in 1..Len(waitQueue) \/ i = Len(waitQueue) + 1
      BY <2>2, <3>1
    <3>3. \A i, j \in 1..Len(waitQueue) : waitQueue[i] = waitQueue[j] => i = j
      OBVIOUS
    <3> SUFFICES ASSUME NEW i \in 1..Len(waitQueue'), NEW j \in 1..Len(waitQueue'),
                        waitQueue'[i] = waitQueue'[j]
                 PROVE  i = j
      OBVIOUS
    <3>4. CASE i \in 1..Len(waitQueue) /\ j \in 1..Len(waitQueue)
      BY <2>2, <3>3, <3>4
    <3>5. CASE i = Len(waitQueue) + 1 \/ j = Len(waitQueue) + 1
      BY <2>2, <2>3, <3>2, <3>5
    <3> QED BY <3>2, <3>4, <3>5
  <2>6. turn' \in [Callers -> {"idle", "waiting", "resumed", "holding"}]
    BY <2>1
  <2>7. \A d, e \in Callers : turn'[d] = "holding" /\ turn'[e] = "holding" => d = e
    BY <2>1
  <2>8. locked' \in BOOLEAN /\ (locked' <=> \E d \in Callers : turn'[d] = "holding")
    BY <1>1, <2>1
  <2> QED BY <2>2, <2>4, <2>5, <2>6, <2>7, <2>8
<1>2. CASE ~locked
  <2>1. /\ waitQueue' = waitQueue
        /\ turn' = [turn EXCEPT ![c] = "holding"]
        /\ locked' = TRUE
    BY <1>2 DEF M!TestAndTake
  <2>2. /\ turn' \in [Callers -> {"idle", "waiting", "resumed", "holding"}]
        /\ \A d \in Callers : turn'[d] = "waiting" <=> turn[d] = "waiting"
        /\ \A d \in Callers : turn'[d] = "holding" <=> d = c
    BY <1>2, <2>1
  <2>3. waitQueue' \in Seq(Callers) /\ locked' \in BOOLEAN
    BY <2>1
  <2> QED BY <2>1, <2>2, <2>3
<1> QED BY <1>1, <1>2

\* Releasing hands the head of the queue, and nobody else, its wake-up.
LEMMA ReleaseInv ==
  ASSUME M!MutexInv, NEW c \in Callers, M!Release(c)
  PROVE  M!MutexInv'
<1> USE DEF M!MutexInv, M!TypeOK
<1>1. CASE waitQueue = <<>>
  <2>1. /\ waitQueue' = waitQueue
        /\ turn[c] = "holding" /\ turn' = [turn EXCEPT ![c] = "idle"]
        /\ locked' = FALSE /\ calls' = calls
    BY <1>1 DEF M!Release
  <2>2. /\ turn' \in [Callers -> {"idle", "waiting", "resumed", "holding"}]
        /\ \A d \in Callers : turn'[d] = "waiting" <=> turn[d] = "waiting"
        /\ \A d \in Callers : turn'[d] # "holding"
    BY <2>1
  <2>3. waitQueue' \in Seq(Callers) /\ locked' \in BOOLEAN
    BY <2>1
  <2> QED BY <2>1, <2>2, <2>3
<1>2. CASE waitQueue # <<>>
  <2> DEFINE h == Head(waitQueue)
  <2>1. /\ turn[c] = "holding"
        /\ turn' = [turn EXCEPT ![c] = "idle", ![h] = "resumed"]
        /\ waitQueue' = Tail(waitQueue)
        /\ locked' = FALSE
        /\ calls' = calls
    BY <1>2 DEF M!Release
  <2>2. /\ Len(waitQueue) \in Nat \ {0}
        /\ h = waitQueue[1] /\ h \in Callers /\ turn[h] = "waiting"
    BY <1>2
  <2>3. /\ waitQueue' \in Seq(Callers)
        /\ Len(waitQueue') = Len(waitQueue) - 1
        /\ \A i \in 1..Len(waitQueue') : waitQueue'[i] = waitQueue[i + 1]
    BY <1>2, <2>1, <2>2
  <2> HIDE DEF h
  <2>n. \A i \in 1..Len(waitQueue') : i \in Int /\ i + 1 \in 1..Len(waitQueue) /\ i + 1 # 1
    BY <2>2, <2>3
  <2>4. \A i, j \in 1..Len(waitQueue') : waitQueue'[i] = waitQueue'[j] => i = j
    <3> SUFFICES ASSUME NEW i \in 1..Len(waitQueue'), NEW j \in 1..Len(waitQueue'),
                        waitQueue'[i] = waitQueue'[j]
                 PROVE  i = j
      OBVIOUS
    <3>1. waitQueue[i + 1] = waitQueue[j + 1] BY <2>3
    <3>2. i + 1 = j + 1 BY <3>1, <2>n
    <3> QED BY <3>2, <2>n
  <2>5. \A d \in Callers :
          turn'[d] = "waiting" <=> \E i \in 1..Len(waitQueue') : waitQueue'[i] = d
    <3> SUFFICES ASSUME NEW d \in Callers
                 PROVE  turn'[d] = "waiting" <=> \E i \in 1..Len(waitQueue') : waitQueue'[i] = d
      OBVIOUS
    <3>1. ASSUME turn'[d] = "waiting" PROVE \E i \in 1..Len(waitQueue') : waitQueue'[i] = d
      <4>1. turn[d] = "waiting" /\ d # h
        BY <2>1, <2>2, <3>1
      <4>2. PICK k \in 1..Len(waitQueue) : waitQueue[k] = d
        BY <4>1
      <4>3. k # 1 BY <4>1, <4>2, <2>2
      <4>4. k - 1 \in 1..Len(waitQueue') /\ (k - 1) + 1 = k
        BY <4>3, <2>2, <2>3
      <4>5. waitQueue'[k - 1] = waitQueue[(k - 1) + 1]
        BY <4>4, <2>3
      <4> QED BY <4>2, <4>4, <4>5
    <3>2. ASSUME NEW i \in 1..Len(waitQueue'), waitQueue'[i] = d PROVE turn'[d] = "waiting"
      <4>1. i + 1 \in 1..Len(waitQueue) /\ waitQueue[i + 1] = d
        BY <3>2, <2>3, <2>n
      <4>2. turn[d] = "waiting" BY <4>1
      <4>3. d # h
        <5>1. i + 1 # 1 /\ 1 \in 1..Len(waitQueue) BY <2>n, <2>2
        <5> QED BY <4>1, <5>1, <2>2
      <4> QED BY <4>2, <4>3, <2>1
    <3> QED BY <3>1, <3>2
  <2>6. /\ \A d, e \in Callers : turn'[d] = "holding" /\ turn'[e] = "holding" => d = e
        /\ locked' <=> \E d \in Callers : turn'[d] = "holding"
    BY <2>1, <2>2
  <2>7. turn' \in [Callers -> {"idle", "waiting", "resumed", "holding"}]
    BY <2>1, <2>2
  <2> QED BY <2>1, <2>3, <2>4, <2>5, <2>6, <2>7
<1> QED BY <1>1, <1>2

\* At most one caller holds the mutex, exactly when the flag is set, and the
\* queue lists the waiting callers.
THEOREM MutualExclusion == M!Spec => []M!MutexInv
<1>1. M!Init => M!MutexInv
  <2> SUFFICES ASSUME M!Init PROVE M!MutexInv
    OBVIOUS
  <2>1. waitQueue \in Seq(Callers) /\ Len(waitQueue) = 0
    BY DEF M!Init
  <2>2. calls \in 0..MaxCalls
    BY LockAssumptions DEF M!Init, M!MutexAssumption
  <2>3. locked = FALSE /\ turn = [c \in Callers |-> "idle"]
    BY DEF M!Init
  <2>4. 1..Len(waitQueue) = {}
    BY <2>1
  <2>5. M!TypeOK
    BY <2>1, <2>2, <2>3 DEF M!TypeOK
  <2> QED BY <2>3, <2>4, <2>5 DEF M!MutexInv
<1>2. M!MutexInv /\ [M!Next]_M!vars => M!MutexInv'
  <2> SUFFICES ASSUME M!MutexInv, [M!Next]_M!vars PROVE M!MutexInv'
    OBVIOUS
  <2>1. ASSUME NEW c \in Callers, M!Acquire(c) PROVE M!MutexInv'
    <3>1. calls' \in 0..MaxCalls
      BY <2>1, LockAssumptions DEF M!Acquire, M!MutexInv, M!TypeOK, M!MutexAssumption
    <3> QED BY <2>1, <3>1, TestAndTakeInv DEF M!Acquire
  <2>2. ASSUME NEW c \in Callers, M!Resume(c) PROVE M!MutexInv'
    BY <2>2, TestAndTakeInv DEF M!Resume, M!MutexInv, M!TypeOK
  <2>3. ASSUME NEW c \in Callers, M!Release(c) PROVE M!MutexInv'
    BY <2>3, ReleaseInv
  <2>4. CASE UNCHANGED M!vars
    BY <2>4 DEF M!vars, M!MutexInv, M!TypeOK
  <2> QED BY <2>1, <2>2, <2>3, <2>4 DEF M!Next
<1> QED BY <1>1, <1>2, PTL DEF M!Spec

\* Whenever somebody waits, somebody is bound to wake it.
THEOREM NoWakeupIsLost == M!Spec => []M!NoLostWakeup
<1>1. M!Init => M!NoLostWakeup
  BY DEF M!Init, M!NoLostWakeup
<1>2. M!MutexInv /\ M!NoLostWakeup /\ [M!Next]_M!vars => M!NoLostWakeup'
  <2> SUFFICES ASSUME M!MutexInv, M!NoLostWakeup, [M!Next]_M!vars PROVE M!NoLostWakeup'
    OBVIOUS
  <2> USE DEF M!MutexInv, M!TypeOK, M!NoLostWakeup
  <2>1. ASSUME NEW c \in Callers, M!Acquire(c) PROVE M!NoLostWakeup'
    BY <2>1 DEF M!Acquire, M!TestAndTake
  <2>2. ASSUME NEW c \in Callers, M!Resume(c) PROVE M!NoLostWakeup'
    BY <2>2 DEF M!Resume, M!TestAndTake
  <2>3. ASSUME NEW c \in Callers, M!Release(c) PROVE M!NoLostWakeup'
    <3>1. CASE waitQueue = <<>> BY <3>1, <2>3 DEF M!Release
    <3>2. CASE waitQueue # <<>>
      <4>1. Head(waitQueue) \in Callers BY <3>2
      <4> QED BY <3>2, <4>1, <2>3 DEF M!Release
    <3> QED BY <3>1, <3>2
  <2>4. CASE UNCHANGED M!vars BY <2>4 DEF M!vars
  <2> QED BY <2>1, <2>2, <2>3, <2>4 DEF M!Next
<1> QED BY <1>1, <1>2, MutualExclusion, PTL DEF M!Spec

\* The mutex implements the exclusive resource: a step that sets the flag takes
\* it, a release gives it back, and every other step changes no owner.
THEOREM ImplementsExclusive == M!Spec => IsExclusive
<1> USE LockAssumptions DEF M!MutexAssumption
<1>1. M!Init => Abstract!Init
  BY DEF M!Init, Abstract!Init, M!Holder
<1>h. ASSUME M!MutexInv, NEW c \in Callers, turn[c] = "holding" PROVE M!Holder = c
  BY <1>h DEF M!MutexInv, M!Holder
<1>i. ASSUME M!MutexInv', NEW c \in Callers, turn'[c] = "holding" PROVE M!Holder' = c
  BY <1>i DEF M!MutexInv, M!Holder
<1>2. M!MutexInv /\ M!MutexInv' /\ [M!Next]_M!vars => [Abstract!Next]_M!Holder
  <2> SUFFICES ASSUME M!MutexInv, M!MutexInv', [M!Next]_M!vars PROVE [Abstract!Next]_M!Holder
    OBVIOUS
  <2>1. ASSUME NEW c \in Callers, M!TestAndTake(c), turn[c] \in {"idle", "resumed"}
        PROVE [Abstract!Next]_M!Holder
    <3>1. CASE locked
      <4>1. PICK d \in Callers : turn[d] = "holding" BY <3>1 DEF M!MutexInv
      <4>2. turn'[d] = "holding" BY <2>1, <3>1, <4>1 DEF M!TestAndTake, M!MutexInv, M!TypeOK
      <4> QED BY <1>h, <1>i, <4>1, <4>2
    <3>2. CASE ~locked
      <4>1. M!Holder = None BY <3>2 DEF M!Holder
      <4>2. turn'[c] = "holding" BY <2>1, <3>2 DEF M!TestAndTake, M!MutexInv, M!TypeOK
      <4>3. M!Holder' = c BY <1>i, <4>2
      <4> QED BY <4>1, <4>3 DEF Abstract!Next, Abstract!Take
    <3> QED BY <3>1, <3>2
  <2>2. ASSUME NEW c \in Callers, M!Acquire(c) PROVE [Abstract!Next]_M!Holder
    BY <2>1, <2>2 DEF M!Acquire
  <2>3. ASSUME NEW c \in Callers, M!Resume(c) PROVE [Abstract!Next]_M!Holder
    BY <2>1, <2>3 DEF M!Resume
  <2>4. ASSUME NEW c \in Callers, M!Release(c) PROVE [Abstract!Next]_M!Holder
    <3>1. M!Holder = c BY <1>h, <2>4 DEF M!Release
    <3>2. M!Holder' = None BY <2>4 DEF M!Release, M!Holder
    <3> QED BY <3>1, <3>2 DEF Abstract!Next, Abstract!GiveBack
  <2>5. CASE UNCHANGED M!vars
    BY <2>5 DEF M!vars, M!Holder
  <2> QED BY <2>2, <2>3, <2>4, <2>5 DEF M!Next
<1> QED BY <1>1, <1>2, MutualExclusion, PTL DEF M!Spec, IsExclusive, Abstract!Spec
-----------------------------------------------------------------------------
(* The lock file, for every set of processes, with or without crashes and  *)
(* holders that outlive the stale timeout.                                 *)

\* Every process in its critical section owns the file on disk, unless some
\* unlink took a file from under a live owner.
THEOREM OwnersFile == F!Spec => []F!FileLockInv
<1> USE LockAssumptions DEF F!FileLockAssumption
<1>1. F!Init => F!FileLockInv
  BY DEF F!Init, F!FileLockInv, F!TypeOK, F!PC, F!Owns
<1>2. F!FileLockInv /\ [F!Next]_F!vars => F!FileLockInv'
  <2> SUFFICES ASSUME F!FileLockInv, [F!Next]_F!vars PROVE F!FileLockInv'
    OBVIOUS
  <2> USE DEF F!FileLockInv, F!TypeOK, F!PC, F!Owns, F!Goto, F!Keep
  <2>1. ASSUME NEW p \in Procs, F!Acquire(p) PROVE F!FileLockInv'
    BY <2>1 DEF F!Acquire
  <2>2. ASSUME NEW p \in Procs, F!Step(p) PROVE F!FileLockInv'
    <3>1. CASE F!CheckExists(p) BY <3>1 DEF F!CheckExists
    <3>2. CASE F!Read(p) BY <3>2 DEF F!Read
    <3>3. CASE F!Stat(p) BY <3>3 DEF F!Stat
    <3>4. CASE F!UnlinkStale(p) BY <3>4 DEF F!UnlinkStale, F!Unlink
    <3>5. CASE F!CatchUnlink(p) BY <3>5 DEF F!CatchUnlink, F!Unlink
    <3>6. CASE F!Create(p) BY <3>6 DEF F!Create
    <3>7. CASE F!Write(p) BY <3>7 DEF F!Write
    <3>8. CASE F!Release(p) BY <3>8 DEF F!Release
    <3>9. CASE F!ReleaseRead(p) BY <3>9 DEF F!ReleaseRead
    <3>10. CASE F!ReleaseUnlink(p) BY <3>10 DEF F!ReleaseUnlink, F!Unlink
    <3> QED BY <2>2, <3>1, <3>2, <3>3, <3>4, <3>5, <3>6, <3>7, <3>8, <3>9, <3>10 DEF F!Step, F!AcquireStep, F!ReleaseStep
  <2>3. ASSUME NEW p \in Procs, F!Crash(p) PROVE F!FileLockInv'
    BY <2>3 DEF F!Crash
  <2>4. CASE F!Age BY <2>4 DEF F!Age
  <2>5. CASE UNCHANGED F!vars BY <2>5 DEF F!vars
  <2> QED BY <2>1, <2>2, <2>3, <2>4, <2>5 DEF F!Next
<1> QED BY <1>1, <1>2, PTL DEF F!Spec

\* Hence one holder at a time, unless a file was taken from its owner.
THEOREM OneHolderUnlessRobbed == F!Spec => []F!OneHolder
<1>1. F!FileLockInv => F!OneHolder
  BY DEF F!FileLockInv, F!OneHolder
<1> QED BY <1>1, OwnersFile, PTL

\* A file on disk belongs to a process that has yet to release it, or was
\* killed; once written, it stays written until it is unlinked.
CreatorInv ==
  creator # None =>
    /\ lpc[creator] \in F!Owns \cup {"crashed"}
    /\ lpc[creator] \in {"holding", "relRead", "relUnlink"} => written

LEMMA CreatorStays == F!Spec => []CreatorInv
<1> USE LockAssumptions DEF F!FileLockAssumption
<1>1. F!Init => CreatorInv
  BY DEF F!Init, CreatorInv
<1>2. F!FileLockInv /\ CreatorInv /\ [F!Next]_F!vars => CreatorInv'
  <2> SUFFICES ASSUME F!FileLockInv, CreatorInv, [F!Next]_F!vars PROVE CreatorInv'
    OBVIOUS
  <2> USE DEF F!FileLockInv, CreatorInv, F!TypeOK, F!PC, F!Owns, F!Goto, F!Keep
  <2>1. ASSUME NEW p \in Procs, F!Acquire(p) PROVE CreatorInv'
    BY <2>1 DEF F!Acquire
  <2>2. ASSUME NEW p \in Procs, F!Step(p) PROVE CreatorInv'
    <3>1. CASE F!CheckExists(p) BY <3>1 DEF F!CheckExists
    <3>2. CASE F!Read(p) BY <3>2 DEF F!Read
    <3>3. CASE F!Stat(p) BY <3>3 DEF F!Stat
    <3>4. CASE F!UnlinkStale(p) BY <3>4 DEF F!UnlinkStale, F!Unlink
    <3>5. CASE F!CatchUnlink(p) BY <3>5 DEF F!CatchUnlink, F!Unlink
    <3>6. CASE F!Create(p) BY <3>6 DEF F!Create
    <3>7. CASE F!Write(p) BY <3>7 DEF F!Write
    <3>8. CASE F!Release(p) BY <3>8 DEF F!Release
    <3>9. CASE F!ReleaseRead(p) BY <3>9 DEF F!ReleaseRead
    <3>10. CASE F!ReleaseUnlink(p) BY <3>10 DEF F!ReleaseUnlink, F!Unlink
    <3> QED BY <2>2, <3>1, <3>2, <3>3, <3>4, <3>5, <3>6, <3>7, <3>8, <3>9, <3>10 DEF F!Step, F!AcquireStep, F!ReleaseStep
  <2>3. ASSUME NEW p \in Procs, F!Crash(p) PROVE CreatorInv'
    BY <2>3 DEF F!Crash
  <2>4. CASE F!Age BY <2>4 DEF F!Age
  <2>5. CASE UNCHANGED F!vars BY <2>5 DEF F!vars
  <2> QED BY <2>1, <2>2, <2>3, <2>4, <2>5 DEF F!Next
<1> QED BY <1>1, <1>2, OwnersFile, PTL DEF F!Spec

\* The lock file does not outlive its users: it is gone once every process has
\* released and none was killed.
THEOREM ReleasedIsGone == F!Spec => []F!NothingLeftBehind
<1>1. F!FileLockInv /\ CreatorInv => F!NothingLeftBehind
  BY DEF F!FileLockInv, F!TypeOK, CreatorInv, F!NothingLeftBehind, F!Owns
<1> QED BY <1>1, OwnersFile, CreatorStays, PTL
-----------------------------------------------------------------------------
(* The composition.                                                        *)

\* The composition uses the in-process mutex as Mutex describes it.
THEOREM UsesMutex == Spec => M!Spec
<1>1. Init => M!Init
  BY DEF Init
<1>2. [Next]_vars => [M!Next]_M!vars
  <2> SUFFICES ASSUME [Next]_vars PROVE [M!Next]_M!vars
    OBVIOUS
  <2> USE DEF mutexVars, M!vars
  <2>1. ASSUME NEW c \in Callers, EnterMutex(c) PROVE M!Next
    BY <2>1 DEF EnterMutex, M!Next
  <2>2. ASSUME NEW p \in Procs, Begin(p) PROVE UNCHANGED M!vars
    BY <2>2 DEF Begin
  <2>3. ASSUME NEW p \in Procs, Step(p) PROVE [M!Next]_M!vars
    <3>1. CASE TakeFileLock(p) BY <3>1 DEF TakeFileLock
    <3>2. CASE EarlyRelease(p) BY <3>2 DEF EarlyRelease
    <3>3. CASE Extracted(p) BY <3>3 DEF Extracted
    <3>4. CASE Resolved(p) BY <3>4 DEF Resolved
    <3>5. CASE ReleaseFileLock(p) BY <3>5 DEF ReleaseFileLock
    <3>6. CASE End(p) BY <3>6 DEF End, M!Next
    <3> QED BY <2>3, <3>1, <3>2, <3>3, <3>4, <3>5, <3>6 DEF Step
  <2>4. ASSUME NEW p \in Procs, Crash(p) PROVE UNCHANGED M!vars
    BY <2>4 DEF Crash
  <2>5. CASE Close BY <2>5 DEF Close
  <2>6. CASE Age BY <2>6 DEF Age
  <2>7. CASE UNCHANGED vars BY <2>7 DEF vars
  <2> QED BY <2>1, <2>2, <2>3, <2>4, <2>5, <2>6, <2>7 DEF Next
<1> QED BY <1>1, <1>2, PTL DEF Spec, M!Spec

\* Inside the server the mutex admits one operation at a time.
THEOREM ServerMutex == Spec => []MutexInv
BY UsesMutex, MutualExclusion, PTL DEF MutexInv

\* And no operation of the server waits for a wake-up that was lost.
THEOREM ServerWakes == Spec => []NoLostWakeup
BY UsesMutex, NoWakeupIsLost, PTL DEF NoLostWakeup

\* The composition uses the lock file as FileLock describes it.
THEOREM UsesFileLock == Spec => F!Spec
<1>1. Init => F!Init
  BY DEF Init
<1>2. [Next]_vars => [F!Next]_F!vars
  <2> SUFFICES ASSUME [Next]_vars PROVE [F!Next]_F!vars
    OBVIOUS
  <2> USE DEF fileVars, F!vars
  <2>1. ASSUME NEW c \in Callers, EnterMutex(c) PROVE UNCHANGED F!vars
    BY <2>1 DEF EnterMutex
  <2>2. ASSUME NEW p \in Procs, Begin(p) PROVE F!Next
    BY <2>2 DEF Begin, F!Next
  <2>3. ASSUME NEW p \in Procs, Step(p) PROVE [F!Next]_F!vars
    <3> USE DEF F!Next, F!Step
    <3>1. CASE TakeFileLock(p) BY <3>1 DEF TakeFileLock
    <3>2. CASE EarlyRelease(p) BY <3>2 DEF EarlyRelease
    <3>3. CASE Extracted(p) BY <3>3 DEF Extracted
    <3>4. CASE Resolved(p) BY <3>4 DEF Resolved
    <3>5. CASE ReleaseFileLock(p) BY <3>5 DEF ReleaseFileLock
    <3>6. CASE End(p) BY <3>6 DEF End
    <3> QED BY <2>3, <3>1, <3>2, <3>3, <3>4, <3>5, <3>6 DEF Step
  <2>4. ASSUME NEW p \in Procs, Crash(p) PROVE F!Next
    BY <2>4 DEF Crash, F!Next
  <2>5. CASE Close BY <2>5 DEF Close
  <2>6. CASE Age BY <2>6 DEF Age, F!Next
  <2>7. CASE UNCHANGED vars BY <2>7 DEF vars
  <2> QED BY <2>1, <2>2, <2>3, <2>4, <2>5, <2>6, <2>7 DEF Next
<1> QED BY <1>1, <1>2, PTL DEF Spec, F!Spec

\* A process in its critical section owns the lock file, unless it was robbed.
THEOREM WriterOwnsFile == Spec => []FileLockInv
BY UsesFileLock, OwnersFile, PTL DEF FileLockInv

\* The mutex of the server is an exclusive resource: a step of any operation takes
\* it, gives it back or changes no owner.
THEOREM ServerIsExclusive == Spec => IsExclusive
BY UsesMutex, ImplementsExclusive, PTL

\* The lock file is gone once every process has released it.
THEOREM WritersLeaveNothing == Spec => []NothingLeftBehind
BY UsesFileLock, ReleasedIsGone, PTL DEF NothingLeftBehind

\* The running operations agree with both locks.
THEOREM OperationsAgree == Spec => []WritersInv
<1> USE WritersAssumption DEF WritersAssumption, WritersInv, Stages
<1>1. Init => WritersInv
  BY DEF Init, F!Init, Procs
<1>2. WritersInv /\ FileLockInv /\ MutexInv /\ [Next]_vars => WritersInv'
  <2> SUFFICES ASSUME WritersInv, FileLockInv, MutexInv, [Next]_vars PROVE WritersInv'
    OBVIOUS
  <2>t. /\ lpc \in [Procs -> F!PC] /\ turn \in [Callers -> {"idle", "waiting", "resumed", "holding"}]
        /\ Server \in Procs
    BY DEF FileLockInv, F!FileLockInv, F!TypeOK, MutexInv, M!MutexInv, M!TypeOK, Procs
  <2> USE <2>t DEF To, F!PC, F!Goto, F!Keep, mutexVars, fileVars
  <2>1. ASSUME NEW c \in Callers, EnterMutex(c) PROVE WritersInv'
    BY <2>1 DEF EnterMutex, M!Acquire, M!Resume, M!TestAndTake
  <2>2. ASSUME NEW p \in Procs, Begin(p) PROVE WritersInv'
    BY <2>2 DEF Begin, F!Acquire
  <2>3. ASSUME NEW p \in Procs, Step(p) PROVE WritersInv'
    <3>1. CASE TakeFileLock(p)
      BY <3>1 DEF TakeFileLock, F!AcquireStep, F!CheckExists, F!Read, F!Stat, F!UnlinkStale,
         F!CatchUnlink, F!Create, F!Write
    <3>2. CASE EarlyRelease(p)
      BY <3>2 DEF EarlyRelease, F!ReleaseStep, F!Release, F!ReleaseRead, F!ReleaseUnlink
    <3>3. CASE Extracted(p) BY <3>3 DEF Extracted
    <3>4. CASE Resolved(p) BY <3>4 DEF Resolved
    <3>5. CASE ReleaseFileLock(p)
      BY <3>5 DEF ReleaseFileLock, F!ReleaseStep, F!Release, F!ReleaseRead, F!ReleaseUnlink
    <3>6. CASE End(p) BY <3>6 DEF End
    <3> QED BY <2>3, <3>1, <3>2, <3>3, <3>4, <3>5, <3>6 DEF Step
  <2>4. ASSUME NEW p \in Procs, Crash(p) PROVE WritersInv'
    BY <2>4 DEF Crash, F!Crash
  <2>5. CASE Close BY <2>5 DEF Close
  <2>6. CASE Age BY <2>6 DEF Age, F!Age
  <2>7. CASE UNCHANGED vars BY <2>7 DEF vars
  <2> QED BY <2>1, <2>2, <2>3, <2>4, <2>5, <2>6, <2>7 DEF Next
<1> QED BY <1>1, <1>2, WriterOwnsFile, ServerMutex, PTL DEF Spec

\* Operations that await their work write one at a time over all processes,
\* unless a lock file was taken from its owner.
THEOREM OneWriterAtATime == Spec => []OneWriter
<1>1. WritersInv /\ FileLockInv => OneWriter
  <2> SUFFICES ASSUME WritersInv, FileLockInv, ~robbed,
                      NEW p \in Writing, NEW q \in Writing,
                      kind[p] # "indexFiles", kind[q] # "indexFiles"
               PROVE  p = q
    BY DEF OneWriter
  <2>1. /\ p \in Procs /\ lpc[p] = "holding"
        /\ q \in Procs /\ lpc[q] = "holding"
    BY DEF Writing, WritersInv
  <2> QED BY <2>1 DEF FileLockInv, F!FileLockInv, F!Owns
<1> QED BY <1>1, WriterOwnsFile, OperationsAgree, PTL

\* The two locks and the operations behind them, for any number of callers and
\* processes.
THEOREM LocksHold == Spec => []LocksInv
<1>1. FileLockInv => OneHolder
  BY DEF FileLockInv, F!FileLockInv, OneHolder, F!OneHolder
<1>2. MutexInv /\ NoLostWakeup /\ FileLockInv /\ NothingLeftBehind /\ WritersInv /\ OneWriter => LocksInv
  BY <1>1 DEF LocksInv
<1> QED BY <1>2, ServerMutex, ServerWakes, WriterOwnsFile, WritersLeaveNothing, OperationsAgree,
     OneWriterAtATime, PTL
-----------------------------------------------------------------------------
(* The walks.                                                              *)

\* Induction over the numbers, in terms of a set.
LEMMA NatInd ==
  ASSUME NEW S, 0 \in S, \A n \in Nat : n \in S => n + 1 \in S
  PROVE  Nat \subseteq S
<1>1. SUFFICES ASSUME Nat \ S # {} PROVE FALSE
  OBVIOUS
<1> DEFINE R == OpToRel(<, Nat)
<1>2. IsWellFoundedOn(R, Nat)
  BY NatLessThanWellFounded
<1>3. PICK x \in Nat \ S : \A y \in Nat \ S : ~(<<y, x>> \in R)
  <2> HIDE DEF R
  <2> QED BY <1>1, <1>2, WFMin
<1>4. \A i, j \in Nat : i < j => <<i, j>> \in R
  BY DEF OpToRel
<1> HIDE DEF R
<1>5. x # 0 /\ x - 1 \in Nat /\ x - 1 < x
  BY <1>3
<1>6. <<x - 1, x>> \in R
  BY <1>3, <1>4, <1>5
<1>7. x - 1 \in S
  BY <1>3, <1>4, <1>6
<1> QED BY <1>3, <1>5, <1>7

\* f starts with a and goes on by step.
Unfolds(f, n, a, step) == f[0] = a /\ \A k \in 1 .. n : f[k] = step[k][f[k - 1]]

\* A function that is defined by recursion up to n exists.
LEMMA Recursion ==
  ASSUME NEW X, NEW a \in X, NEW step \in [Nat -> [X -> X]], NEW n \in Nat
  PROVE  \E f \in [0 .. n -> X] : Unfolds(f, n, a, step)
<1> DEFINE S == {m \in Nat : \E f \in [0 .. m -> X] : Unfolds(f, m, a, step)}
<1>1. 0 \in S
  <2> DEFINE f == [k \in 0 .. 0 |-> a]
  <2>1. f \in [0 .. 0 -> X] /\ Unfolds(f, 0, a, step)
    BY DEF Unfolds
  <2> HIDE DEF f
  <2> QED BY <2>1
<1>2. ASSUME NEW m \in Nat, m \in S PROVE m + 1 \in S
  <2>1. PICK f \in [0 .. m -> X] : Unfolds(f, m, a, step)
    BY <1>2
  <2> DEFINE g == [k \in 0 .. (m + 1) |-> IF k <= m THEN f[k] ELSE step[k][f[m]]]
  <2>2. f[m] \in X /\ step[m + 1] \in [X -> X]
    BY <2>1
  <2>3. step[m + 1][f[m]] \in X
    BY <2>2
  <2>4. g \in [0 .. (m + 1) -> X]
    BY <2>1, <2>3
  <2>5. g[0] = a
    BY <2>1 DEF Unfolds
  <2>6. ASSUME NEW k \in 1 .. (m + 1) PROVE g[k] = step[k][g[k - 1]]
    BY <2>1 DEF Unfolds
  <2>7. Unfolds(g, m + 1, a, step)
    BY <2>5, <2>6 DEF Unfolds
  <2> HIDE DEF g
  <2> QED BY <2>4, <2>7
<1> HIDE DEF S
<1>3. Nat \subseteq S
  BY <1>1, <1>2, NatInd
<1> QED BY <1>3 DEF S
-----------------------------------------------------------------------------
(* What is within d steps.                                                   *)

\* A node belongs to itself, and where a node belongs its members do.
Grown(E, S) == S \union UNION {Contained(E, n) : n \in S}

LEMMA ContainedType ==
  ASSUME NEW E \in SUBSET Relations, NEW n PROVE Contained(E, n) \subseteq Nodes
BY WalksAssumption DEF Contained, WalksAssumption

LEMMA MembersStages ==
  ASSUME NEW E \in SUBSET Relations, NEW S \in SUBSET Nodes
  PROVE  \E w \in [0 .. Unlimited -> SUBSET Nodes] :
            /\ w[0] = S
            /\ \A k \in 1 .. Unlimited : w[k] = Grown(E, w[k - 1])
            /\ WithMembers(E, S) = w[Unlimited]
<1> DEFINE X == SUBSET Nodes
           step == [k \in Nat |-> [x \in X |-> Grown(E, x)]]
           body(w) == [i \in 0 .. Unlimited |-> IF i = 0 THEN S ELSE Grown(E, w[i - 1])]
<1>1. Unlimited \in Nat
  BY WalksAssumption DEF WalksAssumption
<1>2. \A x \in X : Grown(E, x) \in X
  BY ContainedType DEF Grown
<1>3. S \in X
  OBVIOUS
<1> HIDE DEF X
<1>4. step \in [Nat -> [X -> X]]
  BY <1>2
<1>5. PICK g \in [0 .. Unlimited -> X] : Unfolds(g, Unlimited, S, step)
  <2> HIDE DEF step
  <2> QED BY <1>1, <1>3, <1>4, Recursion
<1>6. g[0] = S /\ \A k \in 1 .. Unlimited : g[k] = Grown(E, g[k - 1])
  <2>1. ASSUME NEW k \in 1 .. Unlimited PROVE g[k] = Grown(E, g[k - 1])
    <3>1. k - 1 \in 0 .. Unlimited /\ k \in Nat
      BY <1>1
    <3>2. g[k - 1] \in X
      BY <3>1, <1>5
    <3>3. g[k] = step[k][g[k - 1]]
      BY <1>5 DEF Unfolds
    <3> QED BY <3>1, <3>2, <3>3
  <2> QED BY <2>1, <1>5 DEF Unfolds
<1>7. g = body(g)
  BY <1>1, <1>5, <1>6
<1>8. PICK w : w = body(w) /\ WithMembers(E, S) = w[Unlimited]
  <2> DEFINE w == CHOOSE w : w = body(w)
  <2>1. w = body(w)
    <3> HIDE DEF body
    <3> QED BY <1>7
  <2>2. WithMembers(E, S) = w[Unlimited]
    BY Zenon DEF WithMembers, Grown
  <2> HIDE DEF w
  <2> QED BY <2>1, <2>2
<1>9. /\ DOMAIN w = 0 .. Unlimited
      /\ w[0] = S
      /\ \A k \in 1 .. Unlimited : w[k] = Grown(E, w[k - 1])
  <2>1. /\ DOMAIN body(w) = 0 .. Unlimited
        /\ \A k \in 0 .. Unlimited : body(w)[k] = IF k = 0 THEN S ELSE Grown(E, w[k - 1])
    OBVIOUS
  <2> HIDE DEF body
  <2>2. /\ DOMAIN w = 0 .. Unlimited
        /\ \A k \in 0 .. Unlimited : w[k] = IF k = 0 THEN S ELSE Grown(E, w[k - 1])
    BY <1>8, <2>1
  <2> QED BY <1>1, <2>2
<1>10. w \in [0 .. Unlimited -> X]
  <2> DEFINE T == {m \in Nat : m <= Unlimited => w[m] \in X}
  <2>1. 0 \in T
    BY <1>3, <1>9
  <2>2. ASSUME NEW m \in Nat, m \in T PROVE m + 1 \in T
    BY <2>2, <1>1, <1>2, <1>9
  <2> HIDE DEF T
  <2>3. Nat \subseteq T
    BY <2>1, <2>2, NatInd
  <2>4. \A m \in 0 .. Unlimited : w[m] \in X
    BY <2>3, <1>1 DEF T
  <2>5. w = [k \in 0 .. Unlimited |-> w[k]]
    BY <1>8
  <2> QED BY <2>4, <2>5
<1> QED BY <1>8, <1>9, <1>10 DEF X

\* The members of its nodes are in a set that is closed under membership.
MembersIn(E, S) == \A n \in S : Contained(E, n) \subseteq S

\* A set with its members, theirs and so on is the least such set around it: there are
\* no more stages that add a node than there are nodes.
LEMMA WithMembersLeast ==
  ASSUME NEW E \in SUBSET Relations, NEW S \in SUBSET Nodes
  PROVE  /\ WithMembers(E, S) \in SUBSET Nodes
         /\ S \subseteq WithMembers(E, S)
         /\ MembersIn(E, WithMembers(E, S))
         /\ \A C : S \subseteq C /\ MembersIn(E, C) => WithMembers(E, S) \subseteq C
<1>1. Unlimited \in Nat /\ IsFiniteSet(Nodes) /\ Cardinality(Nodes) <= Unlimited
  BY WalksAssumption DEF WalksAssumption
<1>2. PICK w \in [0 .. Unlimited -> SUBSET Nodes] :
            /\ w[0] = S
            /\ \A k \in 1 .. Unlimited : w[k] = Grown(E, w[k - 1])
            /\ WithMembers(E, S) = w[Unlimited]
  BY MembersStages
<1>3. ASSUME NEW k \in Nat, k + 1 <= Unlimited PROVE k \in 0 .. Unlimited /\ w[k + 1] = Grown(E, w[k])
  <2>1. k + 1 \in 1 .. Unlimited /\ (k + 1) - 1 = k
    BY <1>1, <1>3
  <2> QED BY <1>1, <1>2, <2>1
<1>4. w[Unlimited] \in SUBSET Nodes
  BY <1>1, <1>2
<1>5. S \subseteq w[Unlimited]
  <2> DEFINE T == {m \in Nat : m <= Unlimited => S \subseteq w[m]}
  <2>1. 0 \in T
    BY <1>2
  <2>2. ASSUME NEW m \in Nat, m \in T PROVE m + 1 \in T
    <3>1. SUFFICES ASSUME m + 1 <= Unlimited PROVE S \subseteq w[m + 1]
      OBVIOUS
    <3>2. w[m + 1] = Grown(E, w[m]) /\ S \subseteq w[m]
      BY <1>1, <1>3, <2>2, <3>1
    <3> QED BY <3>2 DEF Grown
  <2> HIDE DEF T
  <2>3. Unlimited \in T
    BY <1>1, <2>1, <2>2, NatInd
  <2> QED BY <1>1, <2>3 DEF T
<1>6. ASSUME NEW C, S \subseteq C, MembersIn(E, C) PROVE w[Unlimited] \subseteq C
  <2> DEFINE T == {m \in Nat : m <= Unlimited => w[m] \subseteq C}
  <2>1. 0 \in T
    BY <1>2, <1>6
  <2>2. ASSUME NEW m \in Nat, m \in T PROVE m + 1 \in T
    <3>1. SUFFICES ASSUME m + 1 <= Unlimited PROVE w[m + 1] \subseteq C
      OBVIOUS
    <3>2. w[m + 1] = Grown(E, w[m]) /\ w[m] \subseteq C
      BY <1>1, <1>3, <2>2, <3>1
    <3> QED BY <3>2, <1>6 DEF Grown, MembersIn
  <2> HIDE DEF T
  <2>3. Unlimited \in T
    BY <1>1, <2>1, <2>2, NatInd
  <2> QED BY <1>1, <2>3 DEF T
<1>7. MembersIn(E, w[Unlimited])
  <2> DEFINE T == {m \in Nat : m <= Unlimited => MembersIn(E, w[m]) \/ m <= Cardinality(w[m])}
  <2>1. 0 \in T
    <3>1. w[0] \in SUBSET Nodes
      BY <1>1, <1>2
    <3>2. IsFiniteSet(w[0])
      BY <1>1, <3>1, FS_Subset
    <3>3. Cardinality(w[0]) \in Nat
      BY <3>2, FS_CardinalityType
    <3> QED BY <3>3
  <2>2. ASSUME NEW m \in Nat, m \in T PROVE m + 1 \in T
    <3>1. SUFFICES ASSUME m + 1 <= Unlimited
                   PROVE  MembersIn(E, w[m + 1]) \/ m + 1 <= Cardinality(w[m + 1])
      OBVIOUS
    <3>2. w[m + 1] = Grown(E, w[m]) /\ m \in 0 .. Unlimited /\ m + 1 \in 0 .. Unlimited
      BY <1>1, <1>3, <3>1
    <3>3. w[m] \in SUBSET Nodes /\ w[m + 1] \in SUBSET Nodes
      BY <1>2, <3>2
    <3>4. CASE MembersIn(E, w[m])
      <4>1. w[m + 1] = w[m]
        BY <3>2, <3>4 DEF Grown, MembersIn
      <4> QED BY <3>4, <4>1
    <3>5. CASE ~MembersIn(E, w[m])
      <4>1. w[m] \subseteq w[m + 1] /\ w[m] # w[m + 1]
        BY <3>2, <3>5 DEF Grown, MembersIn
      <4>2. m <= Cardinality(w[m])
        BY <1>1, <2>2, <3>1, <3>5
      <4>3. IsFiniteSet(w[m + 1])
        BY <1>1, <3>3, FS_Subset
      <4>4. Cardinality(w[m]) <= Cardinality(w[m + 1]) /\ Cardinality(w[m + 1]) # Cardinality(w[m])
        BY <4>1, <4>3, FS_Subset
      <4>5. IsFiniteSet(w[m])
        BY <1>1, <3>3, FS_Subset
      <4>6. Cardinality(w[m]) \in Nat /\ Cardinality(w[m + 1]) \in Nat
        BY <4>3, <4>5, FS_CardinalityType
      <4> QED BY <4>2, <4>4, <4>6
    <3> QED BY <3>4, <3>5
  <2> HIDE DEF T
  <2>3. Unlimited \in T
    BY <1>1, <2>1, <2>2, NatInd
  <2>4. CASE Unlimited <= Cardinality(w[Unlimited])
    <3>1. Cardinality(w[Unlimited]) <= Cardinality(Nodes) /\ (Cardinality(Nodes) = Cardinality(w[Unlimited]) => Nodes = w[Unlimited])
      BY <1>1, <1>4, FS_Subset
    <3>2. IsFiniteSet(w[Unlimited])
      BY <1>1, <1>4, FS_Subset
    <3>3. Cardinality(w[Unlimited]) \in Nat /\ Cardinality(Nodes) \in Nat
      BY <1>1, <3>2, FS_CardinalityType
    <3>4. w[Unlimited] = Nodes
      BY <1>1, <2>4, <3>1, <3>3
    <3> QED BY <3>4, ContainedType DEF MembersIn
  <2> QED BY <1>1, <2>3, <2>4 DEF T
<1> QED BY <1>2, <1>4, <1>5, <1>6, <1>7

\* Where a set reaches over one step.
Ways == {-1, 0, 1}

LEMMA FurtherType ==
  ASSUME NEW E \in SUBSET Relations, NEW way \in Ways, NEW whole \in BOOLEAN, NEW S \in SUBSET Nodes
  PROVE  Further(E, way, whole, S) \in SUBSET Nodes /\ S \subseteq Further(E, way, whole, S)
<1>1. WithMembers(E, S) \in SUBSET Nodes /\ S \subseteq WithMembers(E, S)
  BY WithMembersLeast
<1>2. \A e \in E : e[1] \in Nodes /\ e[2] \in Nodes
  BY WalksAssumption DEF WalksAssumption
<1> QED BY <1>1, <1>2 DEF Further

WithinSteps(S, E, way, whole, d, w) ==
  /\ w \in [0 .. d -> SUBSET Nodes]
  /\ w[0] = S
  /\ \A k \in 1 .. d : w[k] = Further(E, way, whole, w[k - 1])
  /\ Within(S, E, way, whole, d) = w[d]

LEMMA WithinStages ==
  ASSUME NEW E \in SUBSET Relations, NEW way \in Ways, NEW whole \in BOOLEAN, NEW S \in SUBSET Nodes,
         NEW d \in Nat
  PROVE  \E w : WithinSteps(S, E, way, whole, d, w)
<1> DEFINE X == SUBSET Nodes
           step == [k \in Nat |-> [x \in X |-> Further(E, way, whole, x)]]
           body(w) == [i \in 0 .. d |-> IF i = 0 THEN S ELSE Further(E, way, whole, w[i - 1])]
<1>2. \A x \in X : Further(E, way, whole, x) \in X
  BY FurtherType
<1>3. S \in X
  OBVIOUS
<1> HIDE DEF X
<1>4. step \in [Nat -> [X -> X]]
  BY <1>2
<1>5. PICK g \in [0 .. d -> X] : Unfolds(g, d, S, step)
  <2> HIDE DEF step
  <2> QED BY <1>3, <1>4, Recursion
<1>6. g[0] = S /\ \A k \in 1 .. d : g[k] = Further(E, way, whole, g[k - 1])
  <2>1. ASSUME NEW k \in 1 .. d PROVE g[k] = Further(E, way, whole, g[k - 1])
    <3>1. k - 1 \in 0 .. d /\ k \in Nat
      OBVIOUS
    <3>2. g[k - 1] \in X
      BY <3>1, <1>5
    <3>3. g[k] = step[k][g[k - 1]]
      BY <1>5 DEF Unfolds
    <3> QED BY <3>1, <3>2, <3>3
  <2> QED BY <2>1, <1>5 DEF Unfolds
<1>7. g = body(g)
  BY <1>5, <1>6
<1>8. PICK w : w = body(w) /\ Within(S, E, way, whole, d) = w[d]
  <2> DEFINE w == CHOOSE w : w = body(w)
  <2>1. w = body(w)
    <3> HIDE DEF body
    <3> QED BY <1>7
  <2>2. Within(S, E, way, whole, d) = w[d]
    BY Zenon DEF Within
  <2> HIDE DEF w
  <2> QED BY <2>1, <2>2
<1>9. /\ DOMAIN w = 0 .. d
      /\ w[0] = S
      /\ \A k \in 1 .. d : w[k] = Further(E, way, whole, w[k - 1])
  <2>1. /\ DOMAIN body(w) = 0 .. d
        /\ \A k \in 0 .. d : body(w)[k] = IF k = 0 THEN S ELSE Further(E, way, whole, w[k - 1])
    OBVIOUS
  <2> HIDE DEF body
  <2>2. /\ DOMAIN w = 0 .. d
        /\ \A k \in 0 .. d : w[k] = IF k = 0 THEN S ELSE Further(E, way, whole, w[k - 1])
    BY <1>8, <2>1
  <2> QED BY <2>2
<1>10. w \in [0 .. d -> X]
  <2> DEFINE T == {m \in Nat : m <= d => w[m] \in X}
  <2>1. 0 \in T
    BY <1>3, <1>9
  <2>2. ASSUME NEW m \in Nat, m \in T PROVE m + 1 \in T
    BY <2>2, <1>2, <1>9
  <2> HIDE DEF T
  <2>3. Nat \subseteq T
    BY <2>1, <2>2, NatInd
  <2>4. \A m \in 0 .. d : w[m] \in X
    BY <2>3 DEF T
  <2>5. w = [k \in 0 .. d |-> w[k]]
    BY <1>8
  <2> QED BY <2>4, <2>5
<1> QED BY <1>8, <1>9, <1>10 DEF X, WithinSteps


\* One step more is one step further.
LEMMA WithinUnfolds ==
  ASSUME NEW E \in SUBSET Relations, NEW way \in Ways, NEW whole \in BOOLEAN, NEW S \in SUBSET Nodes
  PROVE  /\ Within(S, E, way, whole, 0) = S
         /\ \A d \in Nat :
               /\ Within(S, E, way, whole, d) \in SUBSET Nodes
               /\ Within(S, E, way, whole, d + 1) = Further(E, way, whole, Within(S, E, way, whole, d))
<1>1. Within(S, E, way, whole, 0) = S
  <2>1. PICK w : WithinSteps(S, E, way, whole, 0, w)
    BY WithinStages
  <2> QED BY <2>1 DEF WithinSteps
<1>2. ASSUME NEW d \in Nat
      PROVE  /\ Within(S, E, way, whole, d) \in SUBSET Nodes
             /\ Within(S, E, way, whole, d + 1) = Further(E, way, whole, Within(S, E, way, whole, d))
  <2>1. PICK w : WithinSteps(S, E, way, whole, d, w)
    BY WithinStages
  <2>2. d + 1 \in Nat
    OBVIOUS
  <2>3. PICK v : WithinSteps(S, E, way, whole, d + 1, v)
    BY <2>2, WithinStages
  <2> DEFINE T == {m \in Nat : m <= d => v[m] = w[m]}
  <2>4. 0 \in T
    BY <2>1, <2>3 DEF WithinSteps
  <2>5. ASSUME NEW m \in Nat, m \in T PROVE m + 1 \in T
    <3>1. SUFFICES ASSUME m + 1 <= d PROVE v[m + 1] = w[m + 1]
      OBVIOUS
    <3>2. m + 1 \in 1 .. d /\ m + 1 \in 1 .. (d + 1) /\ (m + 1) - 1 = m /\ v[m] = w[m]
      BY <2>5, <3>1
    <3>3. v[m + 1] = Further(E, way, whole, v[m])
      BY <2>3, <3>2 DEF WithinSteps
    <3>4. w[m + 1] = Further(E, way, whole, w[m])
      BY <2>1, <3>2 DEF WithinSteps
    <3> QED BY <3>2, <3>3, <3>4
  <2> HIDE DEF T
  <2>6. d \in T
    BY <2>4, <2>5, NatInd
  <2>7. v[d] = w[d]
    BY <2>6 DEF T
  <2>8. d + 1 \in 1 .. (d + 1) /\ (d + 1) - 1 = d
    OBVIOUS
  <2>9. v[d + 1] = Further(E, way, whole, v[d])
    BY <2>3, <2>8 DEF WithinSteps
  <2>10. w[d] \in SUBSET Nodes
    BY <2>1 DEF WithinSteps
  <2> QED BY <2>1, <2>3, <2>7, <2>9, <2>10 DEF WithinSteps
<1> QED BY <1>1, <1>2

\* What is within d steps is within more.
LEMMA WithinGrows ==
  ASSUME NEW E \in SUBSET Relations, NEW way \in Ways, NEW whole \in BOOLEAN, NEW S \in SUBSET Nodes,
         NEW c \in Nat, NEW d \in Nat, c <= d
  PROVE  Within(S, E, way, whole, c) \subseteq Within(S, E, way, whole, d)
<1> DEFINE W(m) == Within(S, E, way, whole, m)
           T == {m \in Nat : W(c) \subseteq W(c + m)}
<1>1. 0 \in T
  OBVIOUS
<1>2. ASSUME NEW m \in Nat, m \in T PROVE m + 1 \in T
  <2>1. c + m \in Nat /\ c + (m + 1) = (c + m) + 1
    OBVIOUS
  <2> DEFINE k == c + m
  <2>2. Within(S, E, way, whole, k + 1) = Further(E, way, whole, Within(S, E, way, whole, k)) /\ Within(S, E, way, whole, k) \in SUBSET Nodes
    <3>1. k \in Nat
      OBVIOUS
    <3> HIDE DEF k
    <3> QED BY <3>1, WithinUnfolds
  <2>3. W(c + m) \subseteq W(c + (m + 1))
    BY <2>2, FurtherType
  <2> QED BY <1>2, <2>3
<1> HIDE DEF T
<1>3. d - c \in Nat /\ c + (d - c) = d
  OBVIOUS
<1>4. d - c \in T
  BY <1>1, <1>2, <1>3, NatInd
<1> QED BY <1>3, <1>4 DEF T

\* A set that no step leaves.
Closed(E, way, whole, C) ==
  /\ \A e \in E : /\ way >= 0 /\ e[1] \in C => e[2] \in C
                  /\ way <= 0 /\ e[2] \in C => e[1] \in C
  /\ whole => MembersIn(E, C)

LEMMA ClosedContains ==
  ASSUME NEW E \in SUBSET Relations, NEW way \in Ways, NEW whole \in BOOLEAN, NEW S \in SUBSET Nodes,
         NEW C, S \subseteq C, Closed(E, way, whole, C), NEW d \in Nat
  PROVE  Within(S, E, way, whole, d) \subseteq C
<1> DEFINE W(m) == Within(S, E, way, whole, m)
           T == {m \in Nat : W(m) \subseteq C}
<1>1. 0 \in T
  BY WithinUnfolds
<1>2. ASSUME NEW m \in Nat, m \in T PROVE m + 1 \in T
  <2>1. W(m + 1) = Further(E, way, whole, W(m)) /\ W(m) \in SUBSET Nodes /\ W(m) \subseteq C
    BY <1>2, WithinUnfolds
  <2>2. whole => WithMembers(E, W(m)) \subseteq C
    <3> HIDE DEF W
    <3>1. SUFFICES ASSUME whole PROVE WithMembers(E, W(m)) \subseteq C
      OBVIOUS
    <3>2. MembersIn(E, C)
      BY <3>1, Zenon DEF Closed
    <3> QED BY <2>1, <3>2, WithMembersLeast
  <2> HIDE DEF W
  <2>3. Further(E, way, whole, W(m)) \subseteq C
    BY <2>1, <2>2 DEF Further, Closed
  <2> QED BY <2>1, <2>3
<1> HIDE DEF T
<1>3. d \in T
  BY <1>1, <1>2, NatInd
<1> QED BY <1>3 DEF T

\* More edges lead to more nodes.
LEMMA MoreEdges ==
  ASSUME NEW E \in SUBSET Relations, NEW D \in SUBSET E, NEW way \in Ways, NEW S \in SUBSET Nodes, NEW d \in Nat
  PROVE  Within(S, D, way, FALSE, d) \subseteq Within(S, E, way, FALSE, d)
<1> DEFINE W(H, m) == Within(S, H, way, FALSE, m)
           T == {m \in Nat : W(D, m) \subseteq W(E, m)}
<1>0. D \in SUBSET Relations
  OBVIOUS
<1>1. 0 \in T
  <2>1. W(D, 0) = S /\ W(E, 0) = S
    BY Zenon, <1>0, WithinUnfolds
  <2> QED BY <2>1
<1>2. ASSUME NEW m \in Nat, m \in T PROVE m + 1 \in T
  <2>1. W(D, m + 1) = Further(D, way, FALSE, W(D, m)) /\ W(E, m + 1) = Further(E, way, FALSE, W(E, m))
    <3>1. W(D, m + 1) = Further(D, way, FALSE, W(D, m))
      BY ZenonT(30), <1>0, WithinUnfolds
    <3>2. W(E, m + 1) = Further(E, way, FALSE, W(E, m))
      BY ZenonT(30), WithinUnfolds
    <3> QED BY <3>1, <3>2
  <2>2. \A x, y : x \subseteq y => Further(D, way, FALSE, x) \subseteq Further(E, way, FALSE, y)
    BY DEF Further
  <2>3. W(D, m) \subseteq W(E, m)
    BY <1>2
  <2> HIDE DEF W
  <2>4. PICK x, y, x2, y2 : x = W(D, m) /\ y = W(E, m) /\ x2 = W(D, m + 1) /\ y2 = W(E, m + 1)
    OBVIOUS
  <2>5. x2 = Further(D, way, FALSE, x) /\ y2 = Further(E, way, FALSE, y)
    BY Zenon, <2>1, <2>4
  <2>6. x \subseteq y
    BY Zenon, <2>3, <2>4
  <2>7. x2 \subseteq y2
    BY Zenon, <2>2, <2>5, <2>6
  <2>8. W(D, m + 1) \subseteq W(E, m + 1)
    BY Zenon, <2>4, <2>7
  <2> QED BY <2>8
<1> HIDE DEF T
<1>3. d \in T
  BY <1>1, <1>2, NatInd
<1> QED BY <1>3 DEF T
-----------------------------------------------------------------------------
(* What the walks follow, and what they are to find, in the same terms: the  *)
(* edges, which way they are taken, and the nodes they may lead to.          *)
Links ==
  CASE query.op \in {"callers", "callees", "callgraph"} -> OfKinds(Uses)
    [] query.op = "hierarchy" -> OfKinds(Hierarchy)
    [] query.op \notin {"callers", "callees", "callgraph", "hierarchy"} -> graph

Toward(r) ==
  CASE query.op = "path" \/ query.op = "callees" -> 1
    [] query.op = "impact" \/ query.op = "callers" -> -1
    [] query.op = "callgraph" -> IF r = 1 THEN -1 ELSE 1
    [] query.op = "hierarchy" -> IF r = 1 THEN 1 ELSE -1
    [] query.op \in {"bfs", "dfs"} -> Way

Allowed == IF query.op \in {"bfs", "dfs"} THEN query.only \union {query.start} ELSE Nodes

Lead(r) == {e \in Links : (Toward(r) >= 0 => e[2] \in Allowed) /\ (Toward(r) <= 0 => e[1] \in Allowed)}

Reach(r, d) ==
  IF query.op = "impact" THEN Within({query.start}, Lead(r), Toward(r), TRUE, d)
                         ELSE Within({query.start}, Lead(r), Toward(r), FALSE, d)

\* Where a walk may be after d steps, the members of what it reached among it.
Stand(r, d) == IF query.op = "impact" THEN WithMembers(Lead(r), Reach(r, d)) ELSE Reach(r, d)

\* The rounds a question has.
RoundOf(r) ==
  /\ r \in 0 .. 2
  /\ query.op \in {"callers", "callees"} => r = 1
  /\ query.op \in {"callgraph", "hierarchy"} => r \in {1, 2}

Walks == {"bfs", "path", "dfs", "callers", "callees", "callgraph", "hierarchy", "impact"}
IsWalk == graph \in SUBSET Relations /\ query \in Asks /\ query.op \in Walks /\ query.start \in Nodes

LEMMA QueryType ==
  ASSUME query \in Asks
  PROVE  /\ query.op \in Walks \union {"cycles"}
         /\ query.depth \in Nat /\ query.depth <= Unlimited /\ query.limit \in Nat
         /\ query.include \in BOOLEAN
         /\ query.dir \in {"outgoing", "incoming", "both"}
         /\ query.op \in {"path", "hierarchy", "cycles"} => query.depth = Unlimited
BY WalksAssumption DEF WalksAssumption, Walks

LEMMA LeadType ==
  ASSUME IsWalk, NEW r
  PROVE  /\ Links \subseteq graph /\ Lead(r) \in SUBSET Relations /\ Lead(r) \subseteq graph
         /\ Toward(r) \in Ways
         /\ {query.start} \in SUBSET Nodes
<1>1. Links \subseteq graph
  BY DEF IsWalk, Links, OfKinds, Walks
<1>2. Way \in Ways
  BY QueryType DEF IsWalk, Way, Ways
<1>3. Toward(r) \in Ways
  BY <1>2 DEF IsWalk, Toward, Ways, Walks
<1> QED BY <1>1, <1>3 DEF Lead, IsWalk

LEMMA FollowIs ==
  ASSUME IsWalk, NEW r, RoundOf(r), NEW n, NEW e
  PROVE  e \in Follow(n, r) <=>
            /\ e \in Links
            /\ (Toward(r) >= 0 /\ e[1] = n) \/ (Toward(r) <= 0 /\ e[2] = n)
            /\ query.op \in {"bfs", "dfs"} => Other(e, n) \in query.only
<1>1. query.op \in Walks
  BY DEF IsWalk
<1>2. CASE query.op = "path"
  <2>1. Follow(n, r) = Out(n, {}) /\ Links = graph /\ Toward(r) = 1
    BY <1>2 DEF Follow, Links, Toward
  <2> QED BY <1>2, <2>1 DEF Out
<1>3. CASE query.op \in {"bfs", "dfs"}
  <2>1. Follow(n, r) = {x \in Adjacent(n) : Other(x, n) \in query.only} /\ Links = graph /\ Toward(r) = Way
    BY <1>3 DEF Follow, Links, Toward
  <2>2. query.dir \in {"outgoing", "incoming", "both"}
    BY QueryType DEF IsWalk
  <2>3. e \in Adjacent(n) <=> e \in graph /\ ((Way >= 0 /\ e[1] = n) \/ (Way <= 0 /\ e[2] = n))
    BY <2>2 DEF Adjacent, Way, Out, In
  <2> QED BY <1>3, <2>1, <2>3
<1>4. CASE query.op = "callers"
  <2>1. Follow(n, r) = In(n, Uses) /\ Links = OfKinds(Uses) /\ Toward(r) = -1
    BY <1>4 DEF Follow, Links, Toward, RoundOf
  <2> QED BY <1>4, <2>1 DEF In, OfKinds, Uses
<1>5. CASE query.op = "callees"
  <2>1. Follow(n, r) = Out(n, Uses) /\ Links = OfKinds(Uses) /\ Toward(r) = 1
    BY <1>5 DEF Follow, Links, Toward, RoundOf
  <2> QED BY <1>5, <2>1 DEF Out, OfKinds, Uses
<1>6. CASE query.op = "callgraph"
  <2>1. r \in {1, 2} /\ Links = OfKinds(Uses)
    BY <1>6 DEF Links, RoundOf
  <2>2. CASE r = 1
    <3>1. Follow(n, r) = In(n, Uses) /\ Toward(r) = -1
      BY <1>6, <2>2 DEF Follow, Toward
    <3> QED BY <1>6, <2>1, <3>1 DEF In, OfKinds, Uses
  <2>3. CASE r = 2
    <3>1. Follow(n, r) = Out(n, Uses) /\ Toward(r) = 1
      BY <1>6, <2>3 DEF Follow, Toward
    <3> QED BY <1>6, <2>1, <3>1 DEF Out, OfKinds, Uses
  <2> QED BY <2>1, <2>2, <2>3
<1>7. CASE query.op = "hierarchy"
  <2>1. r \in {1, 2} /\ Links = OfKinds(Hierarchy)
    BY <1>7 DEF Links, RoundOf
  <2>2. CASE r = 1
    <3>1. Follow(n, r) = Out(n, Hierarchy) /\ Toward(r) = 1
      BY <1>7, <2>2 DEF Follow, Toward
    <3> QED BY <1>7, <2>1, <3>1 DEF Out, OfKinds, Hierarchy
  <2>3. CASE r = 2
    <3>1. Follow(n, r) = In(n, Hierarchy) /\ Toward(r) = -1
      BY <1>7, <2>3 DEF Follow, Toward
    <3> QED BY <1>7, <2>1, <3>1 DEF In, OfKinds, Hierarchy
  <2> QED BY <2>1, <2>2, <2>3
<1>8. CASE query.op = "impact"
  <2>1. Follow(n, r) = In(n, {}) /\ Links = graph /\ Toward(r) = -1
    BY <1>8 DEF Follow, Links, Toward
  <2> QED BY <1>8, <2>1 DEF In
<1> QED BY <1>1, <1>2, <1>3, <1>4, <1>5, <1>6, <1>7, <1>8 DEF Walks

\* An edge that is followed from a node of S leads one step further than S.
LEMMA FollowedLeads ==
  ASSUME IsWalk, NEW r, RoundOf(r), NEW H, NEW S, NEW n \in S, NEW e \in H, e \in Follow(n, r)
  PROVE  Other(e, n) \in Further(H, Toward(r), FALSE, S)
<1>1. (Toward(r) >= 0 /\ e[1] = n) \/ (Toward(r) <= 0 /\ e[2] = n)
  BY FollowIs
<1>2. Toward(r) >= 0 /\ e[1] = n => Other(e, n) \in {x[2] : x \in {x \in H : x[1] \in S}}
  BY DEF Other
<1>3. Toward(r) <= 0 /\ e[2] = n => Other(e, n) \in S \union {x[1] : x \in {x \in H : x[2] \in S}}
  BY DEF Other
<1> QED BY <1>1, <1>2, <1>3 DEF Further

\* It is one of the edges that are to be followed, if the node may be reached.
LEMMA FollowedIsLead ==
  ASSUME IsWalk, NEW r, RoundOf(r), NEW n \in Allowed, NEW e, e \in Follow(n, r)
  PROVE  e \in Lead(r) /\ e \in graph /\ Other(e, n) \in Allowed /\ Other(e, n) \in Nodes
<1>1. /\ e \in Links /\ e \in graph
      /\ (Toward(r) >= 0 /\ e[1] = n) \/ (Toward(r) <= 0 /\ e[2] = n)
      /\ query.op \in {"bfs", "dfs"} => Other(e, n) \in query.only
  BY FollowIs, LeadType
<1>2. e[1] \in Nodes /\ e[2] \in Nodes
  BY <1>1, WalksAssumption DEF WalksAssumption, IsWalk
<1>3. Other(e, n) \in Allowed
  BY <1>1, <1>2 DEF Allowed, Other
<1>4. Other(e, n) \in Nodes
  BY <1>2 DEF Other
<1>5. (Toward(r) >= 0 => e[2] \in Allowed) /\ (Toward(r) <= 0 => e[1] \in Allowed)
  <2>1. CASE query.op \in {"bfs", "dfs"}
    <3>1. Toward(r) \in Ways
      BY LeadType
    <3> QED BY <1>1, <1>3, <3>1 DEF Other, Ways
  <2>2. CASE query.op \notin {"bfs", "dfs"}
    BY <1>2, <2>2 DEF Allowed
  <2> QED BY <2>1, <2>2
<1> QED BY <1>1, <1>3, <1>4, <1>5 DEF Lead

\* Conversely, what is one step further is at the other end of an edge that is followed.
LEMMA FurtherIsFollowed ==
  ASSUME IsWalk, NEW r, RoundOf(r), NEW e \in Lead(r)
  PROVE  /\ Toward(r) >= 0 => (e \in Follow(e[1], r) /\ Other(e, e[1]) = e[2]) \/ e[2] = query.start
         /\ Toward(r) <= 0 => (e \in Follow(e[2], r) /\ Other(e, e[2]) = e[1]) \/ e[1] = e[2] \/ e[1] = query.start
<1>1. e \in Links /\ (Toward(r) >= 0 => e[2] \in Allowed) /\ (Toward(r) <= 0 => e[1] \in Allowed)
  BY DEF Lead
<1>2. Other(e, e[1]) = e[2] /\ (e[1] # e[2] => Other(e, e[2]) = e[1])
  BY DEF Other
<1>3. \A n : (query.op \in {"bfs", "dfs"} /\ Other(e, n) \in Allowed /\ Other(e, n) # query.start => Other(e, n) \in query.only)
  BY DEF Allowed
<1>4. ASSUME Toward(r) >= 0, e[2] # query.start PROVE e \in Follow(e[1], r) /\ Other(e, e[1]) = e[2]
  BY <1>1, <1>2, <1>3, <1>4, FollowIs
<1>5. ASSUME Toward(r) <= 0, e[1] # query.start, e[1] # e[2] PROVE e \in Follow(e[2], r) /\ Other(e, e[2]) = e[1]
  BY <1>1, <1>2, <1>3, <1>5, FollowIs
<1> QED BY <1>4, <1>5

\* What may be reached, step by step.
LEMMA ReachIs ==
  ASSUME IsWalk, NEW r, RoundOf(r)
  PROVE  /\ Reach(r, 0) = {query.start}
         /\ \A d \in Nat :
               /\ Reach(r, d) \in SUBSET Nodes
               /\ Stand(r, d) \in SUBSET Nodes
               /\ Reach(r, d) \subseteq Stand(r, d)
               /\ Reach(r, d + 1) = Further(Lead(r), Toward(r), FALSE, Stand(r, d))
<1>1. Lead(r) \in SUBSET Relations /\ Toward(r) \in Ways /\ {query.start} \in SUBSET Nodes
  BY LeadType
<1>2. PICK E \in SUBSET Relations, S \in SUBSET Nodes, way \in Ways : E = Lead(r) /\ S = {query.start} /\ way = Toward(r)
  BY <1>1
<1>3. CASE query.op = "impact"
  <2>1. \A d : Reach(r, d) = Within(S, E, way, TRUE, d) /\ Stand(r, d) = WithMembers(E, Reach(r, d))
    BY Zenon, <1>2, <1>3 DEF Reach, Stand
  <2>2. /\ Within(S, E, way, TRUE, 0) = S
        /\ \A d \in Nat :
               /\ Within(S, E, way, TRUE, d) \in SUBSET Nodes
               /\ Within(S, E, way, TRUE, d + 1) = Further(E, way, TRUE, Within(S, E, way, TRUE, d))
    BY Zenon, WithinUnfolds
  <2>3. \A X : Further(E, way, TRUE, X) = Further(E, way, FALSE, WithMembers(E, X))
    BY Zenon DEF Further
  <2>4. \A X \in SUBSET Nodes : WithMembers(E, X) \in SUBSET Nodes /\ X \subseteq WithMembers(E, X)
    BY <1>1, <1>2, WithMembersLeast
  <2>5. ASSUME NEW d \in Nat
        PROVE  /\ Reach(r, d) \in SUBSET Nodes
               /\ Stand(r, d) \in SUBSET Nodes
               /\ Reach(r, d) \subseteq Stand(r, d)
               /\ Reach(r, d + 1) = Further(E, way, FALSE, Stand(r, d))
    <3>1. Reach(r, d) \in SUBSET Nodes
      BY Zenon, <2>1, <2>2
    <3>2. Stand(r, d) \in SUBSET Nodes /\ Reach(r, d) \subseteq Stand(r, d)
      BY Zenon, <2>1, <2>4, <3>1
    <3>3. Reach(r, d + 1) = Further(E, way, TRUE, Reach(r, d))
      BY Zenon, <2>1, <2>2
    <3>4. Reach(r, d + 1) = Further(E, way, FALSE, Stand(r, d))
      BY Zenon, <2>1, <2>3, <3>3
    <3> QED BY <3>1, <3>2, <3>4
  <2>6. Reach(r, 0) = S
    BY Zenon, <2>1, <2>2
  <2> QED BY Zenon, <1>2, <2>5, <2>6
<1>4. CASE query.op # "impact"
  <2>1. \A d : Reach(r, d) = Within(S, E, way, FALSE, d) /\ Stand(r, d) = Reach(r, d)
    BY Zenon, <1>2, <1>4 DEF Reach, Stand
  <2>2. /\ Within(S, E, way, FALSE, 0) = S
        /\ \A d \in Nat :
               /\ Within(S, E, way, FALSE, d) \in SUBSET Nodes
               /\ Within(S, E, way, FALSE, d + 1) = Further(E, way, FALSE, Within(S, E, way, FALSE, d))
    BY Zenon, WithinUnfolds
  <2>3. ASSUME NEW d \in Nat
        PROVE  /\ Reach(r, d) \in SUBSET Nodes
               /\ Stand(r, d) \in SUBSET Nodes
               /\ Reach(r, d) \subseteq Stand(r, d)
               /\ Reach(r, d + 1) = Further(E, way, FALSE, Stand(r, d))
    <3>1. Reach(r, d) \in SUBSET Nodes /\ Stand(r, d) = Reach(r, d)
      BY Zenon, <2>1, <2>2
    <3>2. Reach(r, d + 1) = Further(E, way, FALSE, Stand(r, d))
      BY Zenon, <2>1, <2>2
    <3> QED BY <3>1, <3>2
  <2>4. Reach(r, 0) = S
    BY Zenon, <2>1, <2>2
  <2> QED BY Zenon, <1>2, <2>3, <2>4
<1> QED BY <1>3, <1>4

LEMMA StandReaches ==
  ASSUME IsWalk, NEW r, RoundOf(r), NEW d \in Nat
  PROVE  Stand(r, d) \subseteq Reach(r, d + 1) /\ Reach(r, d) \subseteq Reach(r, d + 1)
<1>1. Reach(r, d + 1) = Further(Lead(r), Toward(r), FALSE, Stand(r, d)) /\ Reach(r, d) \subseteq Stand(r, d)
  BY ReachIs
<1>2. Stand(r, d) \subseteq Further(Lead(r), Toward(r), FALSE, Stand(r, d))
  BY DEF Further
<1> QED BY <1>1, <1>2

LEMMA ReachGrows ==
  ASSUME IsWalk, NEW r, RoundOf(r), NEW c \in Nat, NEW d \in Nat, c <= d
  PROVE  Reach(r, c) \subseteq Reach(r, d)
<1> DEFINE T == {m \in Nat : Reach(r, c) \subseteq Reach(r, c + m)}
<1>1. 0 \in T
  OBVIOUS
<1>2. ASSUME NEW m \in Nat, m \in T PROVE m + 1 \in T
  <2>1. PICK k \in Nat : k = c + m /\ k + 1 = c + (m + 1)
    OBVIOUS
  <2>2. Reach(r, k) \subseteq Reach(r, k + 1)
    BY StandReaches
  <2> QED BY <1>2, <2>1, <2>2
<1> HIDE DEF T
<1>3. d - c \in Nat /\ c + (d - c) = d
  OBVIOUS
<1>4. d - c \in T
  BY <1>1, <1>2, <1>3, NatInd
<1> QED BY <1>3, <1>4 DEF T

LEMMA StartIsReached ==
  ASSUME IsWalk, NEW r, RoundOf(r), NEW d \in Nat
  PROVE  query.start \in Reach(r, d)
<1>1. 0 \in Nat /\ 0 <= d
  OBVIOUS
<1>2. Reach(r, 0) \subseteq Reach(r, d)
  BY <1>1, ReachGrows
<1>3. Reach(r, 0) = {query.start}
  BY ReachIs
<1> QED BY <1>2, <1>3

\* What is reached is the start or of the wanted kinds.
LEMMA ReachAllowed ==
  ASSUME IsWalk, NEW r, RoundOf(r), NEW d \in Nat
  PROVE  Stand(r, d) \subseteq Allowed
<1>1. CASE query.op \in {"bfs", "dfs"}
  <2> DEFINE T == {m \in Nat : Reach(r, m) \subseteq Allowed}
  <2>1. 0 \in T
    BY <1>1, ReachIs DEF Allowed
  <2>2. ASSUME NEW m \in Nat, m \in T PROVE m + 1 \in T
    <3>1. PICK S, A : S = Stand(r, m) /\ A = Allowed
      OBVIOUS
    <3>2. S \subseteq A
      BY <1>1, <2>2, <3>1 DEF Stand
    <3>3. \A e \in Lead(r) : (Toward(r) >= 0 => e[2] \in A) /\ (Toward(r) <= 0 => e[1] \in A)
      BY <3>1 DEF Lead
    <3>4. Further(Lead(r), Toward(r), FALSE, S) \subseteq A
      BY <3>2, <3>3 DEF Further
    <3>5. Reach(r, m + 1) = Further(Lead(r), Toward(r), FALSE, S)
      BY <3>1, ReachIs
    <3>6. Reach(r, m + 1) \subseteq Allowed
      BY <3>1, <3>4, <3>5
    <3> QED BY <3>6
  <2> HIDE DEF T
  <2>3. d \in T
    BY <2>1, <2>2, NatInd
  <2>4. Stand(r, d) = Reach(r, d)
    BY <1>1 DEF Stand
  <2> QED BY <2>3, <2>4 DEF T
<1>2. CASE query.op \notin {"bfs", "dfs"}
  BY <1>2, ReachIs DEF Allowed
<1> QED BY <1>1, <1>2

\* An edge that is followed from where the walk stands stays within what may be reached.
LEMMA FollowReaches ==
  ASSUME IsWalk, NEW r, RoundOf(r), NEW d \in Nat, NEW n \in Stand(r, d), NEW e \in Follow(n, r)
  PROVE  /\ Other(e, n) \in Reach(r, d + 1)
         /\ e \in graph /\ e \in Lead(r) /\ Other(e, n) \in Nodes
<1>1. n \in Allowed
  BY ReachAllowed
<1>2. e \in Lead(r) /\ e \in graph /\ Other(e, n) \in Nodes
  BY <1>1, FollowedIsLead
<1>3. PICK S : S = Stand(r, d)
  OBVIOUS
<1>4. Other(e, n) \in Further(Lead(r), Toward(r), FALSE, S)
  BY <1>2, <1>3, FollowedLeads
<1>5. Reach(r, d + 1) = Further(Lead(r), Toward(r), FALSE, S)
  BY <1>3, ReachIs
<1> QED BY <1>2, <1>4, <1>5

LEMMA MemberStands ==
  ASSUME IsWalk, NEW r, RoundOf(r), query.op = "impact", NEW d \in Nat, NEW n \in Stand(r, d), NEW e \in Members(n)
  PROVE  Other(e, n) \in Stand(r, d) /\ e \in graph /\ Other(e, n) \in Nodes
<1>1. Lead(r) = graph
  <2>1. Links = graph /\ Toward(r) = -1 /\ Allowed = Nodes
    BY DEF Links, Toward, Allowed
  <2>2. \A x \in graph : x[1] \in Nodes /\ x[2] \in Nodes
    BY WalksAssumption DEF WalksAssumption, IsWalk
  <2> QED BY <2>1, <2>2 DEF Lead
<1>2. n \in Containers /\ e \in graph /\ e[1] = n /\ e[3] = "contains"
  BY DEF Members, Out
<1>3. e[2] \in Contained(Lead(r), n) /\ Other(e, n) = e[2]
  BY <1>1, <1>2 DEF Contained, Other
<1>4. Reach(r, d) \in SUBSET Nodes /\ Lead(r) \in SUBSET Relations /\ Stand(r, d) = WithMembers(Lead(r), Reach(r, d)) /\ Stand(r, d) \in SUBSET Nodes
  BY ReachIs, LeadType DEF Stand
<1>5. MembersIn(Lead(r), Stand(r, d))
  BY <1>4, WithMembersLeast
<1> QED BY <1>2, <1>3, <1>4, <1>5 DEF MembersIn

\* What is one step further is where the walk stands or at the end of an edge it follows.
LEMMA ReachIsFollowed ==
  ASSUME IsWalk, NEW r, RoundOf(r), NEW d \in Nat, NEW m \in Reach(r, d + 1)
  PROVE  m \in Stand(r, d) \/ \E n \in Stand(r, d) : \E e \in Follow(n, r) : Other(e, n) = m
<1>1. PICK S : S = Stand(r, d)
  OBVIOUS
<1>2. query.start \in S
  BY <1>1, StartIsReached, ReachIs
<1>3. m \in Further(Lead(r), Toward(r), FALSE, S)
  BY <1>1, ReachIs
<1>4. \/ m \in S
      \/ Toward(r) >= 0 /\ \E e \in Lead(r) : e[1] \in S /\ m = e[2]
      \/ Toward(r) <= 0 /\ \E e \in Lead(r) : e[2] \in S /\ m = e[1]
  BY <1>3 DEF Further
<1>5. CASE Toward(r) >= 0 /\ \E e \in Lead(r) : e[1] \in S /\ m = e[2]
  <2>1. PICK e \in Lead(r) : e[1] \in S /\ m = e[2]
    BY <1>5
  <2>2. (e \in Follow(e[1], r) /\ Other(e, e[1]) = e[2]) \/ e[2] = query.start
    BY <1>5, FurtherIsFollowed
  <2> QED BY <1>1, <1>2, <2>1, <2>2
<1>6. CASE Toward(r) <= 0 /\ \E e \in Lead(r) : e[2] \in S /\ m = e[1]
  <2>1. PICK e \in Lead(r) : e[2] \in S /\ m = e[1]
    BY <1>6
  <2>2. (e \in Follow(e[2], r) /\ Other(e, e[2]) = e[1]) \/ e[1] = e[2] \/ e[1] = query.start
    BY <1>6, FurtherIsFollowed
  <2> QED BY <1>1, <1>2, <2>1, <2>2
<1> QED BY <1>1, <1>4, <1>5, <1>6

\* A set that no edge of the walk leaves has all that may be reached.
LEMMA NothingLeftOut ==
  ASSUME IsWalk, NEW r, RoundOf(r), NEW C, query.start \in C,
         \A n \in C : \A e \in Follow(n, r) : Other(e, n) \in C,
         query.op = "impact" => \A n \in C : \A e \in Members(n) : Other(e, n) \in C,
         NEW d \in Nat
  PROVE  Reach(r, d) \subseteq C
<1> DEFINE T == {m \in Nat : Reach(r, m) \subseteq C}
<1>1. 0 \in T
  BY ReachIs
<1>2. ASSUME NEW m \in Nat, m \in T PROVE m + 1 \in T
  <2>1. Reach(r, m) \subseteq C /\ Reach(r, m) \in SUBSET Nodes
    BY <1>2, ReachIs
  <2>2. Stand(r, m) \subseteq C
    <3>1. CASE query.op = "impact"
      <4>1. MembersIn(Lead(r), C)
        <5>1. ASSUME NEW n \in C, NEW x \in Contained(Lead(r), n) PROVE x \in C
          <6>1. PICK e \in Lead(r) : e[1] = n /\ n \in Containers /\ e[3] = "contains" /\ x = e[2]
            BY <5>1 DEF Contained
          <6>2. e \in Members(n) /\ Other(e, n) = x
            BY <6>1, LeadType DEF Members, Out, Other
          <6> QED BY <3>1, <5>1, <6>2
        <5> QED BY <5>1 DEF MembersIn
      <4>2. Stand(r, m) = WithMembers(Lead(r), Reach(r, m)) /\ Lead(r) \in SUBSET Relations
        BY <3>1, LeadType DEF Stand
      <4> QED BY <2>1, <4>1, <4>2, WithMembersLeast
    <3>2. CASE query.op # "impact"
      BY <2>1, <3>2 DEF Stand
    <3> QED BY <3>1, <3>2
  <2>3. ASSUME NEW x \in Reach(r, m + 1) PROVE x \in C
    BY <2>2, <2>3, ReachIsFollowed
  <2> QED BY <2>3
<1> HIDE DEF T
<1>3. d \in T
  BY <1>1, <1>2, NatInd
<1> QED BY <1>3 DEF T
-----------------------------------------------------------------------------
(* The queue of a breadth-first walk, whatever it collects.  W[d] is what is *)
(* within d steps, N[n] what is followed from n.                             *)
LEMMA EachOnce ==
  ASSUME NEW S, IsFiniteSet(S), NEW s \in SetToSeqs(S)
  PROVE  /\ s \in Seq(S)
         /\ \A x \in S : \E k \in 1 .. Len(s) : s[k] = x
<1> DEFINE n == Cardinality(S)
<1>1. n \in Nat
  BY FS_CardinalityType
<1>2. s \in [1 .. n -> S] /\ \A i, j \in 1 .. n : i # j => s[i] # s[j]
  BY DEF SetToSeqs
<1>3. s \in Injection(1 .. n, S)
  BY <1>2 DEF Injection, IsInjective
<1>4. Cardinality(1 .. n) = n /\ IsFiniteSet(1 .. n)
  BY <1>1, FS_Interval
<1>5. s \in Surjection(1 .. n, S)
  <2> HIDE DEF n
  <2> QED BY <1>3, <1>4, FS_Injection DEF n
<1>6. s \in Seq(S) /\ Len(s) = n
  BY <1>1, <1>2
<1> QED BY <1>5, <1>6 DEF Surjection

Steps(W, N, start) ==
  /\ W \in [Nat -> SUBSET Nodes] /\ DOMAIN N = Nodes
  /\ start \in W[0]
  /\ \A c, d \in Nat : c <= d => W[c] \subseteq W[d]
  /\ \A d \in Nat : \A n \in W[d] : \A e \in N[n] : Other(e, n) \in W[d + 1]
  /\ \A d \in Nat : \A m \in W[d + 1] : m \in W[d] \/ \E n \in W[d] : \E e \in N[n] : Other(e, n) = m
  /\ \A C : start \in C /\ (\A n \in C : \A e \in N[n] : Other(e, n) \in C) => \A d \in Nat : W[d] \subseteq C

Waits(u, n) == \E i \in 1 .. Len(u) : u[i].node = n
Met(u, vis, n) == n \in vis \/ Waits(u, n)
Expanded(u, vis, N, n) == \A e \in N[n] : Met(u, vis, Other(e, n))

ByLength(u) ==
  \A i, j \in 1 .. Len(u) : i < j => Len(u[i].path) <= Len(u[j].path) /\ Len(u[j].path) <= Len(u[1].path) + 1
Placed(u, W, depth) == \A i \in 1 .. Len(u) : Len(u[i].path) <= depth /\ u[i].node \in W[Len(u[i].path)]

\* All that is nearer than the head is visited, nothing that is farther; what is as far as
\* the head is visited or waits; and the neighbours of what is visited have been met.
AtLevel(u, vis, W, N, depth, h) ==
  /\ vis \subseteq W[h]
  /\ \A k \in Nat : k < h => W[k] \subseteq vis
  /\ \A n \in W[h] : n \in vis \/ \E i \in 1 .. Len(u) : u[i].node = n /\ Len(u[i].path) = h
  /\ h < depth => \A n \in vis : Expanded(u, vis, N, n)

Levelled(u, vis, W, N, depth) ==
  /\ ByLength(u) /\ Placed(u, W, depth)
  /\ u = <<>> => vis = W[depth]
  /\ u # <<>> => AtLevel(u, vis, W, N, depth, Len(u[1].path))

\* The queue without its head, and with b behind.
After(u, b) == Tail(u) \o b

Shifted(E, u, b, u2) ==
  /\ u2 \in Seq(E)
  /\ Len(u) \in Nat \ {0} /\ Len(b) \in Nat /\ Len(u2) = (Len(u) - 1) + Len(b)
  /\ \A i \in 1 .. (Len(u) - 1) : u2[i] = u[i + 1]
  /\ \A i \in 1 .. Len(b) : u2[(Len(u) - 1) + i] = b[i]
  /\ Head(u) = u[1] /\ u[1] \in E

LEMMA QueueAfter ==
  ASSUME NEW E, NEW u \in Seq(E), u # <<>>, NEW b \in Seq(E), NEW u2, u2 = After(u, b)
  PROVE  Shifted(E, u, b, u2)
<1> DEFINE t == Tail(u)
<1>1. Len(u) \in Nat \ {0} /\ Len(b) \in Nat
  OBVIOUS
<1>2. t \in Seq(E) /\ Len(t) = Len(u) - 1 /\ \A i \in 1 .. (Len(u) - 1) : t[i] = u[i + 1]
  BY <1>1
<1>3. Head(u) = u[1] /\ u[1] \in E
  BY <1>1
<1> HIDE DEF t
<1>4. u2 = t \o b
  BY DEF t, After
<1> QED BY <1>1, <1>2, <1>3, <1>4 DEF Shifted

\* What waited still waits or was the head, and what was put behind waits.
LEMMA WaitsAfter ==
  ASSUME NEW E, NEW u \in Seq(E), u # <<>>, NEW b \in Seq(E), NEW u2, u2 = After(u, b), NEW n
  PROVE  /\ Waits(u, n) => Waits(u2, n) \/ n = u[1].node
         /\ Waits(b, n) => Waits(u2, n)
         /\ Waits(u2, n) => Waits(u, n) \/ Waits(b, n)
<1>1. /\ u2 \in Seq(E)
      /\ Len(u) \in Nat \ {0} /\ Len(b) \in Nat /\ Len(u2) = (Len(u) - 1) + Len(b)
      /\ \A i \in 1 .. (Len(u) - 1) : u2[i] = u[i + 1]
      /\ \A i \in 1 .. Len(b) : u2[(Len(u) - 1) + i] = b[i]
      /\ Head(u) = u[1] /\ u[1] \in E
  <2>1. Shifted(E, u, b, u2)
    BY QueueAfter, Zenon
  <2> QED BY <2>1 DEF Shifted
<1>2. ASSUME NEW i \in 1 .. Len(u), u[i].node = n, n # u[1].node PROVE Waits(u2, n)
  <2>1. i - 1 \in 1 .. (Len(u) - 1) /\ (i - 1) + 1 = i /\ i - 1 \in 1 .. Len(u2)
    BY <1>1, <1>2
  <2>2. u2[i - 1].node = n
    BY <1>1, <1>2, <2>1
  <2> QED BY <2>1, <2>2 DEF Waits
<1>3. ASSUME NEW i \in 1 .. Len(b), b[i].node = n PROVE Waits(u2, n)
  <2>1. PICK p, q : p = Len(u) - 1 /\ q = Len(b) /\ p \in Nat /\ q \in Nat /\ Len(u2) = p + q
    <3>1. Len(u) \in Nat \ {0} /\ Len(b) \in Nat /\ Len(u2) = (Len(u) - 1) + Len(b)
      BY <1>1
    <3> QED BY <3>1
  <2>2. p + i \in 1 .. Len(u2)
    BY <2>1
  <2>3. u2[p + i] = b[i]
    BY <1>1, <2>1
  <2> QED BY <1>3, <2>2, <2>3 DEF Waits
<1>4. ASSUME NEW i \in 1 .. Len(u2), u2[i].node = n PROVE Waits(u, n) \/ Waits(b, n)
  <2>1. CASE i <= Len(u) - 1
    <3>1. i + 1 \in 1 .. Len(u) /\ u[i + 1].node = n
      BY <1>1, <1>4, <2>1
    <3> QED BY <3>1 DEF Waits
  <2>2. CASE ~(i <= Len(u) - 1)
    <3>1. PICK k \in 1 .. Len(b) : i = (Len(u) - 1) + k
      <4>1. i - (Len(u) - 1) \in 1 .. Len(b) /\ i = (Len(u) - 1) + (i - (Len(u) - 1))
        BY <1>1, <1>4, <2>2
      <4> QED BY <4>1
    <3>2. b[k].node = n
      BY <1>1, <1>4, <3>1
    <3> QED BY <3>2 DEF Waits
  <2> QED BY <2>1, <2>2
<1> QED BY <1>2, <1>3, <1>4 DEF Waits

\* What is put behind is one step farther, and has what the head's node has new.
HavePaths(E) == \A x \in E : Len(x.path) \in Nat
Behind(b, W, depth, h) ==
  /\ b # <<>> => h < depth
  /\ \A i \in 1 .. Len(b) : Len(b[i].path) = h + 1 /\ b[i].node \in W[h + 1]
HeadExpanded(u, vis, b, vis2, N) ==
  Expanded(u, vis, N, u[1].node) \/ \A e \in N[u[1].node] : Met(b, vis2, Other(e, u[1].node))

LEMMA TakeKeepsLevels ==
  ASSUME NEW W, NEW N, NEW start, Steps(W, N, start), NEW depth \in Nat,
         NEW E, HavePaths(E), NEW u \in Seq(E), u # <<>>, NEW vis, start \in vis \union {u[1].node},
         Levelled(u, vis, W, N, depth),
         NEW b \in Seq(E), NEW u2, u2 = After(u, b), NEW vis2, vis2 = vis \union {u[1].node},
         NEW h, h = Len(u[1].path),
         Behind(b, W, depth, h), h < depth => HeadExpanded(u, vis, b, vis2, N)
  PROVE  Levelled(u2, vis2, W, N, depth)
<1>1. /\ u2 \in Seq(E)
      /\ Len(u) \in Nat \ {0} /\ Len(b) \in Nat /\ Len(u2) = (Len(u) - 1) + Len(b)
      /\ \A i \in 1 .. (Len(u) - 1) : u2[i] = u[i + 1]
      /\ \A i \in 1 .. Len(b) : u2[(Len(u) - 1) + i] = b[i]
      /\ Head(u) = u[1] /\ u[1] \in E
  <2>1. Shifted(E, u, b, u2)
    BY QueueAfter, Zenon
  <2> QED BY <2>1 DEF Shifted
<1>0. Len(u) \in Nat \ {0} /\ Len(b) \in Nat /\ Len(u2) \in Nat /\ Len(u2) = (Len(u) - 1) + Len(b)
  BY <1>1
<1> PICK lu, lb, l2 : lu = Len(u) /\ lb = Len(b) /\ l2 = Len(u2)
  OBVIOUS
<1>2. h \in Nat /\ \A i \in 1 .. Len(u2) : Len(u2[i].path) \in Nat
  <2>1. \A x \in E : Len(x.path) \in Nat
    BY DEF HavePaths
  <2>2. \A i \in 1 .. Len(u2) : u2[i] \in E
    BY <1>1
  <2> QED BY <1>1, <2>1, <2>2
<1>3. \A i \in 1 .. Len(u) : Len(u[i].path) \in Nat /\ h <= Len(u[i].path) /\ Len(u[i].path) <= h + 1 /\ Len(u[i].path) <= depth
  <2> SUFFICES ASSUME NEW i \in 1 .. Len(u) PROVE Len(u[i].path) \in Nat /\ h <= Len(u[i].path) /\ Len(u[i].path) <= h + 1 /\ Len(u[i].path) <= depth
    OBVIOUS
  <2>1. u[i] \in E
    BY <1>1
  <2>2. Len(u[i].path) \in Nat
    BY <2>1 DEF HavePaths
  <2>3. Len(u[i].path) <= depth
    BY DEF Levelled, Placed
  <2>4. i = 1 \/ (1 < i /\ 1 \in 1 .. Len(u))
    BY <1>1
  <2>5. 1 < i => h <= Len(u[i].path) /\ Len(u[i].path) <= h + 1
    BY <1>1, <2>4 DEF Levelled, ByLength
  <2> QED BY <1>2, <2>2, <2>3, <2>4, <2>5
<1>4. h <= depth
  BY <1>1, <1>3
<1>5. \A i \in 1 .. Len(u2) : h <= Len(u2[i].path) /\ Len(u2[i].path) <= h + 1 /\ Len(u2[i].path) <= depth /\ u2[i].node \in W[Len(u2[i].path)]
  <2> SUFFICES ASSUME NEW i \in 1 .. Len(u2)
               PROVE  h <= Len(u2[i].path) /\ Len(u2[i].path) <= h + 1 /\ Len(u2[i].path) <= depth /\ u2[i].node \in W[Len(u2[i].path)]
    OBVIOUS
  <2>1. CASE i <= Len(u) - 1
    <3>1. i + 1 \in 1 .. Len(u) /\ u2[i] = u[i + 1]
      BY <1>1, <2>1
    <3>2. u[i + 1].node \in W[Len(u[i + 1].path)]
      BY <3>1 DEF Levelled, Placed
    <3> QED BY <1>3, <3>1, <3>2
  <2>2. CASE ~(i <= Len(u) - 1)
    <3>1. PICK k \in 1 .. Len(b) : i = (Len(u) - 1) + k
      <4>1. i - (Len(u) - 1) \in 1 .. Len(b) /\ i = (Len(u) - 1) + (i - (Len(u) - 1))
        BY <1>1, <2>2
      <4> QED BY <4>1
    <3>2. u2[i] = b[k] /\ b # <<>>
      BY <1>1, <3>1
    <3>3. Len(b[k].path) = h + 1 /\ b[k].node \in W[h + 1] /\ h < depth
      BY <3>1, <3>2 DEF Behind
    <3> QED BY <1>2, <3>2, <3>3
  <2> QED BY <2>1, <2>2
<1>6. ByLength(u2)
  <2> SUFFICES ASSUME NEW i \in 1 .. Len(u2), NEW j \in 1 .. Len(u2), i < j
               PROVE  Len(u2[i].path) <= Len(u2[j].path) /\ Len(u2[j].path) <= Len(u2[1].path) + 1
    BY DEF ByLength
  <2>1. Len(u2[j].path) <= Len(u2[1].path) + 1
    <3>1. 1 \in 1 .. Len(u2)
      BY <1>0
    <3>2. Len(u2[1].path) \in Nat /\ Len(u2[j].path) \in Nat /\ h <= Len(u2[1].path) /\ Len(u2[j].path) <= h + 1
      BY <1>2, <1>5, <3>1
    <3> QED BY <1>2, <3>2
  <2>2. CASE j <= Len(u) - 1
    <3>1. i + 1 \in 1 .. Len(u) /\ j + 1 \in 1 .. Len(u) /\ i + 1 < j + 1 /\ u2[i] = u[i + 1] /\ u2[j] = u[j + 1]
      BY <1>1, <2>2
    <3>2. Len(u[i + 1].path) <= Len(u[j + 1].path)
      BY <3>1 DEF Levelled, ByLength
    <3> QED BY <2>1, <3>1, <3>2
  <2>3. CASE ~(j <= Len(u) - 1)
    <3>1. PICK k \in 1 .. Len(b) : j = (Len(u) - 1) + k
      <4>1. j - (Len(u) - 1) \in 1 .. Len(b) /\ j = (Len(u) - 1) + (j - (Len(u) - 1))
        BY <1>1, <2>3
      <4> QED BY <4>1
    <3>2. u2[j] = b[k]
      BY <1>1, <3>1
    <3>3. Len(b[k].path) = h + 1
      BY <3>1 DEF Behind
    <3> QED BY <1>2, <1>5, <2>1, <3>2, <3>3
  <2> QED BY <2>2, <2>3
<1>7. Placed(u2, W, depth)
  BY <1>5 DEF Placed
<1>8. AtLevel(u, vis, W, N, depth, h)
  BY DEF Levelled
<1>9. vis2 \subseteq W[h]
  <2>1. u[1].node \in W[h]
    BY <1>1 DEF Levelled, Placed
  <2> QED BY <1>8, <2>1 DEF AtLevel
<1>10. h < depth => \A n \in vis2 : Expanded(u2, vis2, N, n)
  <2> SUFFICES ASSUME h < depth, NEW n \in vis2, NEW e \in N[n] PROVE Met(u2, vis2, Other(e, n))
    BY DEF Expanded
  <2>1. PICK m : m = Other(e, n)
    OBVIOUS
  <2>2. Met(u, vis, m) \/ Met(b, vis2, m)
    <3>1. CASE n \in vis
      BY <1>8, <2>1, <3>1 DEF AtLevel, Expanded
    <3>2. CASE n = u[1].node
      BY <2>1, <3>2 DEF Expanded, HeadExpanded
    <3> QED BY <3>1, <3>2
  <2>3. (Waits(u, m) => Waits(u2, m) \/ m = u[1].node) /\ (Waits(b, m) => Waits(u2, m))
    BY WaitsAfter
  <2> QED BY <2>1, <2>2, <2>3 DEF Met
<1>11. \A n \in W[h] : n \in vis2 \/ \E i \in 1 .. Len(u) : 1 < i /\ u[i].node = n /\ Len(u[i].path) = h
  <2> SUFFICES ASSUME NEW n \in W[h], n \notin vis2
               PROVE  \E i \in 1 .. Len(u) : 1 < i /\ u[i].node = n /\ Len(u[i].path) = h
    OBVIOUS
  <2>1. PICK i \in 1 .. Len(u) : u[i].node = n /\ Len(u[i].path) = h
    BY <1>8 DEF AtLevel
  <2>2. 1 < i
    BY <2>1
  <2> QED BY <2>1, <2>2
<1>12. \A c, d \in Nat : c <= d => W[c] \subseteq W[d]
  BY DEF Steps
<1>13. CASE u2 = <<>>
  <2>0. Len(u2) = 0
    BY <1>13
  <2>1. Len(u) = 1 /\ Len(b) = 0 /\ Len(u2) = 0
    <3>1. l2 = 0 /\ lu \in Nat /\ lu # 0 /\ lb \in Nat /\ l2 = (lu - 1) + lb
      BY <1>0, <2>0
    <3>2. lu = 1 /\ lb = 0
      BY <3>1
    <3> QED BY <2>0, <3>2
  <2>2. W[h] \subseteq vis2
    BY <1>11, <2>1
  <2>3. W[depth] \subseteq vis2
    <3>1. CASE h = depth
      BY <2>2, <3>1
    <3>2. CASE h < depth
      <4>1. \A n : ~Waits(u2, n)
        BY <2>1 DEF Waits
      <4>2. \A n \in vis2 : \A e \in N[n] : Other(e, n) \in vis2
        BY <1>10, <3>2, <4>1 DEF Expanded, Met
      <4>3. start \in vis2
        OBVIOUS
      <4> QED BY <4>2, <4>3 DEF Steps
    <3> QED BY <1>2, <1>4, <3>1, <3>2
  <2>4. vis2 \subseteq W[depth]
    BY <1>2, <1>4, <1>9, <1>12
  <2>5. vis2 = W[depth]
    BY <2>3, <2>4
  <2> QED BY <1>6, <1>7, <1>13, <2>5 DEF Levelled
<1>14. CASE u2 # <<>>
  <2>0. PICK g : g = Len(u2[1].path)
    OBVIOUS
  <2>1. 1 \in 1 .. Len(u2) /\ g \in Nat /\ (g = h \/ g = h + 1) /\ g <= depth
    <3>0. l2 \in Nat /\ l2 # 0
      BY <1>0, <1>1, <1>14
    <3>1. 1 \in 1 .. Len(u2)
      BY <3>0
    <3>2. Len(u2[1].path) \in Nat /\ h <= Len(u2[1].path) /\ Len(u2[1].path) <= h + 1 /\ Len(u2[1].path) <= depth
      BY <1>2, <1>5, <3>1
    <3>3. g \in Nat /\ h <= g /\ g <= h + 1 /\ g <= depth
      BY <2>0, <3>2
    <3> QED BY <1>2, <3>1, <3>3
  <2>2. AtLevel(u2, vis2, W, N, depth, g)
    <3>1. CASE g = h
      <4>1. \A n \in W[h] : n \in vis2 \/ \E i \in 1 .. Len(u2) : u2[i].node = n /\ Len(u2[i].path) = h
        <5> SUFFICES ASSUME NEW n \in W[h], n \notin vis2
                     PROVE  \E i \in 1 .. Len(u2) : u2[i].node = n /\ Len(u2[i].path) = h
          OBVIOUS
        <5>1. PICK i \in 1 .. Len(u) : 1 < i /\ u[i].node = n /\ Len(u[i].path) = h
          BY <1>11
        <5>2. i - 1 \in 1 .. (Len(u) - 1) /\ (i - 1) + 1 = i /\ i - 1 \in 1 .. Len(u2)
          BY <1>1, <5>1
        <5>3. u2[i - 1] = u[i]
          BY <1>1, <5>2
        <5> QED BY <5>1, <5>2, <5>3
      <4>2. \A k \in Nat : k < h => W[k] \subseteq vis2
        BY <1>8 DEF AtLevel
      <4> QED BY <1>9, <1>10, <3>1, <4>1, <4>2 DEF AtLevel
    <3>2. CASE g = h + 1
      <4>1. h < depth
        BY <1>2, <2>1, <3>2
      <4>2. \A i \in 1 .. Len(u2) : Len(u2[i].path) = h + 1
        <5> SUFFICES ASSUME NEW i \in 1 .. Len(u2) PROVE Len(u2[i].path) = h + 1
          OBVIOUS
        <5>1. i = 1 \/ Len(u2[1].path) <= Len(u2[i].path)
          <6>1. Len(u2) \in Nat /\ (i = 1 \/ 1 < i) /\ 1 \in 1 .. Len(u2)
            BY <1>0
          <6> QED BY <1>6, <6>1 DEF ByLength
        <5>2. PICK li : li = Len(u2[i].path)
          OBVIOUS
        <5>3. li \in Nat /\ li <= h + 1
          BY <1>2, <1>5, <5>2
        <5>4. i = 1 \/ g <= li
          BY <2>0, <5>1, <5>2
        <5>5. li = h + 1
          <6>1. g <= li
            <7>1. i = 1 => g = li
              BY <2>0, <5>2
            <7> QED BY <2>1, <5>4, <7>1
          <6>2. h \in Nat
            BY <1>2
          <6> QED BY <3>2, <5>3, <6>1, <6>2
        <5> QED BY <5>2, <5>5
      <4>3. W[h] \subseteq vis2
        <5> SUFFICES ASSUME NEW n \in W[h], n \notin vis2 PROVE FALSE
          OBVIOUS
        <5>1. PICK i \in 1 .. Len(u) : 1 < i /\ u[i].node = n /\ Len(u[i].path) = h
          BY <1>11
        <5>2. i - 1 \in 1 .. (Len(u) - 1) /\ (i - 1) + 1 = i /\ i - 1 \in 1 .. Len(u2)
          BY <1>1, <5>1
        <5>3. u2[i - 1] = u[i]
          BY <1>1, <5>2
        <5>4. Len(u2[i - 1].path) = h + 1
          BY <4>2, <5>2
        <5> QED BY <1>2, <5>1, <5>3, <5>4
      <4>4. \A k \in Nat : k < g => W[k] \subseteq vis2
        BY <1>2, <1>12, <3>2, <4>3
      <4>5. vis2 \subseteq W[g]
        <5>1. h <= g
          BY <1>2, <3>2
        <5>2. W[h] \subseteq W[g]
          BY <1>2, <1>12, <2>1, <5>1
        <5> QED BY <1>9, <5>2
      <4>6. \A n \in W[g] : n \in vis2 \/ \E i \in 1 .. Len(u2) : u2[i].node = n /\ Len(u2[i].path) = g
        <5> SUFFICES ASSUME NEW m \in W[g], m \notin vis2
                     PROVE  \E i \in 1 .. Len(u2) : u2[i].node = m /\ Len(u2[i].path) = g
          OBVIOUS
        <5>1. PICK n \in W[h] : \E e \in N[n] : Other(e, n) = m
          BY <1>2, <3>2, <4>3 DEF Steps
        <5>2. Met(u2, vis2, m)
          BY <1>10, <4>1, <4>3, <5>1 DEF Expanded
        <5>3. PICK i \in 1 .. Len(u2) : u2[i].node = m
          BY <5>2 DEF Met, Waits
        <5> QED BY <3>2, <4>2, <5>3
      <4>7. g < depth => \A n \in vis2 : Expanded(u2, vis2, N, n)
        BY <1>10, <4>1
      <4> QED BY <4>4, <4>5, <4>6, <4>7 DEF AtLevel
    <3> QED BY <2>1, <3>1, <3>2
  <2> QED BY <1>6, <1>7, <1>14, <2>0, <2>2 DEF Levelled
<1> QED BY <1>13, <1>14
-----------------------------------------------------------------------------
(* What the variables hold.                                                  *)
Entry == [node : Nodes, path : Seq(graph)]
Frame == [node : Nodes, depth : Nat, phase : {"members", "users"}, todo : SUBSET graph]
DepthFirst == Walks \ BreadthFirst

WType ==
  /\ graph \in SUBSET Relations /\ query \in Asks /\ at \in {"ready", "walking", "done"}
  /\ paths \in Seq(Entry)
  /\ stack \in Seq(Frame) /\ \A i \in 1 .. Len(stack) : stack[i].node \in visited
  /\ round \in 0 .. 2
  /\ visited \in SUBSET Nodes /\ nodes \in SUBSET Nodes /\ edges \in SUBSET graph

\* What the kind of the question and the stage imply.
WStage ==
  /\ at = "ready" => /\ paths = <<>> /\ stack = <<>> /\ round = 0
                     /\ visited = {} /\ nodes = {} /\ edges = {} /\ found = {}
  /\ at = "walking" => Known
  /\ query.op \in BreadthFirst => stack = <<>> /\ round = 0
  /\ query.op \notin BreadthFirst => paths = <<>>
  /\ query.op \in DepthFirst => round \in 0 .. Rounds /\ (stack # <<>> => round >= 1)

TInv == WType /\ WStage

\* The stack with another frame on its top, or without.
TopChanged(E, u, x, s) ==
  /\ s \in Seq(E) /\ Len(s) = Len(u)
  /\ \A i \in 1 .. Len(u) : s[i] = IF i = Len(u) THEN x ELSE u[i]

LEMMA TopIsLast ==
  ASSUME NEW E, NEW u \in Seq(E), u # <<>>
  PROVE  /\ Len(u) \in Nat \ {0} /\ Last(u) = u[Len(u)] /\ Last(u) \in E
         /\ Front(u) \in Seq(E) /\ Len(Front(u)) = Len(u) - 1
         /\ \A i \in 1 .. (Len(u) - 1) : Front(u)[i] = u[i]
<1>1. Len(u) \in Nat \ {0}
  OBVIOUS
<1>2. Last(u) = u[Len(u)] /\ u[Len(u)] \in E
  BY <1>1 DEF Last
<1>3. Front(u) = SubSeq(u, 1, Len(u) - 1)
  BY DEF Front
<1>4. PICK n, t : n = Len(u) - 1 /\ t = SubSeq(u, 1, n)
  OBVIOUS
<1>5. n \in Nat /\ \A i \in 1 .. n : u[i] \in E
  BY <1>1, <1>4
<1>6. /\ t \in Seq(E)
      /\ Len(t) = IF 1 <= n THEN n - 1 + 1 ELSE 0
      /\ \A i \in 1 .. n - 1 + 1 : t[i] = u[1 + i - 1]
  BY <1>4, <1>5, SubSeqProperties
<1>7. Len(t) = n /\ \A i \in 1 .. n : t[i] = u[i]
  BY <1>5, <1>6
<1> QED BY <1>1, <1>2, <1>3, <1>4, <1>6, <1>7

LEMMA ChangeTop ==
  ASSUME NEW E, NEW u \in Seq(E), u # <<>>, NEW x \in E, NEW s, s = Append(Front(u), x)
  PROVE  TopChanged(E, u, x, s)
<1>1. /\ Len(u) \in Nat \ {0} /\ Front(u) \in Seq(E) /\ Len(Front(u)) = Len(u) - 1
      /\ \A i \in 1 .. (Len(u) - 1) : Front(u)[i] = u[i]
  BY TopIsLast
<1>2. PICK t \in Seq(E), n \in Nat \ {0} : t = Front(u) /\ n = Len(u) /\ Len(t) = n - 1 /\ s = Append(t, x)
  BY <1>1
<1>3. s \in Seq(E) /\ Len(s) = n /\ s[n] = x /\ \A i \in 1 .. (n - 1) : s[i] = t[i]
  BY <1>2
<1>4. \A i \in 1 .. n : i = n \/ i \in 1 .. (n - 1)
  BY <1>2
<1> QED BY <1>1, <1>2, <1>3, <1>4 DEF TopChanged

Pushed(E, u, x, s) ==
  /\ s \in Seq(E) /\ Len(s) = Len(u) + 1 /\ Len(u) \in Nat
  /\ \A i \in 1 .. Len(s) : s[i] = IF i = Len(s) THEN x ELSE u[i]
  /\ \A i \in 1 .. Len(s) : i = Len(s) \/ i \in 1 .. Len(u)

LEMMA Push ==
  ASSUME NEW E, NEW u \in Seq(E), NEW x \in E, NEW s, s = Append(u, x)
  PROVE  Pushed(E, u, x, s)
<1>1. Len(u) \in Nat /\ s \in Seq(E) /\ Len(s) = Len(u) + 1 /\ s[Len(s)] = x /\ \A i \in 1 .. Len(u) : s[i] = u[i]
  OBVIOUS
<1>2. \A i \in 1 .. Len(s) : i = Len(s) \/ i \in 1 .. Len(u)
  BY <1>1
<1> QED BY <1>1, <1>2 DEF Pushed

LEMMA WalkOf ==
  ASSUME TInv, at # "ready", Known, query.op \in Walks
  PROVE  IsWalk /\ (query.op \in BreadthFirst => round = 0 /\ RoundOf(0))
         /\ (query.op \in DepthFirst /\ round >= 1 => RoundOf(round))
<1>1. IsWalk
  BY DEF TInv, WType, Known, IsWalk, Walks
<1>2. query.op \in BreadthFirst => round = 0 /\ RoundOf(0)
  BY DEF TInv, WStage, BreadthFirst, RoundOf
<1>3. query.op \in DepthFirst /\ round >= 1 => RoundOf(round)
  BY DEF TInv, WType, WStage, DepthFirst, RoundOf, Rounds
<1> QED BY <1>1, <1>2, <1>3

LEMMA EndsAreNodes ==
  ASSUME graph \in SUBSET Relations, NEW e \in graph, NEW n
  PROVE  e[1] \in Nodes /\ e[2] \in Nodes /\ Other(e, n) \in Nodes
BY WalksAssumption DEF WalksAssumption, Other

LEMMA FollowType ==
  ASSUME IsWalk, NEW r, RoundOf(r), NEW n PROVE Follow(n, r) \in SUBSET graph /\ Members(n) \in SUBSET graph
<1>1. Members(n) \in SUBSET graph
  BY DEF Members, Out
<1>2. \A e \in Follow(n, r) : e \in graph
  BY FollowIs, LeadType
<1> QED BY <1>1, <1>2

LEMMA ImportsFollowed ==
  ASSUME query.op = "cycles", NEW f, NEW r
  PROVE  Follow(f, r) = Out(f, {"imports"}) /\ Follow(f, r) \in SUBSET graph
<1>1. Follow(f, r) = Out(f, {"imports"})
  BY DEF Follow
<1> QED BY <1>1 DEF Out

LEMMA FrameType ==
  ASSUME IsWalk, NEW r, RoundOf(r), NEW n \in Nodes, NEW d \in Nat
  PROVE  FrameOf(n, d, r) \in Frame /\ FrameOf(n, d, r).node = n
BY FollowType DEF FrameOf, Frame

-----------------------------------------------------------------------------
LEMMA FreshIsFinite ==
  ASSUME graph \in SUBSET Relations, NEW H \in SUBSET graph PROVE IsFiniteSet(H)
<1>1. IsFiniteSet(Relations) /\ H \in SUBSET Relations
  BY WalksAssumption DEF WalksAssumption
<1> QED BY <1>1, FS_Subset

\* What a visited node's entry leads to.
Led(u, s) == [i \in 1 .. Len(s) |-> [node |-> Other(s[i], u[1].node), path |-> Append(u[1].path, s[i])]]
Fresh(u, vis) ==
  IF Len(u[1].path) >= query.depth THEN {}
  ELSE {e \in Follow(u[1].node, 0) : Other(e, u[1].node) \notin vis \union {u[1].node}}

LEMMA VisitIs ==
  ASSUME TInv, query.op \in BreadthFirst, TakeFromQueue
  PROVE  /\ at = "walking" /\ paths # <<>> /\ IsWalk /\ RoundOf(0)
         /\ paths[1] = Head(paths) /\ paths[1] \in Entry
         /\ ~Full /\ ~(query.op = "path" /\ paths[1].node = query.to)
         /\ \/ /\ paths[1].node \in visited /\ paths' = After(paths, <<>>)
               /\ visited' = visited /\ nodes' = nodes /\ edges' = edges
            \/ /\ paths[1].node \notin visited /\ visited' = visited \union {paths[1].node}
               /\ edges' = IF query.op = "bfs" /\ paths[1].path # <<>>
                           THEN edges \union {Last(paths[1].path)} ELSE edges
               /\ nodes' = IF query.op = "bfs"
                           THEN nodes \union {Other(e, paths[1].node) : e \in Fresh(paths, visited)} ELSE nodes
               /\ \E s \in Seq(Fresh(paths, visited)) :
                     /\ \A x \in Fresh(paths, visited) : \E k \in 1 .. Len(s) : s[k] = x
                     /\ paths' = After(paths, Led(paths, s))
<1>1. at = "walking" /\ paths # <<>> /\ Known /\ paths \in Seq(Entry)
  BY DEF TakeFromQueue, TInv, WStage, WType
<1>2. paths[1] = Head(paths) /\ paths[1] \in Entry
  BY <1>1
<1>3. IsWalk /\ round = 0 /\ RoundOf(0)
  BY <1>1, WalkOf DEF Walks, BreadthFirst
<1>4. ~Full /\ ~(query.op = "path" /\ paths[1].node = query.to)
  BY <1>2 DEF TakeFromQueue
<1>5. CASE Skip
  <2>1. Tail(paths) = After(paths, <<>>)
    BY <1>1 DEF After
  <2> QED BY <1>1, <1>2, <1>3, <1>4, <1>5, <2>1 DEF Skip
<1>6. CASE Visit(Head(paths))
  <2> DEFINE H == Fresh(paths, visited)
  <2>1. PICK step : step = paths[1] /\ step = Head(paths)
    BY <1>2
  <2>2. H = IF Len(step.path) >= query.depth THEN {}
            ELSE {e \in Follow(step.node, round) : Other(e, step.node) \notin visited \union {step.node}}
    BY <1>3, <2>1 DEF Fresh
  <2> HIDE DEF H
  <2>3. Visit(step)
    BY <1>6, <2>1
  <2>4. /\ step.node \notin visited /\ visited' = visited \union {step.node}
        /\ edges' = IF query.op = "bfs" /\ step.path # <<>> THEN edges \union {Last(step.path)} ELSE edges
        /\ nodes' = IF query.op = "bfs" THEN nodes \union {Other(e, step.node) : e \in H} ELSE nodes
    BY <2>2, <2>3, Zenon DEF Visit
  <2>5. PICK s \in SetToSeqs(H) :
            paths' = Tail(paths) \o [i \in DOMAIN s |-> [node |-> Other(s[i], step.node), path |-> Append(step.path, s[i])]]
    BY <2>2, <2>3, Zenon DEF Visit
  <2>6. IsFiniteSet(H)
    <3>1. H \in SUBSET graph
      BY <1>3, <2>2, FollowType
    <3> QED BY <1>3, <3>1, FreshIsFinite DEF IsWalk
  <2>7. s \in Seq(H) /\ \A x \in H : \E k \in 1 .. Len(s) : s[k] = x
    BY <2>6, EachOnce
  <2>8. DOMAIN s = 1 .. Len(s)
    BY <2>7
  <2>9. paths' = After(paths, Led(paths, s))
    BY <2>1, <2>5, <2>8, Zenon DEF After, Led
  <2> QED BY <1>1, <1>2, <1>3, <1>4, <2>1, <2>4, <2>7, <2>9 DEF H
<1> QED BY <1>5, <1>6 DEF TakeFromQueue

LEMMA LedType ==
  ASSUME IsWalk, RoundOf(0), NEW u \in Seq(Entry), u # <<>>, NEW vis, NEW s \in Seq(Fresh(u, vis))
  PROVE  /\ Led(u, s) \in Seq(Entry) /\ Len(Led(u, s)) = Len(s) /\ Len(s) \in Nat
         /\ \A i \in 1 .. Len(s) : /\ Led(u, s)[i] = [node |-> Other(s[i], u[1].node), path |-> Append(u[1].path, s[i])]
                                   /\ s[i] \in Fresh(u, vis) /\ s[i] \in Follow(u[1].node, 0) /\ s[i] \in graph
<1>1. u[1] \in Entry
  OBVIOUS
<1>2. \A e \in Fresh(u, vis) : e \in Follow(u[1].node, 0) /\ e \in graph
  BY FollowType DEF Fresh
<1>3. Len(s) \in Nat /\ \A i \in 1 .. Len(s) : s[i] \in Fresh(u, vis)
  OBVIOUS
<1>4. ASSUME NEW i \in 1 .. Len(s) PROVE [node |-> Other(s[i], u[1].node), path |-> Append(u[1].path, s[i])] \in Entry
  <2>1. s[i] \in graph
    BY <1>2, <1>3
  <2>2. Other(s[i], u[1].node) \in Nodes
    BY <2>1, EndsAreNodes DEF IsWalk
  <2>3. Append(u[1].path, s[i]) \in Seq(graph)
    BY <1>1, <2>1 DEF Entry
  <2> QED BY <2>2, <2>3 DEF Entry
<1>5. Led(u, s) \in [1 .. Len(s) -> Entry]
  BY <1>4 DEF Led
<1>6. Led(u, s) \in Seq(Entry) /\ Len(Led(u, s)) = Len(s)
  BY <1>3, <1>5
<1> QED BY <1>2, <1>3, <1>6 DEF Led
-----------------------------------------------------------------------------
(* The types hold.                                                           *)
LEMMA RecurseIs ==
  ASSUME IsWalk, NEW r, RoundOf(r), NEW s \in Seq(Frame), NEW known \in SUBSET Nodes, NEW answer,
         NEW n \in Nodes, NEW d \in Nat,
         \A i \in 1 .. Len(s) : s[i].node \in known,
         Recurse(s, known, answer, n, d, r)
  PROVE  /\ stack' \in Seq(Frame) /\ visited' \in SUBSET Nodes /\ known \subseteq visited'
         /\ \A i \in 1 .. Len(stack') : stack'[i].node \in visited'
<1>1. CASE stack' = s /\ visited' = known
  BY <1>1
<1>2. CASE stack' = Append(s, FrameOf(n, d, r)) /\ visited' = known \union {n}
  <2>1. FrameOf(n, d, r) \in Frame /\ FrameOf(n, d, r).node = n
    BY FrameType
  <2>2. PICK f \in Frame : f = FrameOf(n, d, r) /\ f.node = n
    BY <2>1
  <2>3. Pushed(Frame, s, f, stack')
    BY <1>2, <2>2, Push
  <2>4. stack' \in Seq(Frame) /\ \A i \in 1 .. Len(stack') : stack'[i].node \in visited'
    BY <1>2, <2>2, <2>3 DEF Pushed
  <2> QED BY <1>2, <2>4
<1> QED BY <1>1, <1>2 DEF Recurse

\* An edge taken from the top of the stack.
Without(f, e) == [f EXCEPT !.todo = @ \ {e}]
UsersNext(f, H) == [f EXCEPT !.phase = "users", !.todo = H]

LEMMA WithoutIs ==
  ASSUME NEW f \in Frame, NEW e
  PROVE  /\ Without(f, e) \in Frame
         /\ Without(f, e).node = f.node /\ Without(f, e).depth = f.depth /\ Without(f, e).phase = f.phase
         /\ Without(f, e).todo = f.todo \ {e}
BY DEF Frame, Without

LEMMA UsersNextIs ==
  ASSUME NEW f \in Frame, NEW H \in SUBSET graph
  PROVE  /\ UsersNext(f, H) \in Frame
         /\ UsersNext(f, H).node = f.node /\ UsersNext(f, H).depth = f.depth
         /\ UsersNext(f, H).phase = "users" /\ UsersNext(f, H).todo = H
BY DEF Frame, UsersNext

LEMMA EdgeOfTop ==
  ASSUME TInv, stack # <<>>, NEW e \in Top.todo
  PROVE  /\ Top \in Frame /\ Top = stack[Len(stack)] /\ Len(stack) \in Nat \ {0}
         /\ Without(Top, e) \in Frame
         /\ TopChanged(Frame, stack, Without(Top, e), Append(Below, Without(Top, e)))
         /\ \A i \in 1 .. Len(stack) : Append(Below, Without(Top, e))[i].node \in visited
         /\ e \in graph /\ e[1] \in Nodes /\ e[2] \in Nodes /\ Other(e, Top.node) \in Nodes
<1>1. stack \in Seq(Frame) /\ \A i \in 1 .. Len(stack) : stack[i].node \in visited
  BY DEF TInv, WType
<1>2. Top \in Frame /\ Top = stack[Len(stack)] /\ Len(stack) \in Nat \ {0}
  BY <1>1, TopIsLast DEF Top
<1>3. Without(Top, e) \in Frame /\ Without(Top, e).node = Top.node
  BY <1>2, WithoutIs
<1>4. TopChanged(Frame, stack, Without(Top, e), Append(Below, Without(Top, e)))
  <2>1. PICK x \in Frame : x = Without(Top, e)
    BY <1>3
  <2> DEFINE s == Append(Front(stack), x)
  <2>2. TopChanged(Frame, stack, x, s)
    BY <1>1, ChangeTop
  <2> QED BY <2>1, <2>2 DEF Below
<1>5. \A i \in 1 .. Len(stack) : Append(Below, Without(Top, e))[i].node \in visited
  BY <1>1, <1>2, <1>3, <1>4 DEF TopChanged
<1>6. e \in graph
  BY <1>2 DEF Frame
<1>7. graph \in SUBSET Relations
  BY DEF TInv, WType
<1> QED BY <1>2, <1>3, <1>4, <1>5, <1>6, <1>7, EndsAreNodes

LEMMA SetFrame ==
  ASSUME graph' = graph PROVE Frame' = Frame /\ Entry' = Entry
BY DEF Frame, Entry

LEMMA AskT == ASSUME TInv, Ask \/ AskUnknown PROVE TInv'
<1>1. CASE Ask
  <2>0. query.op # "cycles" => query.start \in Nodes
    BY <1>1 DEF Ask, Known
  <2>1. nodes' \in SUBSET Nodes
    <3>1. nodes' = IF StartIsIncluded THEN {query.start} ELSE {}
      BY <1>1 DEF Ask
    <3>2. StartIsIncluded => query.op # "cycles"
      BY DEF StartIsIncluded
    <3> QED BY <2>0, <3>1, <3>2
  <2>2. paths' \in Seq(Entry) /\ (query.op \notin BreadthFirst => paths' = <<>>)
    <3>1. paths' = IF query.op \in BreadthFirst THEN <<[node |-> query.start, path |-> <<>>]>> ELSE <<>>
      BY <1>1 DEF Ask
    <3>2. query.op \in BreadthFirst => [node |-> query.start, path |-> <<>>] \in Entry
      BY <2>0 DEF Entry, BreadthFirst
    <3> QED BY <3>1, <3>2
  <2>3. /\ graph' = graph /\ query' = query /\ at = "ready" /\ at' = "walking" /\ Known
        /\ stack' = stack /\ round' = round /\ visited' = visited /\ edges' = edges
    BY <1>1 DEF Ask
  <2>4. Entry' = Entry /\ Frame' = Frame
    BY <2>3, SetFrame
  <2>5. WType'
    BY <2>1, <2>2, <2>3, <2>4 DEF TInv, WType
  <2>6. Known' /\ Rounds' = Rounds
    BY <2>3 DEF Known, Rounds
  <2>7. Rounds \in {1, 2}
    BY DEF Rounds
  <2>8. WStage'
    BY <2>2, <2>3, <2>6, <2>7 DEF TInv, WType, WStage
  <2> QED BY <2>5, <2>8 DEF TInv
<1>2. CASE AskUnknown
  <2>1. /\ at' = "done" /\ UNCHANGED <<graph, query, paths, stack, round, visited, nodes, edges, found>>
    BY <1>2 DEF AskUnknown
  <2>2. Entry' = Entry /\ Frame' = Frame /\ Rounds' = Rounds
    BY <2>1, SetFrame DEF Rounds
  <2> QED BY <2>1, <2>2 DEF TInv, WType, WStage
<1> QED BY <1>1, <1>2

LEMMA EndsT ==
  ASSUME TInv, PathFound \/ BreadthFirstEnds \/ DepthFirstEnds \/ NoFileLeft PROVE TInv'
<1>1. /\ at' = "done" /\ UNCHANGED <<graph, query, paths, stack, round, visited, nodes, edges>>
  BY DEF PathFound, BreadthFirstEnds, DepthFirstEnds, NoFileLeft
<1>2. Entry' = Entry /\ Frame' = Frame /\ Rounds' = Rounds
  BY <1>1, SetFrame DEF Rounds
<1> QED BY <1>1, <1>2 DEF TInv, WType, WStage

LEMMA TakeFromQueueT == ASSUME TInv, TakeFromQueue PROVE TInv'
<1>0. /\ UNCHANGED <<graph, query, at, stack, round, found>> /\ at = "walking" /\ paths # <<>>
  BY DEF TakeFromQueue
<1>1. query.op \in BreadthFirst
  BY <1>0 DEF TInv, WStage
<1>2. paths \in Seq(Entry) /\ IsWalk /\ RoundOf(0) /\ paths[1] \in Entry
  BY <1>1, VisitIs DEF TInv, WType
<1>3. PICK b \in Seq(Entry) : paths' = After(paths, b)
  <2>1. CASE paths' = After(paths, <<>>)
    <3>1. <<>> \in Seq(Entry)
      OBVIOUS
    <3> QED BY <2>1, <3>1
  <2>2. CASE \E s \in Seq(Fresh(paths, visited)) : paths' = After(paths, Led(paths, s))
    <3>1. PICK s \in Seq(Fresh(paths, visited)) : paths' = After(paths, Led(paths, s))
      BY <2>2
    <3>2. Led(paths, s) \in Seq(Entry)
      BY <1>0, <1>2, LedType
    <3> QED BY <3>1, <3>2
  <2> QED BY <1>1, <2>1, <2>2, VisitIs
<1>4. paths' \in Seq(Entry)
  <2>1. Shifted(Entry, paths, b, paths')
    BY <1>0, <1>2, <1>3, QueueAfter
  <2> QED BY <2>1 DEF Shifted
<1>5. visited' \in SUBSET Nodes /\ nodes' \in SUBSET Nodes /\ edges' \in SUBSET graph
  <2>1. \A e \in Fresh(paths, visited) : Other(e, paths[1].node) \in Nodes
    <3>1. \A e \in Fresh(paths, visited) : e \in graph
      BY <1>2, FollowType DEF Fresh
    <3> QED BY <3>1, <1>2, EndsAreNodes DEF IsWalk
  <2>2. paths[1].node \in Nodes /\ (paths[1].path # <<>> => Last(paths[1].path) \in graph)
    <3>1. PICK p \in Seq(graph) : p = paths[1].path
      BY <1>2 DEF Entry
    <3>2. p # <<>> => Last(p) \in graph
      BY <3>1, TopIsLast
    <3> QED BY <1>2, <3>1, <3>2 DEF Entry
  <2>3. visited \in SUBSET Nodes /\ nodes \in SUBSET Nodes /\ edges \in SUBSET graph
    BY DEF TInv, WType
  <2>4. visited' = visited \/ visited' = visited \union {paths[1].node}
    BY <1>1, VisitIs
  <2>5. nodes' = nodes \/ nodes' = nodes \union {Other(e, paths[1].node) : e \in Fresh(paths, visited)}
    BY <1>1, VisitIs
  <2>6. edges' = edges \/ (paths[1].path # <<>> /\ edges' = edges \union {Last(paths[1].path)})
    BY <1>1, VisitIs
  <2>7. visited' \in SUBSET Nodes
    BY <2>2, <2>3, <2>4
  <2>8. nodes' \in SUBSET Nodes
    BY <2>1, <2>3, <2>5
  <2>9. edges' \in SUBSET graph
    BY <2>2, <2>3, <2>6
  <2> QED BY <2>7, <2>8, <2>9
<1>6. Entry' = Entry /\ Frame' = Frame
  BY <1>0, SetFrame
<1>7. Known' = Known
  BY <1>0 DEF Known
<1>8. stack = <<>>
  BY <1>1 DEF TInv, WStage
<1>9. WType'
  <2>1. Len(stack') = 0
    BY <1>0, <1>8
  <2> QED BY <1>0, <1>4, <1>5, <1>6, <2>1 DEF TInv, WType
<1>10. WStage'
  BY <1>0, <1>1, <1>7 DEF TInv, WStage, DepthFirst
<1> QED BY <1>9, <1>10 DEF TInv

\* A step of a depth-first walk keeps the types if it keeps those of what it changes.
LEMMA DepthFirstT ==
  ASSUME TInv, at = "walking", UNCHANGED <<graph, query, at, paths>>, query.op \notin BreadthFirst,
         stack' \in Seq(Frame), \A i \in 1 .. Len(stack') : stack'[i].node \in visited',
         round' = round \/ (round < Rounds /\ round' = round + 1),
         query.op \in DepthFirst => round' >= 1,
         visited' \in SUBSET Nodes, nodes' \in SUBSET Nodes, edges' \in SUBSET graph
  PROVE  TInv'
<1>1. Entry' = Entry /\ Frame' = Frame /\ Rounds' = Rounds /\ Known' = Known
  BY SetFrame DEF Rounds, Known
<1>2. round' \in 0 .. 2 /\ (query.op \in DepthFirst => round' \in 0 .. Rounds)
  BY DEF Rounds, TInv, WType, WStage
<1>3. WType'
  BY <1>1, <1>2 DEF TInv, WType
<1>4. WStage'
  BY <1>1, <1>2 DEF TInv, WStage
<1> QED BY <1>3, <1>4 DEF TInv

LEMMA InDepth ==
  ASSUME TInv, at = "walking", query.op \notin BreadthFirst \union {"cycles"}
  PROVE  query.op \in DepthFirst /\ query.op \in Walks /\ IsWalk /\ Known
<1>1. query.op \in Walks /\ Known
  BY QueryType DEF TInv, WType, WStage
<1> QED BY <1>1, WalkOf DEF DepthFirst

LEMMA BeginRoundT == ASSUME TInv, BeginRound PROVE TInv'
<1>1. /\ at = "walking" /\ query.op \notin BreadthFirst \union {"cycles"} /\ stack = <<>>
      /\ round < Rounds /\ round' = round + 1
      /\ Recurse(<<>>, IF query.op = "callgraph" THEN {} ELSE visited, nodes, query.start, 0, round + 1)
      /\ UNCHANGED <<graph, query, at, paths, nodes, edges, found>>
  BY DEF BeginRound
<1>2. query.op \in DepthFirst /\ IsWalk
  BY <1>1, InDepth
<1>3. RoundOf(round + 1) /\ round \in Nat
  BY <1>1, <1>2 DEF TInv, WType, WStage, DepthFirst, RoundOf, Rounds
<1>4. PICK known \in SUBSET Nodes : known = IF query.op = "callgraph" THEN {} ELSE visited
  BY DEF TInv, WType
<1>5. <<>> \in Seq(Frame) /\ Len(<<>>) = 0 /\ query.start \in Nodes /\ 0 \in Nat
  BY <1>2 DEF IsWalk
<1>6. Recurse(<<>>, known, nodes, query.start, 0, round + 1)
  BY <1>1, <1>4
<1>7. PICK s \in Seq(Frame) : s = <<>> /\ \A i \in 1 .. Len(s) : s[i].node \in known
  <2>1. \A i \in 1 .. Len(<<>>) : FALSE
    BY <1>5
  <2> QED BY <1>5, <2>1
<1>8. stack' \in Seq(Frame) /\ visited' \in SUBSET Nodes /\ \A i \in 1 .. Len(stack') : stack'[i].node \in visited'
  BY <1>2, <1>3, <1>5, <1>6, <1>7, RecurseIs
<1>9. nodes' \in SUBSET Nodes /\ edges' \in SUBSET graph
  BY <1>1 DEF TInv, WType
<1>10. round' >= 1
  BY <1>1, <1>3
<1> QED BY <1>1, <1>8, <1>9, <1>10, DepthFirstT

LEMMA TakeEdgeT == ASSUME TInv, TakeEdge PROVE TInv'
<1>1. /\ at = "walking" /\ query.op # "cycles" /\ stack # <<>>
      /\ UNCHANGED <<graph, query, at, paths, round, found>>
  BY DEF TakeEdge
<1>2. query.op \notin BreadthFirst
  BY <1>1 DEF TInv, WStage
<1>3. query.op \in DepthFirst /\ IsWalk /\ Known /\ query.op \in Walks
  BY <1>1, <1>2, InDepth
<1>4. round >= 1 /\ RoundOf(round)
  BY <1>1, <1>3, WalkOf DEF TInv, WStage
<1>5. PICK e \in Top.todo :
          LET n == Other(e, Top.node)
              s == Append(Below, [Top EXCEPT !.todo = @ \ {e}])
          IN IF Seen(n)
             THEN stack' = s /\ UNCHANGED <<visited, nodes, edges>>
             ELSE /\ nodes' = nodes \union {n}
                  /\ edges' = edges \union {e}
                  /\ Recurse(s, visited, nodes', n,
                             IF Top.phase = "members" THEN Top.depth ELSE Top.depth + 1, round)
  BY DEF TakeEdge
<1>6. PICK s, n : n = Other(e, Top.node) /\ s = Append(Below, Without(Top, e))
  OBVIOUS
<1>7. /\ Top \in Frame /\ n \in Nodes /\ e \in graph
      /\ s \in Seq(Frame) /\ \A i \in 1 .. Len(s) : s[i].node \in visited
  BY <1>1, <1>6, EdgeOfTop DEF TopChanged
<1>8. PICK d \in Nat : d = IF Top.phase = "members" THEN Top.depth ELSE Top.depth + 1
  BY <1>7 DEF Frame
<1>9. \/ stack' = s /\ UNCHANGED <<visited, nodes, edges>>
      \/ /\ nodes' = nodes \union {n} /\ edges' = edges \union {e}
         /\ Recurse(s, visited, nodes', n, d, round)
  BY <1>5, <1>6, <1>8, Zenon DEF Without
<1>10. visited \in SUBSET Nodes /\ nodes \in SUBSET Nodes /\ edges \in SUBSET graph
  BY DEF TInv, WType
<1>11. nodes' \in SUBSET Nodes /\ edges' \in SUBSET graph
  BY <1>7, <1>9, <1>10
<1>12. stack' \in Seq(Frame) /\ visited' \in SUBSET Nodes /\ \A i \in 1 .. Len(stack') : stack'[i].node \in visited'
  <2>1. CASE stack' = s /\ UNCHANGED <<visited, nodes, edges>>
    BY <1>7, <1>10, <2>1
  <2>2. CASE Recurse(s, visited, nodes', n, d, round)
    BY <1>3, <1>4, <1>7, <1>10, <2>2, RecurseIs
  <2> QED BY <1>9, <2>1, <2>2
<1>13. round' = round /\ round' >= 1
  BY <1>1, <1>4
<1> QED BY <1>1, <1>2, <1>11, <1>12, <1>13, DepthFirstT

LEMMA InnerT == ASSUME TInv, WalkUsers \/ ReturnToCaller PROVE TInv'
<1>1. /\ at = "walking" /\ stack # <<>>
      /\ UNCHANGED <<graph, query, at, paths, round, visited, nodes, edges, found>>
  BY DEF WalkUsers, ReturnToCaller
<1>2. query.op \notin BreadthFirst
  BY <1>1 DEF TInv, WStage
<1>3. stack \in Seq(Frame) /\ \A i \in 1 .. Len(stack) : stack[i].node \in visited
  BY DEF TInv, WType
<1>4. /\ Top \in Frame /\ Top = stack[Len(stack)] /\ Len(stack) \in Nat \ {0}
      /\ Below \in Seq(Frame) /\ Len(Below) = Len(stack) - 1
      /\ \A i \in 1 .. (Len(stack) - 1) : Below[i] = stack[i]
  BY <1>1, <1>3, TopIsLast DEF Top, Below
<1>5. stack' \in Seq(Frame) /\ \A i \in 1 .. Len(stack') : stack'[i].node \in visited'
  <2>1. CASE WalkUsers
    <3>1. Follow(Top.node, round) \in SUBSET graph
      <4>1. CASE query.op = "cycles"
        BY <4>1, ImportsFollowed
      <4>2. CASE query.op # "cycles"
        <5>1. query.op \in DepthFirst /\ IsWalk /\ Known /\ query.op \in Walks
          BY <1>1, <1>2, <4>2, InDepth
        <5>2. round >= 1 /\ RoundOf(round)
          BY <1>1, <5>1, WalkOf DEF TInv, WStage
        <5> QED BY <5>1, <5>2, FollowType
      <4> QED BY <4>1, <4>2
    <3>2. PICK t, H : t = Top /\ H = Follow(Top.node, round)
      OBVIOUS
    <3>3. PICK x \in Frame : x = UsersNext(t, H) /\ x.node = t.node
      BY <1>4, <3>1, <3>2, UsersNextIs
    <3>4. stack' = Append(Below, x)
      BY <2>1, <3>2, <3>3, Zenon DEF WalkUsers, UsersNext
    <3>5. TopChanged(Frame, stack, x, stack')
      BY <1>1, <1>3, <3>4, ChangeTop DEF Below
    <3> QED BY <1>1, <1>3, <1>4, <3>2, <3>3, <3>5 DEF TopChanged
  <2>2. CASE ReturnToCaller
    <3>1. stack' = Below
      BY <2>2 DEF ReturnToCaller
    <3> QED BY <1>1, <1>3, <1>4, <3>1
  <2> QED BY <2>1, <2>2
<1>6. visited' \in SUBSET Nodes /\ nodes' \in SUBSET Nodes /\ edges' \in SUBSET graph /\ round' = round
  BY <1>1 DEF TInv, WType
<1>7. query.op \in DepthFirst => round' >= 1
  BY <1>1 DEF TInv, WStage
<1> QED BY <1>1, <1>2, <1>5, <1>6, <1>7, DepthFirstT

LEMMA FileFrame ==
  ASSUME query.op = "cycles", stack \in Seq(Frame), NEW f \in Nodes
  PROVE  FrameOfFile(f) \in Frame /\ FrameOfFile(f).node = f /\ FrameOfFile(f).todo = Out(f, {"imports"})
BY ImportsFollowed DEF FrameOfFile, Frame

LEMMA CycleT == ASSUME TInv, NextFile \/ TakeDependency PROVE TInv'
<1>1. /\ at = "walking" /\ query.op = "cycles"
      /\ UNCHANGED <<graph, query, at, paths, round, nodes, edges>>
  BY DEF NextFile, TakeDependency
<1>2. query.op \notin BreadthFirst /\ query.op \notin DepthFirst
  BY <1>1 DEF BreadthFirst, DepthFirst, Walks
<1>3. stack \in Seq(Frame) /\ visited \in SUBSET Nodes /\ \A i \in 1 .. Len(stack) : stack[i].node \in visited
  BY DEF TInv, WType
<1>4. stack' \in Seq(Frame) /\ visited' \in SUBSET Nodes /\ \A i \in 1 .. Len(stack') : stack'[i].node \in visited'
  <2>1. CASE NextFile
    <3>1. PICK f \in Nodes : stack' = <<FrameOfFile(f)>> /\ visited' = visited \union {f}
      BY <2>1 DEF NextFile
    <3>2. PICK x \in Frame : x = FrameOfFile(f) /\ x.node = f
      BY <1>1, <1>3, FileFrame
    <3> QED BY <1>3, <3>1, <3>2
  <2>2. CASE TakeDependency
    <3>0. PICK e \in Top.todo : \E s :
            /\ s = Append(Below, [Top EXCEPT !.todo = @ \ {e}])
            /\ \/ stack' = s /\ visited' = visited
               \/ stack' = Append(s, FrameOfFile(e[2])) /\ visited' = visited \union {e[2]}
      BY <2>2 DEF TakeDependency
    <3>1. PICK s :
            /\ s = Append(Below, [Top EXCEPT !.todo = @ \ {e}])
            /\ \/ stack' = s /\ visited' = visited
               \/ stack' = Append(s, FrameOfFile(e[2])) /\ visited' = visited \union {e[2]}
      BY <3>0
    <3>2. stack # <<>>
      BY <2>2 DEF TakeDependency
    <3>3. s = Append(Below, Without(Top, e)) /\ e[2] \in Nodes
      BY <3>1, <3>2, EdgeOfTop, Zenon DEF Without
    <3>4. s \in Seq(Frame) /\ \A i \in 1 .. Len(s) : s[i].node \in visited
      BY <3>2, <3>3, EdgeOfTop DEF TopChanged
    <3>5. CASE stack' = s /\ visited' = visited
      BY <1>3, <3>4, <3>5
    <3>6. CASE stack' = Append(s, FrameOfFile(e[2])) /\ visited' = visited \union {e[2]}
      <4>1. PICK x \in Frame : x = FrameOfFile(e[2]) /\ x.node = e[2]
        BY <1>1, <1>3, <3>3, FileFrame
      <4>2. Pushed(Frame, s, x, stack')
        BY <3>4, <3>6, <4>1, Push
      <4> QED BY <1>3, <3>3, <3>4, <3>6, <4>1, <4>2 DEF Pushed
    <3> QED BY <3>1, <3>5, <3>6
  <2> QED BY <1>1, <2>1, <2>2 DEF NextFile, TakeDependency
<1>5. nodes' \in SUBSET Nodes /\ edges' \in SUBSET graph /\ round' = round
  BY <1>1 DEF TInv, WType
<1> QED BY <1>1, <1>2, <1>4, <1>5, DepthFirstT

LEMMA StutterT == ASSUME TInv, UNCHANGED walkVars PROVE TInv'
<1>1. UNCHANGED <<graph, query, at, paths, stack, round, visited, nodes, edges, found>>
  BY DEF walkVars
<1>2. Entry' = Entry /\ Frame' = Frame /\ Rounds' = Rounds /\ Known' = Known
  BY <1>1, SetFrame DEF Rounds, Known
<1> QED BY <1>1, <1>2 DEF TInv, WType, WStage

LEMMA InitT == WalkInit => TInv
<1> SUFFICES ASSUME WalkInit PROVE TInv
  OBVIOUS
<1>1. WType
  BY DEF WalkInit, WType
<1>2. Rounds \in {1, 2}
  BY DEF Rounds
<1>3. WStage
  BY <1>2 DEF WalkInit, WStage
<1> QED BY <1>1, <1>3 DEF TInv

LEMMA WalkTypesHold == WalkSpec => []TInv
<1>1. TInv /\ [WalkNext]_walkVars => TInv'
  BY AskT, EndsT, TakeFromQueueT, BeginRoundT, TakeEdgeT, InnerT, CycleT, StutterT DEF WalkNext
<1> QED BY <1>1, InitT, PTL DEF WalkSpec
-----------------------------------------------------------------------------
(* Breadth-first walks.                                                      *)
NearF == [d \in Nat |-> Reach(0, d)]
NextF == [n \in Nodes |-> Follow(n, 0)]

LEMMA StepsHold ==
  ASSUME IsWalk, query.op \in BreadthFirst, RoundOf(0)
  PROVE  Steps(NearF, NextF, query.start) /\ NearF[0] = {query.start}
<1>1. query.op # "impact"
  BY DEF BreadthFirst
<1>2. \A d \in Nat : NearF[d] = Reach(0, d) /\ Reach(0, d) = Stand(0, d) /\ Reach(0, d) \in SUBSET Nodes
  BY <1>1, ReachIs DEF NearF, Stand
<1>3. \A n \in Nodes : NextF[n] = Follow(n, 0)
  BY DEF NextF
<1>4. NearF \in [Nat -> SUBSET Nodes] /\ DOMAIN NextF = Nodes
  BY <1>2 DEF NearF, NextF
<1>5. NearF[0] = {query.start}
  BY <1>2, ReachIs
<1>6. ASSUME NEW c \in Nat, NEW d \in Nat, c <= d PROVE NearF[c] \subseteq NearF[d]
  BY <1>2, <1>6, ReachGrows
<1>7. ASSUME NEW d \in Nat, NEW n \in NearF[d], NEW e \in NextF[n] PROVE Other(e, n) \in NearF[d + 1]
  <2>1. n \in Stand(0, d) /\ n \in Nodes /\ e \in Follow(n, 0)
    BY <1>2, <1>3, <1>7
  <2>2. Other(e, n) \in Reach(0, d + 1)
    BY <2>1, FollowReaches
  <2>3. d + 1 \in Nat
    OBVIOUS
  <2> QED BY <1>2, <2>2, <2>3
<1>8. ASSUME NEW d \in Nat, NEW m \in NearF[d + 1]
      PROVE  m \in NearF[d] \/ \E n \in NearF[d] : \E e \in NextF[n] : Other(e, n) = m
  <2>1. d + 1 \in Nat
    OBVIOUS
  <2>2. m \in Reach(0, d + 1)
    BY <1>2, <1>8, <2>1
  <2>3. m \in Stand(0, d) \/ \E n \in Stand(0, d) : \E e \in Follow(n, 0) : Other(e, n) = m
    BY <2>2, ReachIsFollowed
  <2>4. \A n \in Stand(0, d) : NextF[n] = Follow(n, 0) /\ n \in NearF[d]
    BY <1>2, <1>3
  <2> QED BY <2>3, <2>4
<1>9. ASSUME NEW C, query.start \in C, \A n \in C : \A e \in NextF[n] : Other(e, n) \in C, NEW d \in Nat
      PROVE  NearF[d] \subseteq C
  <2> DEFINE B == C \intersect Nodes
  <2>1. query.start \in B
    BY <1>9 DEF IsWalk
  <2>2. ASSUME NEW n \in B, NEW e \in Follow(n, 0) PROVE Other(e, n) \in B
    <3>1. e \in graph
      BY <2>2, FollowType
    <3>2. Other(e, n) \in Nodes
      BY <3>1, EndsAreNodes DEF IsWalk
    <3> QED BY <1>3, <1>9, <2>2, <3>2
  <2> HIDE DEF B
  <2>3. Reach(0, d) \subseteq B
    BY <1>1, <2>1, <2>2, NothingLeftOut
  <2> QED BY <1>2, <2>3 DEF B
<1>10. query.start \in NearF[0]
  BY <1>5
<1> QED BY <1>4, <1>5, <1>6, <1>7, <1>8, <1>9, <1>10 DEF Steps

LEMMA SameLead ==
  ASSUME graph' = graph, query' = query
  PROVE  \A r : Lead(r)' = Lead(r) /\ Toward(r)' = Toward(r)
<1>1. \A kinds : OfKinds(kinds)' = OfKinds(kinds)
  BY DEF OfKinds
<1>2. Links' = Links
  BY <1>1 DEF Links
<1>3. Allowed' = Allowed
  BY DEF Allowed
<1>4. \A r : Toward(r)' = Toward(r)
  BY Zenon DEF Toward, Way
<1> QED BY <1>2, <1>3, <1>4 DEF Lead

LEMMA SameReach ==
  ASSUME graph' = graph, query' = query
  PROVE  \A r, d : Reach(r, d)' = Reach(r, d) /\ Stand(r, d)' = Stand(r, d)
BY SameLead, Zenon DEF Reach, Stand

LEMMA SameFollow ==
  ASSUME graph' = graph, query' = query
  PROVE  \A n, r : Follow(n, r)' = Follow(n, r) /\ Members(n)' = Members(n)
<1>1. \A n, kinds : Out(n, kinds)' = Out(n, kinds) /\ In(n, kinds)' = In(n, kinds)
  BY DEF Out, In
<1>2. \A n : Adjacent(n)' = Adjacent(n)
  BY <1>1 DEF Adjacent
<1>3. \A n : Members(n)' = Members(n)
  BY <1>1 DEF Members
<1>4. \A n, r : Follow(n, r)' = Follow(n, r)
  BY <1>1, <1>2, Zenon DEF Follow
<1> QED BY <1>3, <1>4

LEMMA SameSteps ==
  ASSUME graph' = graph, query' = query PROVE NearF' = NearF /\ NextF' = NextF
<1>1. NearF' = NearF
  BY SameReach DEF NearF
<1>2. NextF' = NextF
  BY SameFollow DEF NextF
<1> QED BY <1>1, <1>2

\* The start is visited or at the head.
StartFirst(u, vis, start) == start \in vis \/ (u # <<>> /\ u[1].node = start)

\* The answer of traverseBFS is a tree: an entry was found from a visited node, one step nearer,
\* an edge of the answer joins visited nodes, and within the tree nothing is farther.
Born(x, vis, W, N) ==
  x.path # <<>> => \E p \in vis : /\ p \in Nodes /\ p \in W[Len(x.path) - 1]
                                  /\ Last(x.path) \in N[p] /\ Other(Last(x.path), p) = x.node
Tree(u, vis, edg, W, N, way, start) ==
  /\ \/ vis = {} /\ edg = {} /\ Len(u) = 1 /\ u[1].path = <<>> /\ u[1].node = start
     \/ start \in vis /\ Cardinality(edg) = Cardinality(vis) - 1 /\ \A i \in 1 .. Len(u) : u[i].path # <<>>
  /\ \A i \in 1 .. Len(u) : Born(u[i], vis, W, N)
  /\ \A e \in edg : e[1] \in vis /\ e[2] \in vis
  /\ \A n \in vis : \A d \in Nat : n \in W[d] => n \in Within({start}, edg, way, FALSE, d)
  /\ edg \subseteq Lead(0)
Collected(u, vis, nod, start) ==
  /\ \A n \in nod : Met(u, vis, n) \/ n = start
  /\ \A n : Met(u, vis, n) => n \in nod \/ n = start

\* A path of findPath leads along edges from the start to its node.
Real(p, n, start) ==
  /\ \A i \in 1 .. Len(p) : p[i] \in graph /\ p[i][1] = IF i = 1 THEN start ELSE p[i - 1][2]
  /\ n = IF p = <<>> THEN start ELSE Last(p)[2]
PathInv ==
  /\ \A i \in 1 .. Len(paths) : Real(paths[i].path, paths[i].node, query.start)
  /\ query.to \notin visited
  /\ at = "walking" => found = {}
  /\ at = "done" => \/ found = {} /\ paths = <<>>
                    \/ \E p \in Seq(graph) : /\ found = {p} /\ Real(p, query.to, query.start)
                                             /\ \A k \in Nat : k < Len(p) => query.to \notin NearF[k]

BfsInv ==
  /\ Tree(paths, visited, edges, NearF, NextF, Way, query.start)
  /\ Collected(paths, visited, nodes, query.start)
  /\ at = "done" => paths = <<>> \/ Full

BInv ==
  at # "ready" /\ Known /\ query.op \in BreadthFirst =>
    /\ Levelled(paths, visited, NearF, NextF, query.depth)
    /\ StartFirst(paths, visited, query.start)
    /\ query.op = "bfs" => BfsInv
    /\ query.op = "path" => PathInv

-----------------------------------------------------------------------------
\* What a visit puts in the queue.
LEMMA VisitPuts ==
  ASSUME TInv, BInv, query.op \in BreadthFirst, TakeFromQueue
  PROVE  \E b \in Seq(Entry) :
            /\ paths' = After(paths, b) /\ visited' = visited \union {paths[1].node}
            /\ Behind(b, NearF, query.depth, Len(paths[1].path))
            /\ Len(paths[1].path) < query.depth => HeadExpanded(paths, visited, b, visited', NextF)
            /\ \A i \in 1 .. Len(b) :
                  \E e \in Fresh(paths, visited) :
                      b[i] = [node |-> Other(e, paths[1].node), path |-> Append(paths[1].path, e)]
            /\ \/ /\ paths[1].node \in visited /\ b = <<>> /\ nodes' = nodes /\ edges' = edges
               \/ /\ paths[1].node \notin visited
                  /\ edges' = IF query.op = "bfs" /\ paths[1].path # <<>>
                              THEN edges \union {Last(paths[1].path)} ELSE edges
                  /\ nodes' = IF query.op = "bfs"
                              THEN nodes \union {Other(e, paths[1].node) : e \in Fresh(paths, visited)} ELSE nodes
                  /\ \A e \in Fresh(paths, visited) : Waits(b, Other(e, paths[1].node))
<1>1. /\ at = "walking" /\ paths # <<>> /\ IsWalk /\ RoundOf(0) /\ paths[1] \in Entry
      /\ paths \in Seq(Entry) /\ Known
  BY VisitIs DEF TInv, WType, WStage
<1>2. Levelled(paths, visited, NearF, NextF, query.depth) /\ Steps(NearF, NextF, query.start)
  BY <1>1, StepsHold DEF BInv
<1>3. PICK x \in Entry, h \in Nat : x = paths[1] /\ h = Len(x.path)
  BY <1>1 DEF Entry
<1>4. query.depth \in Nat /\ x.node \in Nodes /\ x.node \in NearF[h] /\ NextF[x.node] = Follow(x.node, 0)
  <2>1. 1 \in 1 .. Len(paths)
    BY <1>1
  <2>2. paths[1].node \in NearF[Len(paths[1].path)]
    BY <1>2, <2>1 DEF Levelled, Placed
  <2>3. x.node \in Nodes
    BY <1>3 DEF Entry
  <2>4. query.depth \in Nat
    BY <1>1, QueryType DEF IsWalk
  <2> QED BY <1>3, <2>2, <2>3, <2>4 DEF NextF
<1>5. CASE paths[1].node \in visited /\ paths' = After(paths, <<>>) /\ visited' = visited /\ nodes' = nodes /\ edges' = edges
  <2>1. <<>> \in Seq(Entry) /\ Len(<<>>) = 0
    OBVIOUS
  <2>2. Behind(<<>>, NearF, query.depth, Len(paths[1].path))
    BY <2>1 DEF Behind
  <2>3. visited' = visited \union {paths[1].node}
    BY <1>5
  <2>4. Len(paths[1].path) < query.depth => HeadExpanded(paths, visited, <<>>, visited', NextF)
    BY <1>1, <1>2, <1>5 DEF HeadExpanded, Levelled, AtLevel
  <2>5. \A i \in 1 .. Len(<<>>) : FALSE
    BY <2>1
  <2> QED BY <1>5, <2>1, <2>2, <2>3, <2>4, <2>5
<1>6. CASE /\ paths[1].node \notin visited /\ visited' = visited \union {paths[1].node}
           /\ edges' = IF query.op = "bfs" /\ paths[1].path # <<>>
                       THEN edges \union {Last(paths[1].path)} ELSE edges
           /\ nodes' = IF query.op = "bfs"
                       THEN nodes \union {Other(e, paths[1].node) : e \in Fresh(paths, visited)} ELSE nodes
           /\ \E s \in Seq(Fresh(paths, visited)) :
                 /\ \A y \in Fresh(paths, visited) : \E k \in 1 .. Len(s) : s[k] = y
                 /\ paths' = After(paths, Led(paths, s))
  <2>1. PICK s \in Seq(Fresh(paths, visited)) :
                 /\ \A y \in Fresh(paths, visited) : \E k \in 1 .. Len(s) : s[k] = y
                 /\ paths' = After(paths, Led(paths, s))
    BY <1>6
  <2>2. PICK b \in Seq(Entry) : b = Led(paths, s)
    BY <1>1, LedType
  <2>3. /\ Len(b) = Len(s) /\ Len(s) \in Nat
        /\ \A i \in 1 .. Len(s) : /\ b[i] = [node |-> Other(s[i], x.node), path |-> Append(x.path, s[i])]
                                  /\ s[i] \in Fresh(paths, visited) /\ s[i] \in Follow(x.node, 0) /\ s[i] \in graph
    BY <1>1, <1>3, <2>2, LedType
  <2>4. \A i \in 1 .. Len(b) : \E e \in Fresh(paths, visited) :
                      b[i] = [node |-> Other(e, paths[1].node), path |-> Append(paths[1].path, e)]
    BY <1>3, <2>3
  <2>5. \A e \in Fresh(paths, visited) : Waits(b, Other(e, paths[1].node))
    <3> SUFFICES ASSUME NEW e \in Fresh(paths, visited) PROVE Waits(b, Other(e, paths[1].node))
      OBVIOUS
    <3>1. PICK k \in 1 .. Len(s) : s[k] = e
      BY <2>1
    <3>2. k \in 1 .. Len(b) /\ b[k] = [node |-> Other(e, x.node), path |-> Append(x.path, e)]
      BY <2>3, <3>1
    <3>3. b[k].node = Other(e, x.node)
      BY <3>2
    <3>4. b[k].node = Other(e, paths[1].node)
      BY <1>3, <3>3
    <3> QED BY <3>2, <3>4 DEF Waits
  <2>6. Behind(b, NearF, query.depth, h)
    <3>1. b # <<>> => h < query.depth
      <4> SUFFICES ASSUME b # <<>>, ~(h < query.depth) PROVE FALSE
        OBVIOUS
      <4>1. Fresh(paths, visited) = {}
        BY <1>3, <1>4 DEF Fresh
      <4>2. Len(b) # 0
        OBVIOUS
      <4>3. 1 \in 1 .. Len(s)
        BY <2>3, <4>2
      <4> QED BY <2>3, <4>1, <4>3
    <3>2. ASSUME NEW i \in 1 .. Len(b) PROVE Len(b[i].path) = h + 1 /\ b[i].node \in NearF[h + 1]
      <4>1. b[i] = [node |-> Other(s[i], x.node), path |-> Append(x.path, s[i])] /\ s[i] \in Follow(x.node, 0) /\ s[i] \in graph
        BY <2>3
      <4>2. x.path \in Seq(graph)
        BY DEF Entry
      <4>3. Len(Append(x.path, s[i])) = h + 1
        BY <1>3, <4>1, <4>2
      <4>4. Other(s[i], x.node) \in NearF[h + 1]
        BY <1>2, <1>3, <1>4, <4>1 DEF Steps
      <4> QED BY <4>1, <4>3, <4>4
    <3> QED BY <3>1, <3>2 DEF Behind
  <2>7. h < query.depth => HeadExpanded(paths, visited, b, visited', NextF)
    <3> SUFFICES ASSUME h < query.depth, NEW e \in NextF[x.node] PROVE Met(b, visited', Other(e, x.node))
      BY <1>3 DEF HeadExpanded
    <3>1. e \in Follow(x.node, 0) /\ ~(h >= query.depth)
      BY <1>3, <1>4
    <3>2. e \in Fresh(paths, visited) \/ Other(e, x.node) \in visited \union {x.node}
      BY <1>3, <3>1 DEF Fresh
    <3> QED BY <1>3, <1>6, <2>5, <3>2 DEF Met
  <2> QED BY <1>3, <1>6, <2>1, <2>2, <2>4, <2>5, <2>6, <2>7
<1> QED BY <1>5, <1>6, VisitIs
-----------------------------------------------------------------------------
LEMMA PathGrows ==
  ASSUME NEW start, NEW p \in Seq(graph), NEW n, Real(p, n, start), NEW e \in graph, e[1] = n
  PROVE  Real(Append(p, e), e[2], start)
<1>0. Append(p, e) \in Seq(graph)
  OBVIOUS
<1>1. PICK q \in Seq(graph) : q = Append(p, e)
  BY <1>0
<1>2. Len(p) \in Nat /\ Len(q) = Len(p) + 1 /\ q[Len(p) + 1] = e /\ \A i \in 1 .. Len(p) : q[i] = p[i]
  BY <1>1
<1>3. Last(q) = e /\ q # <<>>
  <2>1. q # <<>>
    BY <1>2
  <2>2. Last(q) = q[Len(q)]
    BY <2>1, TopIsLast
  <2> QED BY <1>2, <2>1, <2>2
<1>4. ASSUME NEW i \in 1 .. Len(q) PROVE q[i] \in graph /\ q[i][1] = IF i = 1 THEN start ELSE q[i - 1][2]
  <2>1. CASE i = Len(p) + 1
    <3>1. q[i] = e
      BY <1>2, <2>1
    <3>2. CASE p = <<>>
      <4>1. Len(p) = 0
        BY <3>2
      <4>2. i = 1 /\ n = start
        BY <2>1, <3>2, <4>1 DEF Real
      <4> QED BY <3>1, <4>2
    <3>3. CASE p # <<>>
      <4>1. Last(p) = p[Len(p)] /\ Len(p) \in Nat \ {0}
        BY <3>3, TopIsLast
      <4>2. i # 1 /\ i - 1 = Len(p) /\ q[i - 1] = p[Len(p)]
        BY <1>2, <2>1, <4>1
      <4>3. n = Last(p)[2]
        BY <3>3 DEF Real
      <4> QED BY <3>1, <4>1, <4>2, <4>3
    <3> QED BY <3>2, <3>3
  <2>2. CASE i # Len(p) + 1
    <3>1. i \in 1 .. Len(p) /\ (i # 1 => i - 1 \in 1 .. Len(p))
      BY <1>2, <2>2
    <3>2. q[i] = p[i] /\ (i # 1 => q[i - 1] = p[i - 1])
      BY <1>2, <3>1
    <3>3. p[i] \in graph /\ p[i][1] = IF i = 1 THEN start ELSE p[i - 1][2]
      BY <3>1 DEF Real
    <3> QED BY <3>2, <3>3
  <2> QED BY <2>1, <2>2
<1>5. Real(q, e[2], start)
  BY <1>3, <1>4 DEF Real
<1> QED BY <1>1, <1>5

\* What leads into an entry's node, if it is not the start's.
LEMMA BornIs ==
  ASSUME IsWalk, RoundOf(0), query.op \in BreadthFirst, NEW x \in Entry, x.path # <<>>, NEW vis,
         Born(x, vis, NearF, NextF)
  PROVE  \E p \in vis : \E e \in graph : \E k \in Nat :
            /\ e = Last(x.path) /\ Len(x.path) = k + 1 /\ p \in NearF[k] /\ p \in Nodes
            /\ e \in Follow(p, 0) /\ Other(e, p) = x.node /\ e \in Lead(0)
            /\ \/ e[1] = p /\ e[2] = x.node
               \/ e[2] = p /\ e[1] = x.node
<1>1. PICK p \in vis : /\ p \in Nodes /\ p \in NearF[Len(x.path) - 1]
                       /\ Last(x.path) \in NextF[p] /\ Other(Last(x.path), p) = x.node
  BY DEF Born
<1>2. PICK q \in Seq(graph) : q = x.path
  BY DEF Entry
<1>3. Len(q) \in Nat \ {0} /\ Last(q) \in graph
  BY <1>2, TopIsLast
<1>4. PICK k \in Nat : Len(x.path) = k + 1 /\ k = Len(x.path) - 1
  <2>1. Len(q) - 1 \in Nat /\ Len(q) = (Len(q) - 1) + 1
    BY <1>3
  <2> QED BY <1>2, <2>1
<1>5. PICK e \in graph : e = Last(x.path)
  BY <1>2, <1>3
<1>6. e \in Follow(p, 0) /\ Other(e, p) = x.node
  BY <1>1, <1>5 DEF NextF
<1>7. p \in NearF[k] /\ p \in Reach(0, k)
  BY <1>1, <1>4 DEF NearF
<1>8. p \in Stand(0, k)
  BY <1>7, ReachIs
<1>9. e \in Lead(0)
  BY <1>6, <1>8, FollowReaches
<1>10. e[1] = p \/ e[2] = p
  BY <1>6, FollowIs
<1>11. \/ e[1] = p /\ e[2] = x.node
       \/ e[2] = p /\ e[1] = x.node
  BY <1>6, <1>10 DEF Other
<1> QED BY <1>1, <1>4, <1>5, <1>6, <1>7, <1>9, <1>11
-----------------------------------------------------------------------------
\* A step of a breadth-first walk: x leaves the queue u for b, and is visited.
Taken(u, vis, nod, edg, b) ==
  /\ paths = u /\ u \in Seq(Entry) /\ u # <<>> /\ b \in Seq(Entry) /\ paths' = After(u, b)
  /\ vis = visited /\ nod = nodes /\ edg = edges
  /\ visited' = vis \union {u[1].node}
  /\ Behind(b, NearF, query.depth, Len(u[1].path))
  /\ Len(u[1].path) < query.depth => HeadExpanded(u, vis, b, visited', NextF)
  /\ \A i \in 1 .. Len(b) :
        \E e \in Fresh(u, vis) :
            b[i] = [node |-> Other(e, u[1].node), path |-> Append(u[1].path, e)]
  /\ \/ /\ u[1].node \in vis /\ b = <<>> /\ nodes' = nod /\ edges' = edg
     \/ /\ u[1].node \notin vis
        /\ edges' = IF query.op = "bfs" /\ u[1].path # <<>> THEN edg \union {Last(u[1].path)} ELSE edg
        /\ nodes' = IF query.op = "bfs" THEN nod \union {Other(e, u[1].node) : e \in Fresh(u, vis)} ELSE nod
        /\ \A e \in Fresh(u, vis) : Waits(b, Other(e, u[1].node))

\* What is put behind: one step on from the head, and what the queue keeps.
LEMMA PutBehind ==
  ASSUME IsWalk, RoundOf(0), NEW u, NEW vis, NEW nod, NEW edg, NEW b, Taken(u, vis, nod, edg, b),
         NEW i \in 1 .. Len(paths')
  PROVE  /\ paths'[i] \in Entry
         /\ \/ \E k \in 1 .. Len(u) : k # 1 /\ paths'[i] = u[k]
            \/ \E e \in Fresh(u, vis) : /\ e \in graph /\ e \in Follow(u[1].node, 0)
                                        /\ paths'[i].node = Other(e, u[1].node)
                                        /\ paths'[i].path = Append(u[1].path, e)
<1>1. Shifted(Entry, u, b, paths')
  BY QueueAfter DEF Taken
<1>2. /\ paths' \in Seq(Entry)
      /\ Len(u) \in Nat \ {0} /\ Len(b) \in Nat /\ Len(paths') = (Len(u) - 1) + Len(b)
      /\ \A k \in 1 .. (Len(u) - 1) : paths'[k] = u[k + 1]
      /\ \A k \in 1 .. Len(b) : paths'[(Len(u) - 1) + k] = b[k]
  BY <1>1 DEF Shifted
<1>3. paths'[i] \in Entry
  BY <1>2
<1>4. CASE i <= Len(u) - 1
  <2>1. i + 1 \in 1 .. Len(u) /\ i + 1 # 1 /\ i \in 1 .. (Len(u) - 1)
    BY <1>2, <1>4
  <2> QED BY <1>2, <1>3, <2>1
<1>5. CASE ~(i <= Len(u) - 1)
  <2>1. PICK k \in 1 .. Len(b) : i = (Len(u) - 1) + k
    <3>1. i - (Len(u) - 1) \in 1 .. Len(b) /\ i = (Len(u) - 1) + (i - (Len(u) - 1))
      BY <1>2, <1>5
    <3> QED BY <3>1
  <2>2. PICK e \in Fresh(u, vis) : b[k] = [node |-> Other(e, u[1].node), path |-> Append(u[1].path, e)]
    BY DEF Taken
  <2>0. paths'[i] = b[k]
    BY <1>2, <2>1
  <2>3. paths'[i].node = Other(e, u[1].node) /\ paths'[i].path = Append(u[1].path, e)
    BY <2>0, <2>2
  <2>4. e \in Follow(u[1].node, 0)
    BY DEF Fresh
  <2>5. e \in graph
    BY <2>4, FollowType
  <2> QED BY <1>3, <2>3, <2>4, <2>5
<1> QED BY <1>4, <1>5

LEMMA WithinTree ==
  ASSUME NEW E \in SUBSET Relations, NEW S \in SUBSET Nodes, NEW way \in Ways
  PROVE  /\ Within(S, E, way, FALSE, 0) = S
         /\ \A d \in Nat :
               /\ Within(S, E, way, FALSE, d) \in SUBSET Nodes
               /\ Within(S, E, way, FALSE, d + 1) = Further(E, way, FALSE, Within(S, E, way, FALSE, d))
BY Zenon, WithinUnfolds

LEMMA TreeGrows ==
  ASSUME IsWalk, RoundOf(0), query.op = "bfs", NEW u, NEW vis, NEW nod, NEW edg, NEW b,
         vis \in SUBSET Nodes, edg \in SUBSET graph,
         Levelled(u, vis, NearF, NextF, query.depth), Taken(u, vis, nod, edg, b),
         Tree(u, vis, edg, NearF, NextF, Way, query.start)
  PROVE  Tree(paths', visited', edges', NearF, NextF, Way, query.start)
<1>1. PICK start, u2, vis2, edg2 : start = query.start /\ u2 = paths' /\ vis2 = visited' /\ edg2 = edges'
  OBVIOUS
<1>2. PICK x \in Entry : x = u[1]
  BY DEF Taken
<1>3. PICK h \in Nat : h = Len(x.path)
  BY DEF Entry
<1>4. /\ u \in Seq(Entry) /\ Len(u) \in Nat \ {0} /\ 1 \in 1 .. Len(u)
      /\ x.node \in Nodes /\ vis2 = vis \union {x.node}
  BY <1>1, <1>2 DEF Taken, Entry
<1>5. /\ \A i \in 1 .. Len(u) : Born(u[i], vis, NearF, NextF)
      /\ \A e \in edg : e[1] \in vis /\ e[2] \in vis
      /\ \A n \in vis : \A d \in Nat : n \in NearF[d] => n \in Within({start}, edg, Way, FALSE, d)
      /\ edg \subseteq Lead(0)
  BY <1>1, Zenon DEF Tree
<1>6. \/ vis = {} /\ edg = {} /\ Len(u) = 1 /\ x.path = <<>> /\ x.node = start
      \/ start \in vis /\ Cardinality(edg) = Cardinality(vis) - 1 /\ \A i \in 1 .. Len(u) : u[i].path # <<>>
  BY <1>1, <1>2, Zenon DEF Tree
<1>7. Born(x, vis, NearF, NextF)
  BY <1>2, <1>4, <1>5
<1>8. x.node \in NearF[h]
  BY <1>2, <1>3, <1>4 DEF Levelled, Placed
<1>9. \A i \in 1 .. Len(u2) : Born(u2[i], vis2, NearF, NextF) /\ (u2[i].path # <<>> \/ \E k \in 1 .. Len(u) : k # 1 /\ u2[i] = u[k])
  <2> SUFFICES ASSUME NEW i \in 1 .. Len(u2)
               PROVE  Born(u2[i], vis2, NearF, NextF) /\ (u2[i].path # <<>> \/ \E k \in 1 .. Len(u) : k # 1 /\ u2[i] = u[k])
    OBVIOUS
  <2>1. CASE \E k \in 1 .. Len(u) : k # 1 /\ u2[i] = u[k]
    <3>1. Born(u2[i], vis, NearF, NextF)
      BY <1>5, <2>1
    <3>2. Born(u2[i], vis2, NearF, NextF)
      BY <1>4, <3>1 DEF Born
    <3> QED BY <2>1, <3>2
  <2>2. ASSUME NEW e \in graph, e \in Follow(x.node, 0), u2[i].node = Other(e, x.node), u2[i].path = Append(x.path, e)
        PROVE  Born(u2[i], vis2, NearF, NextF) /\ u2[i].path # <<>>
    <3>1. PICK p \in Seq(graph) : p = x.path
      BY DEF Entry
    <3>2. PICK q \in Seq(graph) : q = Append(p, e)
      <4>1. Append(p, e) \in Seq(graph)
        OBVIOUS
      <4> QED BY <4>1
    <3>3. Len(p) \in Nat /\ Len(q) = Len(p) + 1 /\ q[Len(q)] = e
      BY <3>2
    <3>4. q # <<>>
      BY <3>3
    <3>5. Last(q) = e
      BY <3>3, <3>4, TopIsLast
    <3>6. Len(q) - 1 = h /\ u2[i].path = q
      BY <1>3, <2>2, <3>1, <3>2, <3>3
    <3>7. x.node \in vis2 /\ e \in NextF[x.node]
      BY <1>4, <2>2 DEF NextF
    <3>8. Born(u2[i], vis2, NearF, NextF)
      BY <1>4, <1>8, <2>2, <3>5, <3>6, <3>7 DEF Born
    <3> QED BY <3>4, <3>6, <3>8
  <2>3. \/ \E k \in 1 .. Len(u) : k # 1 /\ u2[i] = u[k]
        \/ \E e \in Fresh(u, vis) : /\ e \in graph /\ e \in Follow(u[1].node, 0)
                                    /\ u2[i].node = Other(e, u[1].node) /\ u2[i].path = Append(u[1].path, e)
    BY <1>1, PutBehind
  <2> QED BY <1>2, <2>1, <2>2, <2>3
<1>10. \A i \in 1 .. Len(u2) : u2[i].path # <<>>
  <2>1. CASE vis = {} /\ edg = {} /\ Len(u) = 1 /\ x.path = <<>> /\ x.node = start
    <3>1. ~\E k \in 1 .. Len(u) : k # 1
      BY <2>1
    <3> QED BY <1>9, <3>1
  <2>2. CASE \A i \in 1 .. Len(u) : u[i].path # <<>>
    BY <1>9, <2>2
  <2> QED BY <1>6, <2>1, <2>2
<1>11. CASE x.node \in vis /\ edg2 = edg
  <2>1. vis2 = vis
    BY <1>4, <1>11
  <2>2. start \in vis2 /\ Cardinality(edg2) = Cardinality(vis2) - 1
    BY <1>6, <1>11, <2>1
  <2>3. \A e \in edg2 : e[1] \in vis2 /\ e[2] \in vis2
    BY <1>5, <1>11, <2>1
  <2>4. \A n \in vis2 : \A d \in Nat : n \in NearF[d] => n \in Within({start}, edg2, Way, FALSE, d)
    BY <1>5, <1>11, <2>1
  <2>5. edg2 \subseteq Lead(0)
    BY <1>5, <1>11
  <2>6. Tree(u2, vis2, edg2, NearF, NextF, Way, start)
    BY <1>9, <1>10, <2>2, <2>3, <2>4, <2>5, Zenon DEF Tree
  <2> QED BY <1>1, <2>6
<1>12. CASE vis = {} /\ edg = {} /\ x.path = <<>> /\ x.node = start /\ edg2 = edg
  <2>1. vis2 = {start} /\ edg2 = {}
    BY <1>4, <1>12
  <2>2. Cardinality(edg2) = Cardinality(vis2) - 1
    <3>1. Cardinality({start}) = 1 /\ Cardinality({}) = 0
      BY FS_Singleton, FS_EmptySet
    <3> QED BY <2>1, <3>1
  <2>3. \A n \in vis2 : \A d \in Nat : n \in NearF[d] => n \in Within({start}, edg2, Way, FALSE, d)
    <3> SUFFICES ASSUME NEW d \in Nat PROVE start \in Within({start}, edg2, Way, FALSE, d)
      BY <2>1
    <3>1. edg2 \in SUBSET Relations /\ Way \in Ways /\ {start} \in SUBSET Nodes /\ FALSE \in BOOLEAN /\ 0 \in Nat /\ 0 <= d
      <4>1. Way \in Ways
        BY QueryType DEF IsWalk, Way, Ways
      <4> QED BY <1>1, <2>1, <4>1 DEF IsWalk
    <3>2. Within({start}, edg2, Way, FALSE, 0) \subseteq Within({start}, edg2, Way, FALSE, d)
      BY <3>1, WithinGrows
    <3>3. Within({start}, edg2, Way, FALSE, 0) = {start}
      BY <3>1, WithinTree
    <3> QED BY <3>2, <3>3
  <2>4. (\A e \in edg2 : e[1] \in vis2 /\ e[2] \in vis2) /\ edg2 \subseteq Lead(0) /\ start \in vis2
    BY <2>1
  <2>5. Tree(u2, vis2, edg2, NearF, NextF, Way, start)
    BY <1>9, <1>10, <2>2, <2>3, <2>4, Zenon DEF Tree
  <2> QED BY <1>1, <2>5
<1>13. CASE x.node \notin vis /\ x.path # <<>> /\ edg2 = edg \union {Last(x.path)}
  <2>1. PICK p \in vis : \E e \in graph : \E k \in Nat :
            /\ e = Last(x.path) /\ Len(x.path) = k + 1 /\ p \in NearF[k] /\ p \in Nodes
            /\ e \in Follow(p, 0) /\ Other(e, p) = x.node /\ e \in Lead(0)
            /\ \/ e[1] = p /\ e[2] = x.node
               \/ e[2] = p /\ e[1] = x.node
    BY <1>7, <1>13, BornIs DEF BreadthFirst
  <2>2. PICK e \in graph : \E k \in Nat :
            /\ e = Last(x.path) /\ Len(x.path) = k + 1 /\ p \in NearF[k] /\ p \in Nodes
            /\ e \in Follow(p, 0) /\ Other(e, p) = x.node /\ e \in Lead(0)
            /\ \/ e[1] = p /\ e[2] = x.node
               \/ e[2] = p /\ e[1] = x.node
    BY <2>1
  <2>3. PICK k \in Nat :
            /\ e = Last(x.path) /\ h = k + 1 /\ p \in NearF[k] /\ p \in Nodes
            /\ e \in Follow(p, 0) /\ Other(e, p) = x.node /\ e \in Lead(0)
            /\ \/ e[1] = p /\ e[2] = x.node
               \/ e[2] = p /\ e[1] = x.node
    BY <1>3, <2>2
  <2>4. start \in vis /\ Cardinality(edg) = Cardinality(vis) - 1
    BY <1>6, <1>13
  <2>5. Cardinality(edg2) = Cardinality(vis2) - 1 /\ start \in vis2
    <3>1. e \notin edg
      BY <1>5, <1>13, <2>3
    <3>2. IsFiniteSet(edg) /\ IsFiniteSet(vis)
      <4>1. IsFiniteSet(edg)
        BY FreshIsFinite DEF IsWalk
      <4>2. IsFiniteSet(vis)
        BY WalksAssumption, FS_Subset DEF WalksAssumption
      <4> QED BY <4>1, <4>2
    <3>3. Cardinality(edg \union {e}) = Cardinality(edg) + 1 /\ Cardinality(edg) \in Nat
      BY <3>1, <3>2, FS_AddElement, FS_CardinalityType
    <3>4. Cardinality(vis \union {x.node}) = Cardinality(vis) + 1 /\ Cardinality(vis) \in Nat
      BY <1>13, <3>2, FS_AddElement, FS_CardinalityType
    <3>5. edg2 = edg \union {e} /\ vis2 = vis \union {x.node}
      BY <1>4, <1>13, <2>3
    <3> QED BY <2>4, <3>3, <3>4, <3>5
  <2>6. \A f \in edg2 : f[1] \in vis2 /\ f[2] \in vis2
    BY <1>4, <1>5, <1>13, <2>3
  <2>7. edg2 \subseteq Lead(0)
    BY <1>5, <1>13, <2>3
  <2>8. \A n \in vis2 : \A d \in Nat : n \in NearF[d] => n \in Within({start}, edg2, Way, FALSE, d)
    <3> SUFFICES ASSUME NEW n \in vis2, NEW d \in Nat, n \in NearF[d] PROVE n \in Within({start}, edg2, Way, FALSE, d)
      OBVIOUS
    <3>1. edg2 \in SUBSET Relations /\ edg \in SUBSET edg2 /\ Way \in Ways /\ {start} \in SUBSET Nodes /\ FALSE \in BOOLEAN
      <4>1. Way \in Ways
        BY QueryType DEF IsWalk, Way, Ways
      <4> QED BY <1>1, <1>13, <2>3, <4>1 DEF IsWalk
    <3>2. \A c \in Nat : Within({start}, edg, Way, FALSE, c) \subseteq Within({start}, edg2, Way, FALSE, c)
      BY <3>1, MoreEdges
    <3>3. CASE n \in vis
      BY <1>5, <3>2, <3>3
    <3>4. CASE n = x.node /\ n \notin vis
      <4>1. ~(d < h)
        <5>1. AtLevel(u, vis, NearF, NextF, query.depth, h)
          <6>1. u # <<>>
            BY <1>4
          <6> QED BY <1>2, <1>3, <6>1 DEF Levelled
        <5> QED BY <3>4, <5>1 DEF AtLevel
      <4>2. p \in Within({start}, edg2, Way, FALSE, k)
        BY <1>5, <2>3, <3>2
      <4>3. Toward(0) = Way
        BY DEF Toward
      <4>4. x.node \in Further(edg2, Way, FALSE, Within({start}, edg2, Way, FALSE, k))
        <5>1. e \in edg2
          BY <1>13, <2>3
        <5>2. PICK S : S = Within({start}, edg2, Way, FALSE, k)
          OBVIOUS
        <5>3. Other(e, p) \in Further(edg2, Toward(0), FALSE, S)
          BY <2>3, <4>2, <5>1, <5>2, FollowedLeads
        <5> QED BY <2>3, <4>3, <5>2, <5>3
      <4>5. x.node \in Within({start}, edg2, Way, FALSE, k + 1)
        <5>1. Within({start}, edg2, Way, FALSE, k + 1) = Further(edg2, Way, FALSE, Within({start}, edg2, Way, FALSE, k))
          <6>1. \A c \in Nat : /\ Within({start}, edg2, Way, FALSE, c) \in SUBSET Nodes
                               /\ Within({start}, edg2, Way, FALSE, c + 1) = Further(edg2, Way, FALSE, Within({start}, edg2, Way, FALSE, c))
            BY <3>1, WithinTree
          <6> QED BY <6>1
        <5> QED BY <4>4, <5>1
      <4>6. k + 1 \in Nat /\ k + 1 <= d
        BY <2>3, <4>1
      <4>7. PICK c \in Nat : c = k + 1 /\ c <= d
        BY <4>6
      <4>8. Within({start}, edg2, Way, FALSE, c) \subseteq Within({start}, edg2, Way, FALSE, d)
        BY <3>1, <4>7, WithinGrows
      <4> QED BY <3>4, <4>5, <4>7, <4>8
    <3> QED BY <1>4, <3>3, <3>4
  <2>9. Tree(u2, vis2, edg2, NearF, NextF, Way, start)
    BY <1>9, <1>10, <2>5, <2>6, <2>7, <2>8, Zenon DEF Tree
  <2> QED BY <1>1, <2>9
<1>14. \/ x.node \in vis /\ edg2 = edg
       \/ x.node \notin vis /\ edg2 = IF x.path # <<>> THEN edg \union {Last(x.path)} ELSE edg
  BY <1>1, <1>2 DEF Taken
<1>15. x.path = <<>> => (vis = {} /\ edg = {} /\ x.node = start)
  BY <1>2, <1>4, <1>6
<1> QED BY <1>11, <1>12, <1>13, <1>14, <1>15
-----------------------------------------------------------------------------
LEMMA CollectedGrows ==
  ASSUME IsWalk, RoundOf(0), query.op = "bfs", NEW u, NEW vis, NEW nod, NEW edg, NEW b,
         Taken(u, vis, nod, edg, b), Collected(u, vis, nod, query.start)
  PROVE  Collected(paths', visited', nodes', query.start)
<1>1. /\ u \in Seq(Entry) /\ u # <<>> /\ b \in Seq(Entry) /\ paths' = After(u, b)
      /\ visited' = vis \union {u[1].node} /\ 1 \in 1 .. Len(u)
  BY DEF Taken
<1>2. PICK u2 : u2 = paths'
  OBVIOUS
<1>3. \A n : /\ Waits(u, n) => Waits(u2, n) \/ n = u[1].node
             /\ Waits(b, n) => Waits(u2, n)
             /\ Waits(u2, n) => Waits(u, n) \/ Waits(b, n)
  BY <1>1, <1>2, WaitsAfter
<1>4. \A n : Met(u, vis, n) => Met(u2, visited', n)
  BY <1>1, <1>3 DEF Met
<1>5. Met(u, vis, u[1].node)
  BY <1>1 DEF Met, Waits
<1>6. \A n : Met(u2, visited', n) => Met(u, vis, n) \/ Waits(b, n)
  BY <1>1, <1>3, <1>5 DEF Met
<1>7. CASE b = <<>> /\ nodes' = nod
  <2>1. \A n : ~Waits(b, n)
    <3>1. Len(b) = 0
      BY <1>7
    <3> QED BY <3>1 DEF Waits
  <2> QED BY <1>2, <1>4, <1>6, <1>7, <2>1 DEF Collected
<1>8. CASE /\ nodes' = nod \union {Other(e, u[1].node) : e \in Fresh(u, vis)}
           /\ \A e \in Fresh(u, vis) : Waits(b, Other(e, u[1].node))
  <2>1. \A n : Waits(b, n) => \E e \in Fresh(u, vis) : n = Other(e, u[1].node)
    <3> SUFFICES ASSUME NEW n, NEW i \in 1 .. Len(b), b[i].node = n PROVE \E e \in Fresh(u, vis) : n = Other(e, u[1].node)
      BY DEF Waits
    <3>1. PICK e \in Fresh(u, vis) : b[i] = [node |-> Other(e, u[1].node), path |-> Append(u[1].path, e)]
      BY DEF Taken
    <3>2. b[i].node = Other(e, u[1].node)
      BY <3>1
    <3> QED BY <3>2
  <2>2. ASSUME NEW n \in nodes' PROVE Met(u2, visited', n) \/ n = query.start
    <3>1. CASE n \in nod
      BY <1>4, <3>1 DEF Collected
    <3>2. CASE n \notin nod
      <4>1. Waits(b, n)
        BY <1>8, <2>2, <3>2
      <4> QED BY <1>3, <4>1 DEF Met
    <3> QED BY <3>1, <3>2
  <2>3. ASSUME NEW n, Met(u2, visited', n) PROVE n \in nodes' \/ n = query.start
    <3>1. CASE Met(u, vis, n)
      BY <1>8, <3>1 DEF Collected
    <3>2. CASE Waits(b, n)
      BY <1>8, <2>1, <3>2
    <3> QED BY <1>6, <2>3, <3>1, <3>2
  <2> QED BY <1>2, <2>2, <2>3 DEF Collected
<1> QED BY <1>7, <1>8 DEF Taken

LEMMA RealGrows ==
  ASSUME IsWalk, RoundOf(0), query.op = "path", NEW u, NEW vis, NEW nod, NEW edg, NEW b,
         Taken(u, vis, nod, edg, b), \A i \in 1 .. Len(u) : Real(u[i].path, u[i].node, query.start)
  PROVE  \A i \in 1 .. Len(paths') : Real(paths'[i].path, paths'[i].node, query.start)
<1> SUFFICES ASSUME NEW i \in 1 .. Len(paths') PROVE Real(paths'[i].path, paths'[i].node, query.start)
  OBVIOUS
<1>1. \/ \E k \in 1 .. Len(u) : k # 1 /\ paths'[i] = u[k]
      \/ \E e \in Fresh(u, vis) : /\ e \in graph /\ e \in Follow(u[1].node, 0)
                                  /\ paths'[i].node = Other(e, u[1].node)
                                  /\ paths'[i].path = Append(u[1].path, e)
  BY PutBehind
<1>2. CASE \E k \in 1 .. Len(u) : k # 1 /\ paths'[i] = u[k]
  BY <1>2
<1>3. ASSUME NEW e \in graph, e \in Follow(u[1].node, 0), paths'[i].node = Other(e, u[1].node),
             paths'[i].path = Append(u[1].path, e)
      PROVE  Real(paths'[i].path, paths'[i].node, query.start)
  <2>1. u[1] \in Entry /\ 1 \in 1 .. Len(u)
    BY DEF Taken
  <2>6. PICK p \in Seq(graph) : p = u[1].path
    BY <2>1 DEF Entry
  <2>2. PICK n : n = u[1].node /\ p = u[1].path
    BY <2>6
  <2>3. e[1] = n /\ Other(e, n) = e[2]
    BY <1>3, <2>2 DEF Follow, Out, Other
  <2>4. Real(p, n, query.start)
    BY <2>1, <2>2
  <2>5. Real(Append(p, e), e[2], query.start)
    BY <2>3, <2>4, PathGrows
  <2> QED BY <1>3, <2>2, <2>3, <2>5
<1> QED BY <1>1, <1>2, <1>3

LEMMA TakeFromQueueB == ASSUME TInv, BInv, query.op \in BreadthFirst, TakeFromQueue PROVE BInv'
<1>1. /\ at = "walking" /\ paths # <<>> /\ IsWalk /\ RoundOf(0) /\ paths[1] \in Entry
      /\ paths \in Seq(Entry) /\ Known /\ UNCHANGED <<graph, query, at, found>>
      /\ ~(query.op = "path" /\ paths[1].node = query.to)
  BY VisitIs DEF TInv, WType, WStage, TakeFromQueue
<1>2. /\ Levelled(paths, visited, NearF, NextF, query.depth)
      /\ StartFirst(paths, visited, query.start)
      /\ query.op = "bfs" => BfsInv
      /\ query.op = "path" => PathInv
  BY <1>1 DEF BInv
<1>3. PICK b \in Seq(Entry) :
            /\ paths' = After(paths, b) /\ visited' = visited \union {paths[1].node}
            /\ Behind(b, NearF, query.depth, Len(paths[1].path))
            /\ Len(paths[1].path) < query.depth => HeadExpanded(paths, visited, b, visited', NextF)
            /\ \A i \in 1 .. Len(b) :
                  \E e \in Fresh(paths, visited) :
                      b[i] = [node |-> Other(e, paths[1].node), path |-> Append(paths[1].path, e)]
            /\ \/ /\ paths[1].node \in visited /\ b = <<>> /\ nodes' = nodes /\ edges' = edges
               \/ /\ paths[1].node \notin visited
                  /\ edges' = IF query.op = "bfs" /\ paths[1].path # <<>>
                              THEN edges \union {Last(paths[1].path)} ELSE edges
                  /\ nodes' = IF query.op = "bfs"
                              THEN nodes \union {Other(e, paths[1].node) : e \in Fresh(paths, visited)} ELSE nodes
                  /\ \A e \in Fresh(paths, visited) : Waits(b, Other(e, paths[1].node))
  BY VisitPuts
<1>4. PICK u, vis, nod, edg : u = paths /\ vis = visited /\ nod = nodes /\ edg = edges
  OBVIOUS
<1>5. Taken(u, vis, nod, edg, b)
  BY <1>1, <1>3, <1>4, Zenon DEF Taken
<1>6. PICK start, depth, W, N : start = query.start /\ depth = query.depth /\ W = NearF /\ N = NextF
  OBVIOUS
<1>7. Levelled(paths', visited', W, N, depth)
  <2>1. Steps(W, N, start) /\ depth \in Nat
    BY <1>1, <1>6, StepsHold, QueryType DEF IsWalk
  <2>2. PICK h \in Nat : h = Len(u[1].path)
    BY <1>1, <1>4 DEF Entry
  <2>3. HavePaths(Entry)
    BY DEF HavePaths, Entry
  <2>4. start \in vis \union {u[1].node}
    BY <1>2, <1>4, <1>6 DEF StartFirst
  <2>5. PICK u2, vis2 : u2 = paths' /\ vis2 = visited'
    OBVIOUS
  <2>6. Behind(b, W, depth, h) /\ (h < depth => HeadExpanded(u, vis, b, vis2, N))
    BY <1>3, <1>4, <1>6, <2>2, <2>5
  <2>7. Levelled(u, vis, W, N, depth) /\ u \in Seq(Entry) /\ u # <<>> /\ u2 = After(u, b) /\ vis2 = vis \union {u[1].node}
    BY <1>1, <1>2, <1>3, <1>4, <1>6, <2>5
  <2>8. Levelled(u2, vis2, W, N, depth)
    BY <2>1, <2>2, <2>3, <2>4, <2>6, <2>7, TakeKeepsLevels
  <2> QED BY <2>5, <2>8
<1>8. StartFirst(paths', visited', start)
  BY <1>2, <1>3, <1>6 DEF StartFirst
<1>9. visited \in SUBSET Nodes /\ edges \in SUBSET graph
  BY DEF TInv, WType
<1>10. NearF' = NearF /\ NextF' = NextF /\ Way' = Way /\ Known' = Known
  <2>1. Way' = Way
    BY <1>1 DEF Way
  <2>2. Known' = Known
    BY <1>1 DEF Known
  <2> QED BY <1>1, <2>1, <2>2, SameSteps
<1>11. ASSUME query.op = "bfs" PROVE BfsInv'
  <2>1. Tree(u, vis, edg, NearF, NextF, Way, query.start) /\ Collected(u, vis, nod, query.start)
    BY <1>2, <1>4, <1>11 DEF BfsInv
  <2>2. vis \in SUBSET Nodes /\ edg \in SUBSET graph /\ Levelled(u, vis, NearF, NextF, query.depth)
    BY <1>2, <1>4, <1>9
  <2>3. Tree(paths', visited', edges', NearF, NextF, Way, query.start)
    BY <1>1, <1>5, <1>11, <2>1, <2>2, TreeGrows
  <2>4. Collected(paths', visited', nodes', query.start)
    BY <1>1, <1>5, <1>11, <2>1, CollectedGrows
  <2>5. at' # "done" /\ query' = query
    BY <1>1
  <2>6. Tree(paths, visited, edges, NearF, NextF, Way, query.start)'
    <3>1. Lead(0)' = Lead(0)
      BY <1>1, SameLead
    <3>2. PICK st : st = query.start /\ st = query'.start
      BY <2>5
    <3>3. Tree(paths', visited', edges', NearF, NextF, Way, st)
      BY <2>3, <3>2
    <3>4. \A x, v : Born(x, v, NearF, NextF)' = Born(x, v, NearF, NextF)
      BY <1>10, Zenon DEF Born
    <3>5. Tree(paths, visited, edges, NearF, NextF, Way, st)'
      BY <1>10, <3>1, <3>3, <3>4, Zenon DEF Tree, Born
    <3> QED BY <3>2, <3>5, Zenon
  <2>7. Collected(paths, visited, nodes, query.start)'
    BY <2>4, <2>5 DEF Collected, Met, Waits
  <2> QED BY <2>5, <2>6, <2>7 DEF BfsInv
<1>12. ASSUME query.op = "path" PROVE PathInv'
  <2>1. \A i \in 1 .. Len(u) : Real(u[i].path, u[i].node, query.start)
    BY <1>2, <1>4, <1>12 DEF PathInv
  <2>2. \A i \in 1 .. Len(paths') : Real(paths'[i].path, paths'[i].node, query.start)
    BY <1>1, <1>5, <1>12, <2>1, RealGrows
  <2>3. query'.to \notin visited'
    BY <1>1, <1>2, <1>3, <1>12 DEF PathInv
  <2>4. at' = "walking" /\ found' = {} /\ query' = query /\ graph' = graph
    BY <1>1, <1>2, <1>12 DEF PathInv
  <2>5. \A p, n, s : Real(p, n, s)' = Real(p, n, s)
    BY <2>4 DEF Real
  <2> QED BY <2>2, <2>3, <2>4, <2>5 DEF PathInv, Real
<1>13. (Levelled(paths, visited, NearF, NextF, query.depth) /\ StartFirst(paths, visited, query.start))'
  BY <1>1, <1>6, <1>7, <1>8, <1>10 DEF Levelled, StartFirst, ByLength, Placed, AtLevel, Expanded, Met, Waits
<1> QED BY <1>1, <1>11, <1>12, <1>13 DEF BInv
-----------------------------------------------------------------------------
LEMMA SameB ==
  ASSUME BInv, at # "ready", Known, query.op \in BreadthFirst,
         UNCHANGED <<graph, query, paths, visited, nodes, edges>>,
         query.op = "bfs" => (at' = "done" => paths = <<>> \/ Full),
         query.op = "path" => PathInv'
  PROVE  BInv'
<1>1. NearF' = NearF /\ NextF' = NextF /\ Way' = Way /\ Known' = Known /\ Lead(0)' = Lead(0) /\ Full' = Full
  <2>1. Way' = Way
    BY DEF Way
  <2>2. Known' = Known /\ Full' = Full
    BY DEF Known, Full
  <2> QED BY <2>1, <2>2, SameSteps, SameLead
<1>2. /\ Levelled(paths, visited, NearF, NextF, query.depth) /\ StartFirst(paths, visited, query.start)
      /\ query.op = "bfs" => BfsInv
  BY DEF BInv
<1>3. (Levelled(paths, visited, NearF, NextF, query.depth) /\ StartFirst(paths, visited, query.start))'
  BY <1>1, <1>2
<1>4. ASSUME query.op = "bfs" PROVE BfsInv'
  <2>1. \A x, v : Born(x, v, NearF, NextF)' = Born(x, v, NearF, NextF)
    BY <1>1, Zenon DEF Born
  <2>2. Tree(paths, visited, edges, NearF, NextF, Way, query.start)'
    BY <1>1, <1>2, <1>4, <2>1, Zenon DEF BfsInv, Tree, Born
  <2>3. Collected(paths, visited, nodes, query.start)'
    BY <1>2, <1>4 DEF BfsInv, Collected, Met, Waits
  <2> QED BY <1>1, <1>4, <2>2, <2>3 DEF BfsInv
<1> QED BY <1>1, <1>3, <1>4 DEF BInv

LEMMA AskB == ASSUME TInv, Ask \/ AskUnknown PROVE BInv'
<1>1. CASE AskUnknown
  <2>1. ~Known /\ query' = query
    BY <1>1 DEF AskUnknown
  <2>2. ~Known'
    BY <2>1 DEF Known
  <2> QED BY <2>2 DEF BInv
<1>2. CASE Ask /\ query.op \notin BreadthFirst
  BY <1>2 DEF Ask, BInv
<1>3. CASE Ask /\ query.op \in BreadthFirst
  <2>1. /\ UNCHANGED <<graph, query, visited, edges, found>> /\ visited = {} /\ edges = {} /\ found = {}
        /\ at' = "walking" /\ Known
        /\ paths' = <<[node |-> query.start, path |-> <<>>]>>
        /\ nodes' = IF StartIsIncluded THEN {query.start} ELSE {}
    BY <1>3 DEF Ask, TInv, WStage
  <2>2. IsWalk /\ RoundOf(0) /\ query.depth \in Nat
    <3>1. query.op \in Walks /\ query.start \in Nodes
      BY <1>3, <2>1 DEF Known, BreadthFirst, Walks
    <3>2. IsWalk
      BY <3>1 DEF TInv, WType, IsWalk
    <3>3. RoundOf(0)
      BY <1>3 DEF RoundOf, BreadthFirst
    <3> QED BY <3>2, <3>3, QueryType DEF IsWalk
  <2>3. PICK start, depth, W, N : start = query.start /\ depth = query.depth /\ W = NearF /\ N = NextF
    OBVIOUS
  <2>4. W[0] = {start} /\ Steps(W, N, start)
    BY <1>3, <2>2, <2>3, StepsHold
  <2>5. PICK u : u = <<[node |-> start, path |-> <<>>]>> /\ u = paths'
    BY <2>1, <2>3
  <2>6. Len(u) = 1 /\ u # <<>> /\ u[1].node = start /\ u[1].path = <<>> /\ Len(u[1].path) = 0 /\ \A i \in 1 .. Len(u) : i = 1
    <3>1. Len(u) = 1 /\ u # <<>> /\ u[1] = [node |-> start, path |-> <<>>]
      BY <2>5
    <3>2. u[1].node = start /\ u[1].path = <<>>
      BY <3>1
    <3>3. Len(<<>>) = 0
      OBVIOUS
    <3> QED BY <3>1, <3>2, <3>3
  <2>7. Levelled(u, {}, W, N, depth)
    <3>1. ByLength(u)
      BY <2>6 DEF ByLength
    <3>2. Placed(u, W, depth)
      BY <2>2, <2>3, <2>4, <2>6 DEF Placed
    <3>3. AtLevel(u, {}, W, N, depth, 0)
      <4>1. \A n \in W[0] : \E i \in 1 .. Len(u) : u[i].node = n /\ Len(u[i].path) = 0
        BY <2>4, <2>6
      <4> QED BY <4>1 DEF AtLevel
    <3> QED BY <2>6, <3>1, <3>2, <3>3 DEF Levelled
  <2>8. NearF' = NearF /\ NextF' = NextF /\ Way' = Way /\ Known' = Known /\ Lead(0)' = Lead(0)
    <3>1. Way' = Way
      BY <2>1 DEF Way
    <3>2. Known' = Known
      BY <2>1 DEF Known
    <3> QED BY <2>1, <3>1, <3>2, SameSteps, SameLead
  <2>9. \A n : Waits(u, n) <=> n = start
    BY <2>6 DEF Waits
  <2>10. Levelled(paths, visited, NearF, NextF, query.depth)'
    <3>1. query'.depth = depth /\ W = NearF' /\ N = NextF' /\ visited' = {} /\ u = paths'
      BY <2>1, <2>3, <2>5, <2>8
    <3> QED BY <2>7, <3>1
  <2>11. StartFirst(paths, visited, query.start)'
    BY <2>1, <2>3, <2>5, <2>6 DEF StartFirst
  <2>12. BfsInv'
    <3>1. Born(u[1], {}, W, N)
      BY <2>6 DEF Born
    <3>2. Tree(u, {}, {}, W, N, Way, start)
      BY <2>6, <3>1, Zenon DEF Tree
    <3>3. Tree(paths, visited, edges, NearF, NextF, Way, query.start)'
      <4>1. query'.start = start /\ W = NearF' /\ N = NextF' /\ visited' = {} /\ edges' = {} /\ u = paths' /\ Way' = Way
        BY <2>1, <2>3, <2>5, <2>8
      <4> QED BY <2>8, <3>2, <4>1, Zenon DEF Tree, Born
    <3>4. Collected(paths, visited, nodes, query.start)'
      <4>1. \A n : Met(u, {}, n) <=> n = start
        BY <2>9 DEF Met
      <4>2. nodes' \subseteq {start}
        BY <2>1, <2>3
      <4>3. Collected(u, {}, nodes', start)
        BY <4>1, <4>2 DEF Collected
      <4>4. query'.start = start /\ visited' = {} /\ u = paths'
        BY <2>1, <2>3, <2>5
      <4> QED BY <4>3, <4>4, Zenon DEF Collected, Met, Waits
    <3> QED BY <2>1, <3>3, <3>4 DEF BfsInv
  <2>13. PathInv'
    <3>1. Real(<<>>, start, start)
      <4>1. \A i \in 1 .. Len(<<>>) : FALSE
        BY <2>6
      <4> QED BY <4>1 DEF Real
    <3>2. \A i \in 1 .. Len(paths') : Real(paths'[i].path, paths'[i].node, query'.start)
      BY <2>1, <2>3, <2>5, <2>6, <3>1
    <3>3. \A p, n, s : Real(p, n, s)' = Real(p, n, s)
      BY <2>1, Zenon DEF Real
    <3>4. (\A i \in 1 .. Len(paths) : Real(paths[i].path, paths[i].node, query.start))'
      BY <2>1, <3>2 DEF Real
    <3> QED BY <2>1, <3>4 DEF PathInv
  <2> QED BY <2>10, <2>11, <2>12, <2>13 DEF BInv
<1> QED BY <1>1, <1>2, <1>3

LEMMA EndsB == ASSUME TInv, BInv, PathFound \/ BreadthFirstEnds PROVE BInv'
<1>1. /\ at = "walking" /\ at' = "done" /\ query.op \in BreadthFirst
      /\ UNCHANGED <<graph, query, paths, stack, round, visited, nodes, edges>>
  BY DEF PathFound, BreadthFirstEnds, BreadthFirst
<1>2. Known /\ at # "ready" /\ paths \in Seq(Entry)
  BY <1>1 DEF TInv, WStage, WType
<1>3. Levelled(paths, visited, NearF, NextF, query.depth) /\ (query.op = "path" => PathInv)
  BY <1>1, <1>2 DEF BInv
<1>4. query.op = "bfs" => paths = <<>> \/ Full
  BY DEF PathFound, BreadthFirstEnds
<1>5. ASSUME query.op = "path" PROVE PathInv'
  <2>1. NearF' = NearF
    BY <1>1, SameSteps
  <2>2. \A p, n, s : Real(p, n, s)' = Real(p, n, s)
    BY <1>1, Zenon DEF Real
  <2>3. (\A i \in 1 .. Len(paths) : Real(paths[i].path, paths[i].node, query.start))'
    BY <1>1, <1>3, <1>5, Zenon DEF PathInv, Real
  <2>4. CASE PathFound
    <3>1. paths # <<>> /\ 1 \in 1 .. Len(paths) /\ Head(paths) = paths[1] /\ paths[1] \in Entry
      BY <1>2, <2>4 DEF PathFound
    <3>2. PICK p \in Seq(graph) : p = paths[1].path /\ found' = {p} /\ paths[1].node = query.to
      BY <2>4, <3>1 DEF PathFound, Entry
    <3>3. Real(p, query.to, query.start)
      BY <1>3, <1>5, <3>1, <3>2 DEF PathInv
    <3>4. AtLevel(paths, visited, NearF, NextF, query.depth, Len(p))
      BY <1>3, <3>1, <3>2 DEF Levelled
    <3>5. \A k \in Nat : k < Len(p) => query.to \notin NearF[k]
      BY <1>3, <1>5, <3>4 DEF AtLevel, PathInv
    <3>6. Real(p, query.to, query.start)'
      BY <1>1, <3>3, Zenon DEF Real
    <3>7. \E q \in Seq(graph) : /\ found' = {q} /\ Real(q, query.to, query.start)'
                                /\ \A k \in Nat : k < Len(q) => query.to \notin NearF[k]
      BY <3>2, <3>5, <3>6
    <3>8. (\E q \in Seq(graph) : /\ found = {q} /\ Real(q, query.to, query.start)
                                 /\ \A k \in Nat : k < Len(q) => query.to \notin NearF[k])'
      BY <1>1, <2>1, <3>7
    <3> QED BY <1>1, <1>3, <1>5, <2>3, <3>8 DEF PathInv
  <2>5. CASE BreadthFirstEnds
    <3>1. paths = <<>> /\ found' = found
      BY <1>5, <2>5 DEF BreadthFirstEnds, Full
    <3> QED BY <1>1, <1>3, <1>5, <2>3, <3>1 DEF PathInv
  <2> QED BY <2>4, <2>5
<1> QED BY <1>1, <1>2, <1>4, <1>5, SameB

LEMMA OthersB ==
  ASSUME TInv, BInv,
         BeginRound \/ TakeEdge \/ WalkUsers \/ ReturnToCaller \/ DepthFirstEnds \/ NextFile \/ TakeDependency \/ NoFileLeft
  PROVE  BInv'
<1>1. query' = query /\ (stack # <<>> \/ query.op \notin BreadthFirst)
  BY DEF BeginRound, TakeEdge, WalkUsers, ReturnToCaller, DepthFirstEnds, NextFile, TakeDependency, NoFileLeft, BreadthFirst
<1>2. query.op \notin BreadthFirst
  BY <1>1 DEF TInv, WStage
<1> QED BY <1>1, <1>2 DEF BInv

LEMMA StutterB == ASSUME BInv, UNCHANGED walkVars PROVE BInv'
<1>1. UNCHANGED <<graph, query, at, paths, stack, round, visited, nodes, edges, found>>
  BY DEF walkVars
<1>2. CASE at # "ready" /\ Known /\ query.op \in BreadthFirst
  <2>1. query.op = "bfs" => (at' = "done" => paths = <<>> \/ Full)
    BY <1>1, <1>2 DEF BInv, BfsInv
  <2>2. query.op = "path" => PathInv'
    <3>1. NearF' = NearF
      BY <1>1, SameSteps
    <3> QED BY <1>1, <1>2, <3>1, Zenon DEF BInv, PathInv, Real
  <2> QED BY <1>1, <1>2, <2>1, <2>2, SameB
<1>3. CASE ~(at # "ready" /\ Known /\ query.op \in BreadthFirst)
  <2>1. Known' = Known
    BY <1>1 DEF Known
  <2> QED BY <1>1, <1>3, <2>1 DEF BInv
<1> QED BY <1>2, <1>3

LEMMA BreadthFirstHolds == WalkSpec => [](TInv /\ BInv)
<1>1. WalkInit => BInv
  BY DEF WalkInit, BInv
<1>2. ASSUME TInv, BInv, TakeFromQueue PROVE BInv'
  <2>1. query.op \in BreadthFirst
    BY <1>2 DEF TInv, WStage, TakeFromQueue
  <2> QED BY <1>2, <2>1, TakeFromQueueB
<1>3. TInv /\ BInv /\ [WalkNext]_walkVars => BInv'
  BY <1>2, AskB, EndsB, OthersB, StutterB DEF WalkNext
<1> QED BY <1>1, <1>3, WalkTypesHold, PTL DEF WalkSpec
-----------------------------------------------------------------------------
LEMMA QueueIsNear ==
  ASSUME TInv, BInv, at # "ready", Known, query.op \in BreadthFirst
  PROVE  /\ \A n \in visited : n \in NearF[query.depth]
         /\ \A n : Waits(paths, n) => n \in NearF[query.depth]
         /\ query.start \in NearF[query.depth]
         /\ \A c, d \in Nat : c <= d => NearF[c] \subseteq NearF[d]
<1>1. IsWalk /\ RoundOf(0) /\ paths \in Seq(Entry)
  BY WalkOf DEF Walks, BreadthFirst, TInv, WType
<1>2. Steps(NearF, NextF, query.start) /\ query.depth \in Nat
  BY <1>1, StepsHold, QueryType DEF IsWalk
<1>3. Levelled(paths, visited, NearF, NextF, query.depth)
  BY DEF BInv
<1>4. \A c, d \in Nat : c <= d => NearF[c] \subseteq NearF[d]
  BY <1>2 DEF Steps
<1>5. \A i \in 1 .. Len(paths) : paths[i].path \in Seq(graph)
  <2>1. \A i \in 1 .. Len(paths) : paths[i] \in Entry
    BY <1>1
  <2> QED BY <2>1 DEF Entry
<1>6. \A i \in 1 .. Len(paths) : Len(paths[i].path) \in Nat
  BY <1>5
<1>7. \A i \in 1 .. Len(paths) : NearF[Len(paths[i].path)] \subseteq NearF[query.depth] /\ Len(paths[i].path) <= query.depth
  BY <1>2, <1>3, <1>4, <1>6 DEF Levelled, Placed
<1>8. \A n : Waits(paths, n) => n \in NearF[query.depth]
  BY <1>3, <1>7 DEF Waits, Levelled, Placed
<1>9. visited \subseteq NearF[query.depth]
  <2>1. CASE paths = <<>>
    BY <1>3, <2>1 DEF Levelled
  <2>2. CASE paths # <<>>
    <3>1. 1 \in 1 .. Len(paths)
      BY <1>1, <2>2
    <3>2. visited \subseteq NearF[Len(paths[1].path)]
      BY <1>3, <2>2 DEF Levelled, AtLevel
    <3> QED BY <1>7, <3>1, <3>2
  <2> QED BY <2>1, <2>2
<1>10. query.start \in NearF[query.depth]
  <2>1. 0 \in Nat /\ 0 <= query.depth
    BY <1>2
  <2> QED BY <1>2, <1>4, <2>1 DEF Steps
<1> QED BY <1>4, <1>8, <1>9, <1>10

LEMMA BreadthFirstAnswers == TInv /\ BInv => BreadthFirstAnswer
<1> SUFFICES ASSUME TInv, BInv, Answered("bfs") PROVE
            /\ Answer \subseteq Expected(query.depth)
            /\ ~Limited =>
                  /\ Answer = Expected(query.depth)
                  /\ \A d \in 0..query.depth : Within({query.start}, edges, Way, FALSE, d) = Expected(d)
                  /\ Cardinality(edges) = Cardinality(Answer) - 1
  BY DEF BreadthFirstAnswer
<1>1. at = "done" /\ query.op = "bfs" /\ Known /\ query.op \in BreadthFirst
  BY DEF Answered, BreadthFirst
<1>2. IsWalk /\ RoundOf(0)
  BY <1>1, WalkOf DEF Walks
<1>3. query.depth \in Nat
  BY <1>2, QueryType DEF IsWalk
<1>4. \A d \in Nat : Expected(d) = NearF[d]
  <2>1. Lead(0) = Wanted /\ Toward(0) = Way
    BY <1>1 DEF Lead, Links, Toward, Allowed, Wanted
  <2>2. \A d : Expected(d) = Within({query.start}, Wanted, Way, FALSE, d)
    BY <1>1, Zenon DEF Expected
  <2>3. \A d : Reach(0, d) = Within({query.start}, Lead(0), Toward(0), FALSE, d)
    BY <1>1, Zenon DEF Reach
  <2>4. \A d \in Nat : NearF[d] = Reach(0, d)
    BY DEF NearF
  <2> QED BY <2>1, <2>2, <2>3, <2>4, Zenon
<1>5. /\ Tree(paths, visited, edges, NearF, NextF, Way, query.start)
      /\ Collected(paths, visited, nodes, query.start)
      /\ paths = <<>> \/ Full
      /\ Levelled(paths, visited, NearF, NextF, query.depth)
  BY <1>1 DEF BInv, BfsInv
<1>6. Answer \subseteq NearF[query.depth]
  <2>1. \A n \in nodes : n \in NearF[query.depth]
    BY <1>1, <1>5, QueueIsNear DEF Collected, Met
  <2> QED BY <1>1, <2>1, QueueIsNear DEF Answer
<1>7. ASSUME ~Limited
      PROVE  /\ Answer = Expected(query.depth)
             /\ \A d \in 0..query.depth : Within({query.start}, edges, Way, FALSE, d) = Expected(d)
             /\ Cardinality(edges) = Cardinality(Answer) - 1
  <2>1. paths = <<>>
    BY <1>1, <1>5, <1>7 DEF Full, Limited
  <2>2. visited = NearF[query.depth]
    BY <1>5, <2>1 DEF Levelled
  <2>3. visited \subseteq Answer
    BY <1>5 DEF Collected, Met, Answer
  <2>4. Answer = visited
    BY <1>6, <2>2, <2>3
  <2>5. Cardinality(edges) = Cardinality(visited) - 1
    <3>1. Len(paths) = 0
      BY <2>1
    <3> QED BY <1>5, <3>1 DEF Tree
  <2>6. ASSUME NEW d \in 0..query.depth PROVE Within({query.start}, edges, Way, FALSE, d) = NearF[d]
    <3>1. d \in Nat /\ d <= query.depth
      BY <1>3
    <3>2. NearF[d] \subseteq visited
      BY <1>1, <1>3, <2>2, <3>1, QueueIsNear
    <3>3. NearF[d] \subseteq Within({query.start}, edges, Way, FALSE, d)
      BY <1>5, <3>1, <3>2 DEF Tree
    <3>4. /\ Lead(0) \in SUBSET Relations /\ edges \in SUBSET Lead(0) /\ Toward(0) = Way /\ Way \in Ways
          /\ {query.start} \in SUBSET Nodes
      <4>1. Toward(0) = Way
        BY <1>1 DEF Toward
      <4> QED BY <1>2, <1>5, <4>1, LeadType DEF Tree
    <3>5. Within({query.start}, edges, Way, FALSE, d) \subseteq Within({query.start}, Lead(0), Way, FALSE, d)
      BY <3>1, <3>4, MoreEdges
    <3>6. NearF[d] = Within({query.start}, Lead(0), Way, FALSE, d)
      <4>1. NearF[d] = Reach(0, d)
        BY <3>1 DEF NearF
      <4>2. Reach(0, d) = Within({query.start}, Lead(0), Toward(0), FALSE, d)
        BY <1>1, Zenon DEF Reach
      <4> QED BY <3>4, <4>1, <4>2, Zenon
    <3> QED BY <3>3, <3>5, <3>6
  <2>7. \A d \in 0 .. query.depth : d \in Nat
    BY <1>3
  <2> QED BY <1>3, <1>4, <2>2, <2>4, <2>5, <2>6, <2>7
<1> QED BY <1>3, <1>4, <1>6, <1>7

LEMMA PathAnswers == TInv /\ BInv => PathIsShortest
<1> SUFFICES ASSUME TInv, BInv, Answered("path") PROVE
         /\ found = {} => query.to \notin Within({query.start}, graph, 1, FALSE, Unlimited)
         /\ \A p \in found :
                 /\ \A i \in DOMAIN p :
                       /\ p[i] \in graph
                       /\ p[i][1] = IF i = 1 THEN query.start ELSE p[i - 1][2]
                 /\ query.to = IF p = <<>> THEN query.start ELSE Last(p)[2]
                 /\ p # <<>> => query.to \notin Within({query.start}, graph, 1, FALSE, Len(p) - 1)
  BY Zenon DEF PathIsShortest
<1>1. at = "done" /\ query.op = "path" /\ Known /\ query.op \in BreadthFirst
  BY DEF Answered, BreadthFirst
<1>2. IsWalk /\ RoundOf(0)
  BY <1>1, WalkOf DEF Walks
<1>3. query.depth = Unlimited /\ Unlimited \in Nat
  BY <1>1, <1>2, QueryType, WalksAssumption DEF IsWalk, WalksAssumption
<1>4. \A d \in Nat : Within({query.start}, graph, 1, FALSE, d) = NearF[d]
  <2>1. Lead(0) = graph /\ Toward(0) = 1
    <3>1. \A e \in graph : e[1] \in Nodes /\ e[2] \in Nodes
      BY <1>2, EndsAreNodes DEF IsWalk
    <3> QED BY <1>1, <3>1 DEF Lead, Links, Toward, Allowed
  <2>3. \A d : Reach(0, d) = Within({query.start}, Lead(0), Toward(0), FALSE, d)
    BY <1>1, Zenon DEF Reach
  <2>4. \A d \in Nat : NearF[d] = Reach(0, d)
    BY DEF NearF
  <2> QED BY <2>1, <2>3, <2>4, Zenon
<1>5. PathInv /\ Levelled(paths, visited, NearF, NextF, query.depth)
  BY <1>1 DEF BInv
<1>6. \/ found = {} /\ paths = <<>>
      \/ \E p \in Seq(graph) : /\ found = {p} /\ Real(p, query.to, query.start)
                               /\ \A k \in Nat : k < Len(p) => query.to \notin NearF[k]
  BY <1>1, <1>5 DEF PathInv
<1>7. CASE found = {} /\ paths = <<>>
  <2>1. visited = NearF[Unlimited]
    BY <1>3, <1>5, <1>7 DEF Levelled
  <2>2. query.to \notin visited
    BY <1>5 DEF PathInv
  <2> QED BY <1>3, <1>4, <1>7, <2>1, <2>2
<1>8. ASSUME NEW p \in Seq(graph), found = {p}, Real(p, query.to, query.start),
             \A k \in Nat : k < Len(p) => query.to \notin NearF[k]
      PROVE  /\ found # {}
             /\ \A i \in DOMAIN p : p[i] \in graph /\ p[i][1] = IF i = 1 THEN query.start ELSE p[i - 1][2]
             /\ query.to = IF p = <<>> THEN query.start ELSE Last(p)[2]
             /\ p # <<>> => query.to \notin Within({query.start}, graph, 1, FALSE, Len(p) - 1)
  <2>1. DOMAIN p = 1 .. Len(p) /\ Len(p) \in Nat
    OBVIOUS
  <2>2. p # <<>> => Len(p) - 1 \in Nat /\ Len(p) - 1 < Len(p)
    <3>1. p # <<>> => Len(p) # 0
      OBVIOUS
    <3> QED BY <2>1, <3>1
  <2>3. PICK k : k = Len(p) - 1
    OBVIOUS
  <2>4. p # <<>> => query.to \notin Within({query.start}, graph, 1, FALSE, k)
    BY <1>4, <1>8, <2>2, <2>3
  <2> QED BY <1>8, <2>1, <2>3, <2>4 DEF Real
<1> QED BY <1>6, <1>7, <1>8
-----------------------------------------------------------------------------
(* Depth-first walks.                                                        *)
FrameOk(f, i, r) ==
  /\ f.depth < query.depth /\ f.depth <= i - 1 /\ f.node \in Stand(r, f.depth)
  /\ f.phase = "members" => f.todo \subseteq Members(f.node) /\ query.op = "impact"
  /\ f.phase = "users" => f.todo \subseteq Follow(f.node, r)

\* What the rounds so far may find, and that the frames and the answer keep within it.
Sofar(r) == {query.start} \union UNION {Reach(k, query.depth) : k \in 1 .. r}
Sound(u, vis, nod, r) ==
  /\ \A i \in 1 .. Len(u) : FrameOk(u[i], i, r)
  /\ Len(u) <= Cardinality(vis)
  /\ nod \subseteq Sofar(r)
  /\ vis \subseteq nod \union {query.start}
  /\ query.op \in {"hierarchy", "impact"} /\ query.depth = Unlimited => nod \subseteq vis \union {query.start}

\* An edge that a frame has still to take.
HasMember(u, n, e) == \E i \in 1 .. Len(u) : u[i].node = n /\ u[i].phase = "members" /\ e \in u[i].todo
HasUser(u, n, e) == \E i \in 1 .. Len(u) : u[i].node = n /\ (u[i].phase = "members" \/ e \in u[i].todo)

\* What a visited node leads to is answered, unless one of its frames has it before it.
Complete(u, vis, nod, r) ==
  /\ query.start \in vis
  /\ query.op = "impact" => \A n \in vis : \A e \in Members(n) : Other(e, n) \in vis \/ HasMember(u, n, e)
  /\ \A n \in vis : \A e \in Follow(n, r) :
        \/ HasUser(u, n, e)
        \/ Other(e, n) \in nod \union {query.start} /\ (query.depth = Unlimited => Other(e, n) \in vis)

StoppedShort(nod) == query.op = "dfs" /\ Cardinality(nod) >= query.limit
RoundDone(k, nod) ==
  /\ query.depth >= 1 => Reach(k, 1) \subseteq nod \union {query.start}
  /\ query.depth = Unlimited => Reach(k, Unlimited) \subseteq nod \union {query.start}

DInv ==
  at # "ready" /\ Known /\ query.op \in DepthFirst =>
    /\ Sound(stack, visited, nodes, round)
    /\ StartIsIncluded => query.start \in nodes
    /\ round = 0 => visited = {}
    /\ round >= 1 /\ query.depth >= 1 /\ ~StoppedShort(nodes) /\ (query.op = "hierarchy" => round = 1)
          => Complete(stack, visited, nodes, round)
    /\ query.op = "hierarchy" /\ round = 2 => stack = <<>>
    /\ \A k \in 1 .. 2 : k < round => RoundDone(k, nodes)
    /\ at = "done" => stack = <<>> /\ round = Rounds

-----------------------------------------------------------------------------
\* What taking an edge from the top changes.
Topped(u, g, e, s) == g \in Frame /\ g = u[Len(u)] /\ TopChanged(Frame, u, Without(g, e), s)

LEMMA TakenFromTop ==
  ASSUME NEW u, NEW g, NEW e0, NEW s, Topped(u, g, e0, s), NEW n, NEW e
  PROVE  /\ HasMember(u, n, e) => HasMember(s, n, e) \/ (n = g.node /\ e = e0 /\ g.phase = "members")
         /\ HasUser(u, n, e) => HasUser(s, n, e) \/ (n = g.node /\ e = e0 /\ g.phase # "members")
<1>0. PICK f : f = Without(g, e0) /\ f.node = g.node /\ f.phase = g.phase /\ f.todo = g.todo \ {e0}
  BY WithoutIs DEF Topped
<1>1. Len(s) = Len(u) /\ \A i \in 1 .. Len(u) : s[i] = IF i = Len(u) THEN f ELSE u[i]
  BY <1>0 DEF TopChanged, Topped
<1>2. ASSUME NEW i \in 1 .. Len(u), u[i].node = n, u[i].phase = "members", e \in u[i].todo,
             ~(n = g.node /\ e = e0 /\ g.phase = "members")
      PROVE  HasMember(s, n, e)
  <2>1. s[i].node = n /\ s[i].phase = "members" /\ e \in s[i].todo /\ i \in 1 .. Len(s)
    BY <1>0, <1>1, <1>2 DEF Topped
  <2> QED BY <2>1 DEF HasMember
<1>3. ASSUME NEW i \in 1 .. Len(u), u[i].node = n, u[i].phase = "members" \/ e \in u[i].todo,
             ~(n = g.node /\ e = e0 /\ g.phase # "members")
      PROVE  HasUser(s, n, e)
  <2>1. s[i].node = n /\ (s[i].phase = "members" \/ e \in s[i].todo) /\ i \in 1 .. Len(s)
    BY <1>0, <1>1, <1>3 DEF Topped
  <2> QED BY <2>1 DEF HasUser
<1> QED BY <1>2, <1>3 DEF HasMember, HasUser

LEMMA KeptUnder ==
  ASSUME NEW u, NEW E, NEW f, NEW s, Pushed(E, u, f, s), NEW n, NEW e
  PROVE  /\ HasMember(u, n, e) => HasMember(s, n, e)
         /\ HasUser(u, n, e) => HasUser(s, n, e)
<1>1. /\ Len(s) = Len(u) + 1 /\ Len(u) \in Nat
      /\ \A i \in 1 .. Len(s) : s[i] = IF i = Len(s) THEN f ELSE u[i]
  BY DEF Pushed
<1>2. ASSUME NEW i \in 1 .. Len(u) PROVE i \in 1 .. Len(s) /\ s[i] = u[i]
  <2>1. i \in 1 .. Len(s) /\ i # Len(s)
    BY <1>1
  <2> QED BY <1>1, <2>1
<1> QED BY <1>2 DEF HasMember, HasUser

\* What TakeEdge does.
TookEdge(e, n, s, d) ==
  /\ n = Other(e, Top.node) /\ s = Append(Below, Without(Top, e))
  /\ d = IF Top.phase = "members" THEN Top.depth ELSE Top.depth + 1
  /\ \/ Seen(n) /\ stack' = s /\ UNCHANGED <<visited, nodes>>
     \/ /\ ~Seen(n) /\ nodes' = nodes \union {n} /\ visited' = visited /\ stack' = s
        /\ n \in visited \/ d >= query.depth \/ StoppedShort(nodes')
     \/ /\ ~Seen(n) /\ nodes' = nodes \union {n} /\ visited' = visited \union {n}
        /\ stack' = Append(s, FrameOf(n, d, round))
        /\ n \notin visited /\ ~(d >= query.depth) /\ ~StoppedShort(nodes')

LEMMA RecurseDoes ==
  ASSUME NEW s, NEW known, NEW answer, NEW n, NEW d, NEW r, Recurse(s, known, answer, n, d, r)
  PROVE  \/ stack' = s /\ visited' = known /\ (n \in known \/ d >= query.depth \/ StoppedShort(answer))
         \/ /\ stack' = Append(s, FrameOf(n, d, r)) /\ visited' = known \union {n}
            /\ n \notin known /\ ~(d >= query.depth) /\ ~StoppedShort(answer)
BY Zenon DEF Recurse, StoppedShort

LEMMA TakeEdgeIs ==
  ASSUME TInv, TakeEdge
  PROVE  \E e \in Top.todo : \E n, s, d : TookEdge(e, n, s, d)
<1>1. PICK e \in Top.todo :
          LET n == Other(e, Top.node)
              s == Append(Below, [Top EXCEPT !.todo = @ \ {e}])
          IN IF Seen(n)
             THEN stack' = s /\ UNCHANGED <<visited, nodes, edges>>
             ELSE /\ nodes' = nodes \union {n}
                  /\ edges' = edges \union {e}
                  /\ Recurse(s, visited, nodes', n,
                             IF Top.phase = "members" THEN Top.depth ELSE Top.depth + 1, round)
  BY DEF TakeEdge
<1>2. PICK s, n, d : /\ n = Other(e, Top.node) /\ s = Append(Below, Without(Top, e))
                     /\ d = IF Top.phase = "members" THEN Top.depth ELSE Top.depth + 1
  OBVIOUS
<1>3. \/ Seen(n) /\ stack' = s /\ UNCHANGED <<visited, nodes, edges>>
      \/ ~Seen(n) /\ nodes' = nodes \union {n} /\ Recurse(s, visited, nodes', n, d, round)
  BY <1>1, <1>2, Zenon DEF Without
<1>4. TookEdge(e, n, s, d)
  <2>1. CASE Seen(n) /\ stack' = s /\ UNCHANGED <<visited, nodes, edges>>
    BY <1>2, <2>1, Zenon DEF TookEdge
  <2>2. CASE ~Seen(n) /\ nodes' = nodes \union {n} /\ Recurse(s, visited, nodes', n, d, round)
    <3>1. PICK a : a = nodes'
      OBVIOUS
    <3>2. Recurse(s, visited, a, n, d, round)
      BY <2>2, <3>1
    <3>3. \/ stack' = s /\ visited' = visited /\ (n \in visited \/ d >= query.depth \/ StoppedShort(a))
          \/ /\ stack' = Append(s, FrameOf(n, d, round)) /\ visited' = visited \union {n}
             /\ n \notin visited /\ ~(d >= query.depth) /\ ~StoppedShort(a)
      BY <3>2, RecurseDoes, Zenon
    <3>4. \/ stack' = s /\ visited' = visited /\ (n \in visited \/ d >= query.depth \/ StoppedShort(nodes'))
          \/ /\ stack' = Append(s, FrameOf(n, d, round)) /\ visited' = visited \union {n}
             /\ n \notin visited /\ ~(d >= query.depth) /\ ~StoppedShort(nodes')
      BY <3>1, <3>3
    <3> QED BY <1>2, <2>2, <3>4, Zenon DEF TookEdge
  <2> QED BY <1>3, <2>1, <2>2
<1> QED BY <1>4
-----------------------------------------------------------------------------
LEMMA NotTooDeep ==
  ASSUME NEW vis \in SUBSET Nodes, NEW n \in Nodes, n \notin vis, NEW d \in Nat, d <= Cardinality(vis)
  PROVE  d < Unlimited
<1>1. IsFiniteSet(Nodes) /\ Unlimited \in Nat /\ Cardinality(Nodes) <= Unlimited
  BY WalksAssumption DEF WalksAssumption
<1>2. IsFiniteSet(vis) /\ IsFiniteSet(vis \union {n})
  BY <1>1, FS_Subset
<1>3. Cardinality(vis \union {n}) = Cardinality(vis) + 1 /\ Cardinality(vis) \in Nat
  BY <1>2, FS_AddElement, FS_CardinalityType
<1>4. Cardinality(vis \union {n}) <= Cardinality(Nodes) /\ Cardinality(Nodes) \in Nat
  <2>1. PICK V : V = vis \union {n} /\ V \subseteq Nodes
    OBVIOUS
  <2>2. Cardinality(V) <= Cardinality(Nodes)
    BY <1>1, <2>1, FS_Subset
  <2> QED BY <1>1, <2>1, <2>2, FS_CardinalityType
<1> QED BY <1>1, <1>3, <1>4

\* What is known of an edge from the top of the stack and the node it leads to.
EdgeTaken(f, e, n, s, d) ==
  /\ f = Top /\ f \in Frame /\ f = stack[Len(stack)] /\ FrameOk(f, Len(stack), round)
  /\ TopChanged(Frame, stack, Without(f, e), s)
  /\ n = Other(e, f.node) /\ n \in Nodes /\ d \in Nat /\ d <= Len(stack) /\ Len(stack) \in Nat
  /\ n \in Stand(round, d) /\ n \in Reach(round, query.depth)
  /\ d = IF f.phase = "members" THEN f.depth ELSE f.depth + 1
  /\ f.phase \in {"members", "users"}

LEMMA EdgeTakenIs ==
  ASSUME TInv, at = "walking", query.op \in DepthFirst, stack # <<>>, Sound(stack, visited, nodes, round),
         NEW e \in Top.todo, NEW n, NEW s, NEW d, TookEdge(e, n, s, d)
  PROVE  EdgeTaken(Top, e, n, s, d)
<1>1. IsWalk /\ RoundOf(round) /\ query.depth \in Nat
  BY WalkOf, QueryType DEF TInv, WStage, DepthFirst, IsWalk
<1>2. PICK f : f = Top
  OBVIOUS
<1>3. /\ f \in Frame /\ f = stack[Len(stack)] /\ Len(stack) \in Nat \ {0}
      /\ TopChanged(Frame, stack, Without(f, e), Append(Below, Without(f, e)))
      /\ Other(e, f.node) \in Nodes
  BY <1>2, EdgeOfTop
<1>4. FrameOk(f, Len(stack), round)
  BY <1>3 DEF Sound
<1>5. n = Other(e, f.node) /\ s = Append(Below, Without(f, e)) /\ d = IF f.phase = "members" THEN f.depth ELSE f.depth + 1
  BY <1>2 DEF TookEdge
<1>6. f.phase \in {"members", "users"} /\ f.depth \in Nat
  BY <1>3 DEF Frame
<1>7. f.depth < query.depth /\ f.depth <= Len(stack) - 1 /\ f.node \in Stand(round, f.depth)
  BY <1>4 DEF FrameOk
<1>8. d \in Nat /\ d <= Len(stack) /\ d <= query.depth
  BY <1>1, <1>3, <1>5, <1>6, <1>7
<1>9. n \in Stand(round, d) /\ n \in Reach(round, query.depth)
  <2>1. CASE f.phase = "members"
    <3>1. query.op = "impact" /\ e \in Members(f.node) /\ d = f.depth
      BY <1>2, <1>4, <1>5, <2>1 DEF FrameOk
    <3>2. n \in Stand(round, d)
      BY <1>1, <1>5, <1>6, <1>7, <3>1, MemberStands
    <3>3. n \in Reach(round, d + 1)
      BY <1>1, <1>8, <3>2, StandReaches
    <3>4. PICK c \in Nat : c = d + 1 /\ c <= query.depth
      BY <1>1, <1>6, <1>7, <3>1
    <3>5. Reach(round, c) \subseteq Reach(round, query.depth)
      BY <1>1, <3>4, ReachGrows
    <3> QED BY <3>2, <3>3, <3>4, <3>5
  <2>2. CASE f.phase = "users"
    <3>1. e \in Follow(f.node, round) /\ d = f.depth + 1
      BY <1>2, <1>4, <1>5, <2>2 DEF FrameOk
    <3>2. n \in Reach(round, d)
      BY <1>1, <1>5, <1>6, <1>7, <3>1, FollowReaches
    <3>3. Reach(round, d) \subseteq Stand(round, d) /\ Reach(round, d) \subseteq Reach(round, query.depth)
      BY <1>1, <1>8, ReachIs, ReachGrows
    <3> QED BY <3>2, <3>3
  <2> QED BY <1>6, <2>1, <2>2
<1>10. EdgeTaken(f, e, n, s, d)
  BY <1>2, <1>3, <1>4, <1>5, <1>6, <1>8, <1>9 DEF EdgeTaken
<1> QED BY <1>2, <1>10

LEMMA NewFrameOk ==
  ASSUME IsWalk, NEW r, RoundOf(r), NEW n, NEW d \in Nat, n \in Stand(r, d), ~(d >= query.depth), NEW i \in Nat, d <= i - 1
  PROVE  FrameOk(FrameOf(n, d, r), i, r)
<1>1. query.depth \in Nat
  BY QueryType DEF IsWalk
<1>2. d < query.depth
  BY <1>1
<1> QED BY <1>2 DEF FrameOk, FrameOf

LEMMA SomeDeepen ==
  ASSUME TInv, at = "walking", query.op \in DepthFirst, stack # <<>>, Sound(stack, visited, nodes, round),
         NEW e \in Top.todo, NEW n, NEW s, NEW d, TookEdge(e, n, s, d)
  PROVE  Sound(stack', visited', nodes', round)
<1>1. IsWalk /\ RoundOf(round) /\ query.depth \in Nat /\ visited \in SUBSET Nodes /\ stack \in Seq(Frame) /\ round \in 1 .. 2
  BY WalkOf, QueryType DEF TInv, WStage, WType, DepthFirst, IsWalk
<1>2. EdgeTaken(Top, e, n, s, d)
  BY EdgeTakenIs
<1>3. PICK f : f = Top /\ EdgeTaken(f, e, n, s, d)
  BY <1>2
<1>4. /\ s \in Seq(Frame) /\ Len(s) = Len(stack) /\ Len(stack) \in Nat /\ d \in Nat /\ d <= Len(stack)
      /\ \A i \in 1 .. Len(stack) : s[i] = IF i = Len(stack) THEN Without(f, e) ELSE stack[i]
  BY <1>3 DEF EdgeTaken, TopChanged
<1>5. FrameOk(Without(f, e), Len(stack), round)
  <2>1. f \in Frame /\ FrameOk(f, Len(stack), round)
    BY <1>3 DEF EdgeTaken
  <2>2. PICK g : g = Without(f, e) /\ g.node = f.node /\ g.depth = f.depth /\ g.phase = f.phase /\ g.todo = f.todo \ {e}
    BY <2>1, WithoutIs
  <2> QED BY <2>1, <2>2 DEF FrameOk
<1>6. \A i \in 1 .. Len(s) : FrameOk(s[i], i, round)
  BY <1>4, <1>5 DEF Sound
<1>7. /\ Len(stack) <= Cardinality(visited) /\ nodes \subseteq Sofar(round) /\ visited \subseteq nodes \union {query.start}
      /\ query.op \in {"hierarchy", "impact"} /\ query.depth = Unlimited => nodes \subseteq visited \union {query.start}
  BY DEF Sound
<1>8. n \in Sofar(round) /\ n \in Nodes /\ n \in Stand(round, d)
  <2>1. n \in Reach(round, query.depth) /\ n \in Nodes /\ n \in Stand(round, d)
    BY <1>3 DEF EdgeTaken
  <2>2. round \in 1 .. round
    BY <1>1
  <2> QED BY <2>1, <2>2 DEF Sofar
<1>9. IsFiniteSet(visited) /\ Cardinality(visited) \in Nat
  BY <1>1, WalksAssumption, FS_Subset, FS_CardinalityType DEF WalksAssumption
<1>10. CASE stack' = s /\ visited' = visited /\ nodes' = nodes
  BY <1>4, <1>6, <1>7, <1>10 DEF Sound
<1>11. CASE /\ stack' = s /\ visited' = visited /\ nodes' = nodes \union {n}
            /\ n \in visited \/ d >= query.depth \/ StoppedShort(nodes')
  <2>1. nodes' \subseteq Sofar(round) /\ visited' \subseteq nodes' \union {query.start}
    BY <1>7, <1>8, <1>11
  <2>2. ASSUME query.op \in {"hierarchy", "impact"}, query.depth = Unlimited PROVE nodes' \subseteq visited' \union {query.start}
    <3>1. n \in visited
      <4> SUFFICES ASSUME n \notin visited PROVE FALSE
        OBVIOUS
      <4>1. d >= Unlimited
        BY <1>11, <2>2 DEF StoppedShort
      <4>2. d <= Cardinality(visited)
        BY <1>4, <1>7, <1>9
      <4>3. d < Unlimited
        BY <1>1, <1>4, <1>8, <4>2, NotTooDeep
      <4>4. Unlimited \in Nat
        BY WalksAssumption DEF WalksAssumption
      <4> QED BY <1>4, <4>1, <4>3, <4>4
    <3> QED BY <1>7, <1>11, <2>2, <3>1
  <2>3. Len(stack') <= Cardinality(visited') /\ \A i \in 1 .. Len(stack') : FrameOk(stack'[i], i, round)
    BY <1>4, <1>6, <1>7, <1>11
  <2> QED BY <2>1, <2>2, <2>3 DEF Sound
<1>12. CASE /\ nodes' = nodes \union {n} /\ visited' = visited \union {n}
            /\ stack' = Append(s, FrameOf(n, d, round)) /\ n \notin visited /\ ~(d >= query.depth)
  <2>1. nodes' \subseteq Sofar(round) /\ visited' \subseteq nodes' \union {query.start}
    BY <1>7, <1>8, <1>12
  <2>2. query.op \in {"hierarchy", "impact"} /\ query.depth = Unlimited => nodes' \subseteq visited' \union {query.start}
    BY <1>7, <1>12
  <2>3. PICK x \in Frame : x = FrameOf(n, d, round)
    BY <1>1, <1>4, <1>8, FrameType
  <2>4. Pushed(Frame, s, x, stack')
    BY <1>4, <1>12, <2>3, Push
  <2>5. /\ Len(stack') = Len(s) + 1
        /\ \A i \in 1 .. Len(stack') : stack'[i] = IF i = Len(stack') THEN x ELSE s[i]
        /\ \A i \in 1 .. Len(stack') : i = Len(stack') \/ i \in 1 .. Len(s)
    BY <2>4 DEF Pushed
  <2>6. Cardinality(visited') = Cardinality(visited) + 1
    BY <1>9, <1>12, FS_AddElement
  <2>7. Len(stack') <= Cardinality(visited')
    BY <1>4, <1>7, <1>9, <2>5, <2>6
  <2>8. FrameOk(x, Len(stack'), round)
    <3>1. PICK i \in Nat : i = Len(stack') /\ d <= i - 1
      <4>1. Len(stack') \in Nat /\ d <= Len(stack') - 1
        BY <1>4, <2>5
      <4> QED BY <4>1
    <3> QED BY <1>1, <1>4, <1>8, <1>12, <2>3, <3>1, NewFrameOk
  <2>9. \A i \in 1 .. Len(stack') : FrameOk(stack'[i], i, round)
    BY <1>6, <2>5, <2>8
  <2> QED BY <2>1, <2>2, <2>7, <2>9 DEF Sound
<1> QED BY <1>10, <1>11, <1>12 DEF TookEdge
-----------------------------------------------------------------------------
\* What the frames have still to take, after an edge is taken.
LEMMA StillToTake ==
  ASSUME TInv, NEW f, NEW e0, NEW n, NEW s, NEW d, EdgeTaken(f, e0, n, s, d), stack # <<>>,
         NEW x \in Frame, stack' = s \/ stack' = Append(s, x), NEW m, NEW e
  PROVE  /\ HasMember(stack, m, e) => HasMember(stack', m, e) \/ (m = f.node /\ e = e0 /\ f.phase = "members")
         /\ HasUser(stack, m, e) => HasUser(stack', m, e) \/ (m = f.node /\ e = e0 /\ f.phase # "members")
<1>1. f \in Frame /\ f = stack[Len(stack)] /\ TopChanged(Frame, stack, Without(f, e0), s) /\ stack \in Seq(Frame)
  BY DEF EdgeTaken, TInv, WType
<1>3. PICK u \in Seq(Frame) : u = stack
  BY <1>1
<1>4. /\ HasMember(u, m, e) => HasMember(s, m, e) \/ (m = f.node /\ e = e0 /\ f.phase = "members")
      /\ HasUser(u, m, e) => HasUser(s, m, e) \/ (m = f.node /\ e = e0 /\ f.phase # "members")
  <2>1. Topped(u, f, e0, s)
    BY <1>1, <1>3 DEF Topped
  <2> QED BY <2>1, TakenFromTop
<1>5. s \in Seq(Frame)
  BY <1>1 DEF TopChanged
<1>6. PICK u2 : u2 = stack'
  OBVIOUS
<1>7. (HasMember(s, m, e) => HasMember(u2, m, e)) /\ (HasUser(s, m, e) => HasUser(u2, m, e))
  <2>1. CASE u2 = s
    BY <2>1
  <2>2. CASE u2 = Append(s, x)
    <3>1. Pushed(Frame, s, x, u2)
      BY <1>5, <2>2, Push
    <3> QED BY <3>1, KeptUnder
  <2> QED BY <1>6, <2>1, <2>2
<1> QED BY <1>3, <1>4, <1>6, <1>7

LEMMA TakingCompletes ==
  ASSUME TInv, at = "walking", query.op \in DepthFirst, stack # <<>>, Sound(stack, visited, nodes, round),
         NEW e0 \in Top.todo, NEW n, NEW s, NEW d, TookEdge(e0, n, s, d),
         Complete(stack, visited, nodes, round), ~StoppedShort(nodes')
  PROVE  Complete(stack', visited', nodes', round)
<1>1. IsWalk /\ RoundOf(round) /\ query.depth \in Nat /\ visited \in SUBSET Nodes /\ stack \in Seq(Frame)
  BY WalkOf, QueryType DEF TInv, WStage, WType, DepthFirst, IsWalk
<1>2. EdgeTaken(Top, e0, n, s, d)
  BY EdgeTakenIs
<1>3. PICK f : f = Top /\ EdgeTaken(f, e0, n, s, d)
  BY <1>2
<1>4. /\ f \in Frame /\ s \in Seq(Frame) /\ Len(s) = Len(stack) /\ d \in Nat /\ d <= Len(stack)
      /\ n \in Nodes /\ n = Other(e0, f.node) /\ FrameOk(f, Len(stack), round) /\ f.phase \in {"members", "users"}
      /\ d = IF f.phase = "members" THEN f.depth ELSE f.depth + 1
  BY <1>3 DEF EdgeTaken, TopChanged
<1>5. PICK x \in Frame : x = FrameOf(n, d, round) /\ x.node = n
  BY <1>1, <1>4, FrameType
<1>6. /\ stack' = s \/ stack' = Append(s, x)
      /\ visited \subseteq visited' /\ nodes \subseteq nodes' /\ visited' \subseteq visited \union {n}
      /\ visited' # visited => stack' = Append(s, x)
  BY <1>5 DEF TookEdge
<1>7. query.start \in visited /\ query.start \in visited'
  BY <1>6 DEF Complete
<1>8. /\ visited \subseteq nodes \union {query.start} /\ Len(stack) <= Cardinality(visited)
      /\ query.op \in {"hierarchy", "impact"} /\ query.depth = Unlimited => nodes \subseteq visited \union {query.start}
  BY DEF Sound
<1>9. ASSUME f.phase = "members" PROVE n \in visited'
  <2>1. query.op = "impact" /\ d < query.depth /\ d = f.depth
    BY <1>4, <1>9 DEF FrameOk
  <2>2. Seen(n) => n \in visited
    BY <1>3, <1>9, <2>1 DEF Seen
  <2>3. ~(d >= query.depth)
    BY <1>1, <1>4, <2>1
  <2> QED BY <1>6, <2>2, <2>3 DEF TookEdge
<1>10. n \in nodes' \union {query.start}
  <2>1. Seen(n) => n \in nodes \/ n \in visited
    BY DEF Seen
  <2> QED BY <1>6, <1>8, <2>1 DEF TookEdge
<1>11. ASSUME query.depth = Unlimited, f.phase # "members" PROVE n \in visited'
  <2>1. CASE Seen(n)
    <3>1. query.op \in {"hierarchy", "impact"} => n \in visited
      BY <1>7, <1>8, <1>9, <1>11, <2>1, <1>3, <1>4 DEF Seen
    <3>2. query.op \notin {"hierarchy", "impact"} => n \in visited
      BY <2>1 DEF Seen
    <3> QED BY <1>6, <3>1, <3>2
  <2>2. CASE ~Seen(n)
    <3> SUFFICES ASSUME n \notin visited' PROVE FALSE
      OBVIOUS
    <3>1. n \notin visited
      BY <1>6
    <3>2. d >= Unlimited
      BY <1>11, <2>2, <3>1 DEF TookEdge
    <3>3. d <= Cardinality(visited)
      <4>1. Cardinality(visited) \in Nat /\ Len(stack) \in Nat
        BY <1>1, WalksAssumption, FS_Subset, FS_CardinalityType DEF WalksAssumption
      <4> QED BY <1>4, <1>8, <4>1
    <3>4. d < Unlimited
      BY <1>1, <1>4, <3>1, <3>3, NotTooDeep
    <3>5. Unlimited \in Nat
      BY WalksAssumption DEF WalksAssumption
    <3> QED BY <1>4, <3>2, <3>4, <3>5
  <2> QED BY <2>1, <2>2
<1>12. ASSUME visited' # visited
       PROVE  /\ \A e \in Follow(n, round) : HasUser(stack', n, e)
              /\ query.op = "impact" => \A e \in Members(n) : HasMember(stack', n, e)
  <2>1. Pushed(Frame, s, x, stack')
    BY <1>4, <1>6, <1>12, Push
  <2>2. PICK k : k = Len(stack') /\ k \in 1 .. Len(stack') /\ stack'[k] = x
    BY <1>4, <2>1 DEF Pushed
  <2>3. query.op = "impact" => x.phase = "members" /\ x.todo = Members(n)
    BY <1>5 DEF FrameOf
  <2>4. query.op # "impact" => x.todo = Follow(n, round)
    BY <1>5 DEF FrameOf
  <2> QED BY <1>5, <2>2, <2>3, <2>4 DEF HasUser, HasMember
<1>13. ASSUME query.op = "impact", NEW m \in visited', NEW e \in Members(m)
       PROVE  Other(e, m) \in visited' \/ HasMember(stack', m, e)
  <2>1. CASE m \in visited
    <3>1. Other(e, m) \in visited \/ HasMember(stack, m, e)
      BY <1>13, <2>1 DEF Complete
    <3>2. HasMember(stack, m, e) => HasMember(stack', m, e) \/ (m = f.node /\ e = e0 /\ f.phase = "members")
      BY <1>3, <1>6, StillToTake
    <3> QED BY <1>4, <1>6, <1>9, <3>1, <3>2
  <2>2. CASE m \notin visited
    BY <1>6, <1>12, <1>13, <2>2
  <2> QED BY <2>1, <2>2
<1>14. ASSUME NEW m \in visited', NEW e \in Follow(m, round)
       PROVE  \/ HasUser(stack', m, e)
              \/ Other(e, m) \in nodes' \union {query.start} /\ (query.depth = Unlimited => Other(e, m) \in visited')
  <2>1. CASE m \in visited
    <3>1. \/ HasUser(stack, m, e)
          \/ Other(e, m) \in nodes \union {query.start} /\ (query.depth = Unlimited => Other(e, m) \in visited)
      BY <2>1 DEF Complete
    <3>2. HasUser(stack, m, e) => HasUser(stack', m, e) \/ (m = f.node /\ e = e0 /\ f.phase # "members")
      BY <1>3, <1>6, StillToTake
    <3> QED BY <1>4, <1>6, <1>10, <1>11, <3>1, <3>2
  <2>2. CASE m \notin visited
    BY <1>6, <1>12, <2>2
  <2> QED BY <2>1, <2>2
<1> QED BY <1>7, <1>13, <1>14 DEF Complete
-----------------------------------------------------------------------------
LEMMA NextSound ==
  ASSUME graph' = graph, query' = query, Sound(stack', visited', nodes', round')
  PROVE  Sound(stack, visited, nodes, round)'
<1>1. /\ \A r, d : Reach(r, d)' = Reach(r, d) /\ Stand(r, d)' = Stand(r, d)
      /\ \A n, r : Follow(n, r)' = Follow(n, r) /\ Members(n)' = Members(n)
  BY SameReach, SameFollow
<1>2. \A f, i, r : FrameOk(f, i, r)' <=> FrameOk(f, i, r)
  BY <1>1, Zenon DEF FrameOk
<1>3. \A r : Sofar(r)' = Sofar(r)
  BY <1>1, Zenon DEF Sofar
<1> QED BY <1>2, <1>3 DEF Sound

LEMMA NextComplete ==
  ASSUME graph' = graph, query' = query, Complete(stack', visited', nodes', round')
  PROVE  Complete(stack, visited, nodes, round)'
<1>1. \A n, r : Follow(n, r)' = Follow(n, r) /\ Members(n)' = Members(n)
  BY SameFollow
<1> QED BY <1>1 DEF Complete

LEMMA NextRoundDone ==
  ASSUME graph' = graph, query' = query
  PROVE  \A k, nod : RoundDone(k, nod)' <=> RoundDone(k, nod)
<1>1. \A r, d : Reach(r, d)' = Reach(r, d)
  BY SameReach
<1> QED BY <1>1, Zenon DEF RoundDone

LEMMA UnlimitedIs == ASSUME query.start \in Nodes PROVE Unlimited \in Nat /\ Unlimited >= 1
<1>1. IsFiniteSet(Nodes) /\ Unlimited \in Nat /\ Cardinality(Nodes) <= Unlimited
  BY WalksAssumption DEF WalksAssumption
<1>2. Cardinality(Nodes) \in Nat /\ Cardinality(Nodes) # 0
  BY <1>1, FS_CardinalityType, FS_EmptySet
<1> QED BY <1>1, <1>2

\* When the stack is empty, what the round should answer is answered.
LEMMA RoundCompletes ==
  ASSUME IsWalk, query.op \in DepthFirst, NEW r, RoundOf(r), NEW vis \in SUBSET Nodes, NEW nod,
         vis \subseteq nod \union {query.start}, Complete(<<>>, vis, nod, r)
  PROVE  RoundDone(r, nod)
<1>1. \A n, e : ~HasUser(<<>>, n, e) /\ ~HasMember(<<>>, n, e)
  <2>1. \A i \in 1 .. Len(<<>>) : FALSE
    OBVIOUS
  <2> QED BY <2>1 DEF HasUser, HasMember
<1>2. query.start \in vis /\ (query.op = "impact" => \A n \in vis : \A e \in Members(n) : Other(e, n) \in vis)
  BY <1>1 DEF Complete
<1>3. \A n \in vis : \A e \in Follow(n, r) :
         Other(e, n) \in nod \union {query.start} /\ (query.depth = Unlimited => Other(e, n) \in vis)
  BY <1>1 DEF Complete
<1>4. Stand(r, 0) \subseteq vis
  <2>1. Reach(r, 0) = {query.start}
    BY ReachIs
  <2>2. CASE query.op # "impact"
    BY <1>2, <2>1, <2>2 DEF Stand
  <2>3. CASE query.op = "impact"
    <3>1. Lead(r) \in SUBSET Relations /\ Lead(r) \subseteq graph /\ {query.start} \in SUBSET Nodes /\ {query.start} \subseteq vis
      BY <1>2, LeadType
    <3>2. MembersIn(Lead(r), vis)
      <4> SUFFICES ASSUME NEW n \in vis, NEW e \in Lead(r), e[1] = n, e[1] \in Containers, e[3] = "contains" PROVE e[2] \in vis
        BY DEF MembersIn, Contained
      <4>1. e \in Members(n) /\ Other(e, n) = e[2]
        BY <3>1 DEF Members, Out, Other
      <4> QED BY <1>2, <2>3, <4>1
    <3>3. WithMembers(Lead(r), {query.start}) \subseteq vis
      BY <3>1, <3>2, WithMembersLeast
    <3> QED BY <2>1, <2>3, <3>3 DEF Stand
  <2> QED BY <2>2, <2>3
<1>5. Reach(r, 1) \subseteq nod \union {query.start}
  <2> SUFFICES ASSUME NEW m \in Reach(r, 1) PROVE m \in nod \union {query.start}
    OBVIOUS
  <2>1. PICK z \in Nat : z = 0
    OBVIOUS
  <2>2. m \in Reach(r, z + 1)
    <3>1. z + 1 = 1
      BY <2>1
    <3> QED BY <3>1
  <2>3. m \in Stand(r, z) \/ \E n \in Stand(r, z) : \E e \in Follow(n, r) : Other(e, n) = m
    BY <2>2, ReachIsFollowed
  <2> QED BY <1>3, <1>4, <2>1, <2>3
<1>6. ASSUME query.depth = Unlimited PROVE Reach(r, Unlimited) \subseteq nod \union {query.start}
  <2>1. \A n \in vis : \A e \in Follow(n, r) : Other(e, n) \in vis
    BY <1>3, <1>6
  <2>2. Unlimited \in Nat
    BY WalksAssumption DEF WalksAssumption
  <2>3. Reach(r, Unlimited) \subseteq vis
    BY <1>2, <2>1, <2>2, NothingLeftOut
  <2> QED BY <2>3
<1> QED BY <1>5, <1>6 DEF RoundDone
-----------------------------------------------------------------------------
LEMMA UsersKeep ==
  ASSUME TInv, at = "walking", query.op \in DepthFirst, WalkUsers, Sound(stack, visited, nodes, round)
  PROVE  /\ Sound(stack', visited', nodes', round)
         /\ Complete(stack, visited, nodes, round) => Complete(stack', visited', nodes', round)
<1>1. /\ IsWalk /\ RoundOf(round) /\ stack \in Seq(Frame) /\ stack # <<>>
      /\ UNCHANGED <<visited, nodes>> /\ Top.todo = {} /\ Top.phase = "members"
  BY WalkOf DEF TInv, WStage, WType, DepthFirst, WalkUsers
<1>2. PICK f \in Frame : f = Top /\ f = stack[Len(stack)] /\ Len(stack) \in Nat \ {0}
  BY <1>1, TopIsLast DEF Top
<1>3. PICK H \in SUBSET graph : H = Follow(f.node, round)
  BY <1>1, FollowType
<1>4. PICK x \in Frame : x = UsersNext(f, H) /\ x.node = f.node /\ x.depth = f.depth /\ x.phase = "users" /\ x.todo = H
  BY UsersNextIs
<1>5. stack' = Append(Below, x)
  BY <1>2, <1>3, <1>4, Zenon DEF WalkUsers, UsersNext
<1>6. TopChanged(Frame, stack, x, stack')
  BY <1>1, <1>5, ChangeTop DEF Below
<1>7. /\ Len(stack') = Len(stack)
      /\ \A i \in 1 .. Len(stack) : stack'[i] = IF i = Len(stack) THEN x ELSE stack[i]
  BY <1>6 DEF TopChanged
<1>8. FrameOk(f, Len(stack), round)
  BY <1>2 DEF Sound
<1>9. FrameOk(x, Len(stack), round)
  BY <1>3, <1>4, <1>8 DEF FrameOk
<1>10. Sound(stack', visited', nodes', round)
  BY <1>1, <1>7, <1>9 DEF Sound
<1>11. f.todo = {} /\ f.phase = "members"
  BY <1>1, <1>2
<1>12. \A m, e : HasMember(stack, m, e) => HasMember(stack', m, e)
  <2> SUFFICES ASSUME NEW m, NEW e, NEW i \in 1 .. Len(stack), stack[i].node = m, stack[i].phase = "members", e \in stack[i].todo
               PROVE  HasMember(stack', m, e)
    BY DEF HasMember
  <2>1. i # Len(stack)
    BY <1>2, <1>11
  <2>2. stack'[i] = stack[i] /\ i \in 1 .. Len(stack')
    BY <1>7, <2>1
  <2> QED BY <2>2 DEF HasMember
<1>13. \A m : \A e \in Follow(m, round) : HasUser(stack, m, e) => HasUser(stack', m, e)
  <2> SUFFICES ASSUME NEW m, NEW e \in Follow(m, round), NEW i \in 1 .. Len(stack), stack[i].node = m,
                      stack[i].phase = "members" \/ e \in stack[i].todo
               PROVE  HasUser(stack', m, e)
    BY DEF HasUser
  <2>1. CASE i # Len(stack)
    <3>1. stack'[i] = stack[i] /\ i \in 1 .. Len(stack')
      BY <1>7, <2>1
    <3> QED BY <3>1 DEF HasUser
  <2>2. CASE i = Len(stack)
    <3>1. stack'[i] = x /\ i \in 1 .. Len(stack') /\ m = x.node /\ e \in x.todo
      BY <1>2, <1>3, <1>4, <1>7, <2>2
    <3> QED BY <3>1 DEF HasUser
  <2> QED BY <2>1, <2>2
<1>14. Complete(stack, visited, nodes, round) => Complete(stack', visited', nodes', round)
  BY <1>1, <1>12, <1>13 DEF Complete
<1> QED BY <1>10, <1>14

LEMMA ReturnKeeps ==
  ASSUME TInv, at = "walking", query.op \in DepthFirst, ReturnToCaller, Sound(stack, visited, nodes, round)
  PROVE  /\ Sound(stack', visited', nodes', round)
         /\ Complete(stack, visited, nodes, round) => Complete(stack', visited', nodes', round)
<1>1. /\ stack \in Seq(Frame) /\ stack # <<>> /\ stack' = Front(stack)
      /\ UNCHANGED <<visited, nodes>> /\ Top.todo = {} /\ Top.phase = "users" /\ visited \in SUBSET Nodes
  BY DEF TInv, WType, ReturnToCaller, Below
<1>2. /\ Len(stack) \in Nat \ {0} /\ Last(stack) = stack[Len(stack)]
      /\ Len(stack') = Len(stack) - 1
      /\ \A i \in 1 .. (Len(stack) - 1) : stack'[i] = stack[i]
  BY <1>1, TopIsLast
<1>3. stack[Len(stack)].todo = {} /\ stack[Len(stack)].phase = "users"
  BY <1>1, <1>2 DEF Top
<1>4. Cardinality(visited) \in Nat
  BY <1>1, WalksAssumption, FS_Subset, FS_CardinalityType DEF WalksAssumption
<1>5. \A i \in 1 .. Len(stack') : i \in 1 .. Len(stack) /\ stack'[i] = stack[i]
  BY <1>2
<1>6. Len(stack') <= Cardinality(visited')
  <2>1. Len(stack) <= Cardinality(visited)
    BY DEF Sound
  <2> QED BY <1>1, <1>2, <1>4, <2>1
<1>7. Sound(stack', visited', nodes', round)
  BY <1>1, <1>5, <1>6 DEF Sound
<1>8. \A i \in 1 .. Len(stack) : i = Len(stack) \/ (i \in 1 .. Len(stack') /\ stack'[i] = stack[i])
  BY <1>2
<1>9. \A m, e : /\ HasMember(stack, m, e) => HasMember(stack', m, e)
                /\ HasUser(stack, m, e) => HasUser(stack', m, e)
  BY <1>3, <1>8 DEF HasMember, HasUser
<1>10. Complete(stack, visited, nodes, round) => Complete(stack', visited', nodes', round)
  BY <1>1, <1>9 DEF Complete
<1> QED BY <1>7, <1>10

\* A round that begins, with `known` visited before.
LEMMA RoundBegins ==
  ASSUME TInv, at = "walking", query.op \in DepthFirst, IsWalk, NEW r, RoundOf(r), round' = r, r = round + 1,
         NEW known \in SUBSET Nodes, Recurse(<<>>, known, nodes, query.start, 0, r), nodes' = nodes,
         nodes \subseteq Sofar(round), known \subseteq nodes \union {query.start},
         query.op \in {"hierarchy", "impact"} /\ query.depth = Unlimited => nodes \subseteq known \union {query.start}
  PROVE  /\ Sound(stack', visited', nodes', r)
         /\ known = {} /\ query.depth >= 1 /\ ~StoppedShort(nodes') => Complete(stack', visited', nodes', r)
         /\ query.start \in known => stack' = <<>>
<1>1. query.depth \in Nat /\ round \in 0 .. 2 /\ r \in Nat
  BY QueryType DEF IsWalk, TInv, WType
<1>2. \/ stack' = <<>> /\ visited' = known /\ (query.start \in known \/ 0 >= query.depth \/ StoppedShort(nodes))
      \/ /\ stack' = Append(<<>>, FrameOf(query.start, 0, r)) /\ visited' = known \union {query.start}
         /\ query.start \notin known /\ ~(0 >= query.depth) /\ ~StoppedShort(nodes)
  <2>1. PICK s, ans, n, d : s = <<>> /\ ans = nodes /\ n = query.start /\ d = 0
    OBVIOUS
  <2>2. Recurse(s, known, ans, n, d, r)
    BY <2>1
  <2>3. \/ stack' = s /\ visited' = known /\ (n \in known \/ d >= query.depth \/ StoppedShort(ans))
        \/ /\ stack' = Append(s, FrameOf(n, d, r)) /\ visited' = known \union {n}
           /\ n \notin known /\ ~(d >= query.depth) /\ ~StoppedShort(ans)
    BY <2>2, Zenon DEF Recurse, StoppedShort
  <2> QED BY <2>1, <2>3
<1>3. nodes \subseteq Sofar(r)
  <2>1. \A k \in 1 .. round : k \in 1 .. r
    BY <1>1
  <2> QED BY <2>1 DEF Sofar
<1>4. IsFiniteSet(known) /\ Cardinality(known) \in Nat
  BY WalksAssumption, FS_Subset, FS_CardinalityType DEF WalksAssumption
<1>5. CASE stack' = <<>> /\ visited' = known /\ (query.start \in known \/ 0 >= query.depth \/ StoppedShort(nodes))
  <2>1. Len(stack') = 0
    BY <1>5
  <2>2. Len(stack') <= Cardinality(visited') /\ \A i \in 1 .. Len(stack') : FALSE
    BY <1>4, <1>5, <2>1
  <2>3. Sound(stack', visited', nodes', r)
    BY <1>3, <1>5, <2>2 DEF Sound
  <2>4. ~(known = {} /\ query.depth >= 1 /\ ~StoppedShort(nodes'))
    BY <1>1, <1>5
  <2> QED BY <1>5, <2>3, <2>4
<1>6. CASE /\ stack' = Append(<<>>, FrameOf(query.start, 0, r)) /\ visited' = known \union {query.start}
           /\ query.start \notin known /\ ~(0 >= query.depth) /\ ~StoppedShort(nodes)
  <2>1. PICK x : x = FrameOf(query.start, 0, r)
    OBVIOUS
  <2>2. Len(stack') = 1 /\ stack'[1] = x /\ 1 \in 1 .. Len(stack') /\ \A i \in 1 .. Len(stack') : i = 1
    BY <1>6, <2>1
  <2>3. x.node = query.start /\ (query.op = "impact" => x.phase = "members" /\ x.todo = Members(query.start))
        /\ (query.op # "impact" => x.phase = "users" /\ x.todo = Follow(query.start, r))
    BY <2>1 DEF FrameOf
  <2>4. query.start \in Stand(r, 0)
    BY ReachIs
  <2>5. FrameOk(x, 1, r)
    <3>1. PICK z \in Nat : z = 0
      OBVIOUS
    <3>2. PICK i \in Nat : i = 1 /\ z <= i - 1
      BY <3>1
    <3> QED BY <1>6, <2>1, <2>4, <3>1, <3>2, NewFrameOk
  <2>6. Cardinality(visited') = Cardinality(known) + 1
    BY <1>4, <1>6, FS_AddElement
  <2>7. Sound(stack', visited', nodes', r)
    <3>1. Len(stack') <= Cardinality(visited')
      BY <1>4, <2>2, <2>6
    <3>2. \A i \in 1 .. Len(stack') : FrameOk(stack'[i], i, r)
      BY <2>2, <2>5
    <3> QED BY <1>3, <1>6, <3>1, <3>2 DEF Sound
  <2>8. /\ \A e \in Follow(query.start, r) : HasUser(stack', query.start, e)
        /\ query.op = "impact" => \A e \in Members(query.start) : HasMember(stack', query.start, e)
    BY <2>2, <2>3 DEF HasUser, HasMember
  <2>9. known = {} => Complete(stack', visited', nodes', r)
    BY <1>6, <2>8 DEF Complete
  <2> QED BY <1>6, <2>7, <2>9
<1> QED BY <1>2, <1>5, <1>6
-----------------------------------------------------------------------------
LEMMA SoundParts ==
  ASSUME TInv, DInv, at = "walking", query.op \in DepthFirst
  PROVE  /\ Known /\ at # "ready" /\ query.op \in Walks /\ IsWalk /\ query.depth \in Nat
         /\ Sound(stack, visited, nodes, round) /\ (StartIsIncluded => query.start \in nodes)
         /\ (round = 0 => visited = {})
         /\ round >= 1 /\ query.depth >= 1 /\ ~StoppedShort(nodes) /\ (query.op = "hierarchy" => round = 1)
               => Complete(stack, visited, nodes, round)
         /\ (query.op = "hierarchy" /\ round = 2 => stack = <<>>)
         /\ \A k \in 1 .. 2 : k < round => RoundDone(k, nodes)
         /\ round \in 0 .. Rounds /\ Rounds \in {1, 2} /\ (stack # <<>> => round >= 1 /\ RoundOf(round))
         /\ visited \in SUBSET Nodes /\ stack \in Seq(Frame) /\ nodes \in SUBSET Nodes
<1>1. Known /\ at # "ready" /\ query.op \in Walks
  BY DEF TInv, WStage, DepthFirst
<1>2. IsWalk /\ (round >= 1 => RoundOf(round))
  BY <1>1, WalkOf
<1>3. query.depth \in Nat /\ Rounds \in {1, 2} /\ (stack # <<>> => round >= 1)
  BY <1>2, QueryType DEF IsWalk, Rounds, TInv, WStage
<1>4. round \in 0 .. Rounds /\ visited \in SUBSET Nodes /\ stack \in Seq(Frame) /\ nodes \in SUBSET Nodes
  BY DEF TInv, WType, WStage
<1> QED BY <1>1, <1>2, <1>3, <1>4, Zenon DEF DInv

\* What a step must keep.
LEMMA KeepsD ==
  ASSUME graph' = graph, query' = query, at' = "walking",
         Sound(stack', visited', nodes', round'), StartIsIncluded => query.start \in nodes',
         round' # 0,
         round' >= 1 /\ query.depth >= 1 /\ ~StoppedShort(nodes') /\ (query.op = "hierarchy" => round' = 1)
               => Complete(stack', visited', nodes', round'),
         query.op = "hierarchy" /\ round' = 2 => stack' = <<>>,
         \A k \in 1 .. 2 : k < round' => RoundDone(k, nodes')
  PROVE  DInv'
<1>1. Sound(stack, visited, nodes, round)'
  BY NextSound
<1>2. (StartIsIncluded => query.start \in nodes)'
  BY DEF StartIsIncluded
<1>3. ASSUME (round >= 1 /\ query.depth >= 1 /\ ~StoppedShort(nodes) /\ (query.op = "hierarchy" => round = 1))'
      PROVE  Complete(stack, visited, nodes, round)'
  <2>1. ~StoppedShort(nodes')
    BY <1>3 DEF StoppedShort
  <2>2. Complete(stack', visited', nodes', round')
    BY <1>3, <2>1
  <2> QED BY <2>2, NextComplete
<1>4. \A k, nod : RoundDone(k, nod)' <=> RoundDone(k, nod)
  BY NextRoundDone
<1>5. (\A k \in 1 .. 2 : k < round => RoundDone(k, nodes))'
  <2>1. PICK nod : nod = nodes'
    OBVIOUS
  <2>2. \A k \in 1 .. 2 : k < round' => RoundDone(k, nod)'
    BY <1>4, <2>1
  <2> QED BY <2>1, <2>2 DEF RoundDone
<1>6. (query.op = "hierarchy" /\ round = 2 => stack = <<>>)' /\ (round # 0)' /\ (at # "done")'
  OBVIOUS
<1> QED BY <1>1, <1>2, <1>3, <1>5, <1>6 DEF DInv

LEMMA LaterRounds ==
  ASSUME NEW k, NEW nod, NEW nod2, nod \subseteq nod2, RoundDone(k, nod) PROVE RoundDone(k, nod2)
BY DEF RoundDone

LEMMA StackD ==
  ASSUME TInv, DInv, TakeEdge \/ WalkUsers \/ ReturnToCaller, query.op \in DepthFirst PROVE DInv'
<1>1. at = "walking" /\ stack # <<>> /\ UNCHANGED <<graph, query, at, round>>
  BY DEF TakeEdge, WalkUsers, ReturnToCaller
<1>2. /\ Sound(stack, visited, nodes, round) /\ (StartIsIncluded => query.start \in nodes)
      /\ round >= 1 /\ query.depth >= 1 /\ ~StoppedShort(nodes) /\ (query.op = "hierarchy" => round = 1)
               => Complete(stack, visited, nodes, round)
      /\ ~(query.op = "hierarchy" /\ round = 2)
      /\ \A k \in 1 .. 2 : k < round => RoundDone(k, nodes)
      /\ round # 0 /\ nodes \in SUBSET Nodes
  BY <1>1, SoundParts
<1>3. CASE TakeEdge
  <2>1. PICK e \in Top.todo : \E n, s, d : TookEdge(e, n, s, d)
    BY <1>3, TakeEdgeIs
  <2>2. PICK n, s, d : TookEdge(e, n, s, d)
    BY <2>1
  <2>3. Sound(stack', visited', nodes', round)
    BY <1>1, <1>2, <2>2, SomeDeepen
  <2>4. nodes \subseteq nodes' /\ nodes' \subseteq nodes \union {n}
    BY <2>2 DEF TookEdge
  <2>5. StoppedShort(nodes) => StoppedShort(nodes')
    <3>1. PICK N2 : N2 = nodes'
      OBVIOUS
    <3>2. IsFiniteSet(nodes) /\ IsFiniteSet(N2)
      <4>1. IsFiniteSet(nodes)
        BY <1>2, WalksAssumption, FS_Subset DEF WalksAssumption
      <4>2. IsFiniteSet(nodes \union {n})
        BY <4>1, FS_AddElement
      <4> QED BY <2>4, <3>1, <4>1, <4>2, FS_Subset
    <3>3. Cardinality(nodes) <= Cardinality(N2) /\ Cardinality(nodes) \in Nat /\ Cardinality(N2) \in Nat
      BY <2>4, <3>1, <3>2, FS_Subset, FS_CardinalityType
    <3>4. query.limit \in Nat
      BY QueryType DEF TInv, WType
    <3> QED BY <3>1, <3>3, <3>4 DEF StoppedShort
  <2>6. round >= 1 /\ query.depth >= 1 /\ ~StoppedShort(nodes') /\ (query.op = "hierarchy" => round = 1)
           => Complete(stack', visited', nodes', round)
    BY <1>1, <1>2, <2>2, <2>5, TakingCompletes
  <2>7. \A k \in 1 .. 2 : k < round => RoundDone(k, nodes')
    BY <1>2, <2>4, LaterRounds
  <2> QED BY <1>1, <1>2, <2>3, <2>4, <2>6, <2>7, KeepsD
<1>4. CASE WalkUsers \/ ReturnToCaller
  <2>1. nodes' = nodes
    BY <1>4 DEF WalkUsers, ReturnToCaller
  <2>2. /\ Sound(stack', visited', nodes', round)
        /\ Complete(stack, visited, nodes, round) => Complete(stack', visited', nodes', round)
    BY <1>1, <1>2, <1>4, UsersKeep, ReturnKeeps
  <2>3. \A k \in 1 .. 2 : k < round => RoundDone(k, nodes')
    BY <1>2, <2>1
  <2> QED BY <1>1, <1>2, <2>1, <2>2, <2>3, KeepsD
<1> QED BY <1>3, <1>4

LEMMA BeginRoundD == ASSUME TInv, DInv, BeginRound PROVE DInv'
<1>1. /\ at = "walking" /\ query.op \notin BreadthFirst \union {"cycles"} /\ stack = <<>>
      /\ round < Rounds /\ round' = round + 1
      /\ Recurse(<<>>, IF query.op = "callgraph" THEN {} ELSE visited, nodes, query.start, 0, round + 1)
      /\ UNCHANGED <<graph, query, at, paths, nodes, edges, found>>
  BY DEF BeginRound
<1>2. query.op \in DepthFirst /\ IsWalk
  BY <1>1, InDepth
<1>3. /\ Sound(stack, visited, nodes, round) /\ (StartIsIncluded => query.start \in nodes)
      /\ (round = 0 => visited = {})
      /\ round >= 1 /\ query.depth >= 1 /\ ~StoppedShort(nodes) /\ (query.op = "hierarchy" => round = 1)
               => Complete(stack, visited, nodes, round)
      /\ \A k \in 1 .. 2 : k < round => RoundDone(k, nodes)
      /\ round \in 0 .. Rounds /\ Rounds \in {1, 2} /\ query.depth \in Nat /\ visited \in SUBSET Nodes
  BY <1>1, <1>2, SoundParts
<1>4. PICK r : r = round + 1 /\ round' = r /\ r \in {1, 2} /\ (r = 2 => round = 1) /\ (r = 1 => round = 0)
  BY <1>1, <1>3
<1>5. RoundOf(r) /\ (round = 1 => RoundOf(1)) /\ (r = 2 => query.op \in {"callgraph", "hierarchy"})
  BY <1>1, <1>2, <1>4 DEF RoundOf, Rounds, DepthFirst
<1>6. PICK known \in SUBSET Nodes : known = IF query.op = "callgraph" THEN {} ELSE visited
  BY <1>3
<1>7. Recurse(<<>>, known, nodes, query.start, 0, r)
  BY <1>1, <1>4, <1>6
<1>8. /\ nodes \subseteq Sofar(round) /\ known \subseteq nodes \union {query.start}
      /\ query.op \in {"hierarchy", "impact"} /\ query.depth = Unlimited => nodes \subseteq known \union {query.start}
  BY <1>3, <1>6 DEF Sound
<1>9. /\ Sound(stack', visited', nodes', r)
      /\ known = {} /\ query.depth >= 1 /\ ~StoppedShort(nodes') => Complete(stack', visited', nodes', r)
      /\ query.start \in known => stack' = <<>>
  BY <1>1, <1>2, <1>4, <1>5, <1>7, <1>8, RoundBegins
<1>10. Unlimited >= 1 /\ (query.op = "hierarchy" => query.depth = Unlimited)
  BY <1>2, UnlimitedIs, QueryType DEF IsWalk
<1>11. r = 2 => ~StoppedShort(nodes)
  BY <1>5 DEF StoppedShort
<1>12. query.op = "hierarchy" /\ r = 2 => stack' = <<>>
  BY <1>3, <1>4, <1>6, <1>9, <1>10, <1>11 DEF Complete
<1>13. query.depth >= 1 /\ ~StoppedShort(nodes') /\ (query.op = "hierarchy" => r = 1) => Complete(stack', visited', nodes', r)
  <2>1. (query.op = "hierarchy" => r = 1) => known = {}
    BY <1>3, <1>4, <1>5, <1>6
  <2> QED BY <1>9, <2>1
<1>14. r = 2 => RoundDone(1, nodes)
  <2> SUFFICES ASSUME r = 2 PROVE RoundDone(1, nodes)
    OBVIOUS
  <2>1. round = 1 /\ RoundOf(1)
    BY <1>4, <1>5
  <2>2. CASE query.depth >= 1
    <3>1. Complete(<<>>, visited, nodes, 1)
      BY <1>1, <1>3, <1>11, <2>1, <2>2
    <3>2. visited \subseteq nodes \union {query.start}
      BY <1>3 DEF Sound
    <3> QED BY <1>2, <1>3, <2>1, <3>1, <3>2, RoundCompletes
  <2>3. CASE ~(query.depth >= 1)
    BY <1>10, <2>3 DEF RoundDone
  <2> QED BY <2>2, <2>3
<1>15. \A k \in 1 .. 2 : k < r => RoundDone(k, nodes')
  BY <1>1, <1>4, <1>14
<1>16. nodes' = nodes /\ r # 0 /\ at' = "walking" /\ graph' = graph /\ query' = query
  BY <1>1, <1>4
<1> QED BY <1>3, <1>4, <1>9, <1>12, <1>13, <1>15, <1>16, KeepsD
-----------------------------------------------------------------------------
LEMMA AskD == ASSUME TInv, Ask \/ AskUnknown PROVE DInv'
<1>1. CASE AskUnknown
  <2>1. ~Known /\ query' = query
    BY <1>1 DEF AskUnknown
  <2>2. ~Known'
    BY <2>1 DEF Known
  <2> QED BY <2>2 DEF DInv
<1>2. CASE Ask
  <2>1. /\ UNCHANGED <<graph, query, stack, round, visited, edges, found>>
        /\ stack = <<>> /\ round = 0 /\ visited = {} /\ at' = "walking"
        /\ nodes' = IF StartIsIncluded THEN {query.start} ELSE {}
    BY <1>2 DEF Ask, TInv, WStage
  <2>2. Len(stack') = 0 /\ Cardinality(visited') = 0
    BY <2>1, FS_EmptySet
  <2>3. \A i \in 1 .. Len(stack') : FALSE
    BY <2>2
  <2>4. Sound(stack', visited', nodes', round')
    <3>1. nodes' \subseteq Sofar(round')
      BY <2>1 DEF Sofar
    <3> QED BY <2>1, <2>2, <2>3, <3>1 DEF Sound
  <2>5. Sound(stack, visited, nodes, round)'
    BY <2>1, <2>4, NextSound
  <2>6. (StartIsIncluded => query.start \in nodes)'
    <3>1. StartIsIncluded' = StartIsIncluded
      BY <2>1 DEF StartIsIncluded
    <3> QED BY <2>1, <3>1
  <2>7. round' = 0 /\ \A k \in 1 .. 2 : ~(k < round')
    BY <2>1
  <2> QED BY <2>1, <2>5, <2>6, <2>7 DEF DInv
<1> QED BY <1>1, <1>2

LEMMA SameD ==
  ASSUME DInv, at # "ready", UNCHANGED <<graph, query, stack, round, visited, nodes>>,
         at' = "done" => at = "done" \/ (stack = <<>> /\ round = Rounds)
  PROVE  DInv'
<1>1. Known' = Known /\ StartIsIncluded' = StartIsIncluded /\ Rounds' = Rounds
  BY DEF Known, StartIsIncluded, Rounds
<1>2. CASE ~(Known /\ query.op \in DepthFirst)
  BY <1>1, <1>2 DEF DInv
<1>3. CASE Known /\ query.op \in DepthFirst
  <2>1. /\ Sound(stack, visited, nodes, round) /\ (StartIsIncluded => query.start \in nodes)
        /\ (round = 0 => visited = {})
        /\ round >= 1 /\ query.depth >= 1 /\ ~StoppedShort(nodes) /\ (query.op = "hierarchy" => round = 1)
               => Complete(stack, visited, nodes, round)
        /\ (query.op = "hierarchy" /\ round = 2 => stack = <<>>)
        /\ \A k \in 1 .. 2 : k < round => RoundDone(k, nodes)
        /\ (at = "done" => stack = <<>> /\ round = Rounds)
    BY <1>3, Zenon DEF DInv
  <2>2. Sound(stack, visited, nodes, round)'
    <3>1. Sound(stack', visited', nodes', round')
      BY <2>1
    <3> QED BY <3>1, NextSound
  <2>3. Complete(stack, visited, nodes, round) => Complete(stack, visited, nodes, round)'
    <3> SUFFICES ASSUME Complete(stack, visited, nodes, round) PROVE Complete(stack, visited, nodes, round)'
      OBVIOUS
    <3>1. Complete(stack', visited', nodes', round')
      OBVIOUS
    <3> QED BY <3>1, NextComplete
  <2>4. StoppedShort(nodes)' <=> StoppedShort(nodes)
    BY DEF StoppedShort
  <2>5. (\A k \in 1 .. 2 : k < round => RoundDone(k, nodes))'
    <3>1. \A k, nod : RoundDone(k, nod)' <=> RoundDone(k, nod)
      BY NextRoundDone
    <3>2. PICK nod : nod = nodes /\ nod = nodes'
      OBVIOUS
    <3>3. \A k \in 1 .. 2 : k < round' => RoundDone(k, nod)'
      BY <2>1, <3>1, <3>2
    <3> QED BY <3>2, <3>3 DEF RoundDone
  <2> QED BY <1>1, <2>1, <2>2, <2>3, <2>4, <2>5, Zenon DEF DInv
<1> QED BY <1>2, <1>3

LEMMA OthersD ==
  ASSUME TInv, DInv, \/ TakeFromQueue \/ PathFound \/ BreadthFirstEnds \/ NextFile \/ TakeDependency \/ NoFileLeft
                     \/ DepthFirstEnds \/ UNCHANGED walkVars
                     \/ (query.op \notin DepthFirst /\ (TakeEdge \/ WalkUsers \/ ReturnToCaller))
  PROVE  DInv'
<1>1. CASE \/ TakeFromQueue \/ PathFound \/ BreadthFirstEnds \/ NextFile \/ TakeDependency \/ NoFileLeft
           \/ (query.op \notin DepthFirst /\ (TakeEdge \/ WalkUsers \/ ReturnToCaller))
  <2>1. query' = query
    BY <1>1 DEF TakeFromQueue, PathFound, BreadthFirstEnds, NextFile, TakeDependency, NoFileLeft, TakeEdge, WalkUsers, ReturnToCaller
  <2>2. query.op \notin DepthFirst
    <3>1. TakeFromQueue => query.op \in BreadthFirst
      BY DEF TInv, WStage, TakeFromQueue
    <3>2. PathFound \/ BreadthFirstEnds => query.op \in BreadthFirst
      BY DEF PathFound, BreadthFirstEnds, BreadthFirst
    <3>3. NextFile \/ TakeDependency \/ NoFileLeft => query.op = "cycles"
      BY DEF NextFile, TakeDependency, NoFileLeft
    <3> QED BY <1>1, <3>1, <3>2, <3>3 DEF DepthFirst, Walks
  <2> QED BY <2>1, <2>2 DEF DInv
<1>2. CASE DepthFirstEnds
  <2>1. /\ at = "walking" /\ stack = <<>> /\ round = Rounds
        /\ UNCHANGED <<graph, query, stack, round, visited, nodes>>
    BY <1>2 DEF DepthFirstEnds
  <2> QED BY <2>1, SameD
<1>3. CASE UNCHANGED walkVars
  <2>1. UNCHANGED <<graph, query, at, stack, round, visited, nodes>>
    BY <1>3 DEF walkVars
  <2>2. CASE at = "ready"
    BY <2>1, <2>2 DEF DInv
  <2> QED BY <2>1, <2>2, SameD
<1> QED BY <1>1, <1>2, <1>3

LEMMA DepthFirstHolds == WalkSpec => [](TInv /\ DInv)
<1>1. WalkInit => DInv
  BY DEF WalkInit, DInv
<1>2. TInv /\ DInv /\ [WalkNext]_walkVars => DInv'
  BY AskD, StackD, BeginRoundD, OthersD DEF WalkNext
<1> QED BY <1>1, <1>2, WalkTypesHold, PTL DEF WalkSpec

\* At the end of a walk.
LEMMA WalkedIs ==
  ASSUME TInv, DInv, at = "done", Known, query.op \in DepthFirst
  PROVE  /\ IsWalk /\ query.depth \in Nat /\ round = Rounds
         /\ Answer \subseteq Sofar(Rounds)
         /\ StartIsIncluded => query.start \in nodes
         /\ ~StoppedShort(nodes) => RoundDone(1, nodes) /\ (query.op = "callgraph" => RoundDone(2, nodes))
<1>1. query.op \in Walks /\ at # "ready"
  BY DEF DepthFirst
<1>2. IsWalk /\ (round >= 1 => RoundOf(round)) /\ query.depth \in Nat /\ Rounds \in {1, 2} /\ visited \in SUBSET Nodes
  BY <1>1, WalkOf, QueryType DEF IsWalk, Rounds, TInv, WType
<1>3. /\ Sound(stack, visited, nodes, round) /\ (StartIsIncluded => query.start \in nodes)
      /\ round >= 1 /\ query.depth >= 1 /\ ~StoppedShort(nodes) /\ (query.op = "hierarchy" => round = 1)
               => Complete(stack, visited, nodes, round)
      /\ \A k \in 1 .. 2 : k < round => RoundDone(k, nodes)
      /\ stack = <<>> /\ round = Rounds
  BY <1>1, Zenon DEF DInv
<1>4. Answer \subseteq Sofar(Rounds)
  BY <1>3 DEF Sound, Answer, Sofar
<1>5. ASSUME ~StoppedShort(nodes), query.op # "hierarchy" PROVE RoundDone(round, nodes)
  <2>1. CASE query.depth >= 1
    <3>1. Complete(<<>>, visited, nodes, round) /\ RoundOf(round)
      BY <1>2, <1>3, <1>5, <2>1
    <3>2. visited \subseteq nodes \union {query.start}
      BY <1>3 DEF Sound
    <3> QED BY <1>2, <3>1, <3>2, RoundCompletes
  <2>2. CASE ~(query.depth >= 1)
    <3>1. Unlimited >= 1
      BY <1>2, UnlimitedIs DEF IsWalk
    <3> QED BY <2>2, <3>1 DEF RoundDone
  <2> QED BY <2>1, <2>2
<1>6. Rounds = IF query.op \in {"callgraph", "hierarchy"} THEN 2 ELSE 1
  BY DEF Rounds
<1>7. Rounds = 2 => RoundDone(1, nodes)
  BY <1>3
<1> QED BY <1>2, <1>3, <1>4, <1>5, <1>6, <1>7
-----------------------------------------------------------------------------
\* What a round may reach, in the words of the properties.
LEMMA RoundWords ==
  ASSUME IsWalk, query.op \in DepthFirst, NEW d
  PROVE  /\ query.op \in {"dfs", "callers", "callees", "impact"} => Expected(d) = Reach(1, d)
         /\ query.op = "callgraph" => Expected(d) = Reach(1, d) \union Reach(2, d)
         /\ query.op = "hierarchy" => /\ Expected(d) = Reach(1, d) \union Reach(2, d)
                                      /\ SupertypesWithin(d) = Reach(1, d)
<1>1. \A e \in graph : e[1] \in Nodes /\ e[2] \in Nodes
  BY EndsAreNodes DEF IsWalk
<1>2. \A K : OfKinds(K) \subseteq graph
  BY DEF OfKinds
<1>3. CASE query.op = "dfs"
  <2>1. Lead(1) = Wanted /\ Toward(1) = Way
    BY <1>3 DEF Lead, Links, Toward, Allowed, Wanted
  <2>2. Expected(d) = Within({query.start}, Wanted, Way, FALSE, d)
    BY <1>3, Zenon DEF Expected
  <2>3. Reach(1, d) = Within({query.start}, Lead(1), Toward(1), FALSE, d)
    BY <1>3, Zenon DEF Reach
  <2> QED BY <1>3, <2>1, <2>2, <2>3, Zenon
<1>4. CASE query.op = "callers"
  <2>1. Lead(1) = OfKinds(Uses) /\ Toward(1) = -1
    BY <1>1, <1>2, <1>4 DEF Lead, Links, Toward, Allowed
  <2>2. Expected(d) = Within({query.start}, OfKinds(Uses), -1, FALSE, d)
    BY <1>4, Zenon DEF Expected, CallersWithin
  <2>3. Reach(1, d) = Within({query.start}, Lead(1), Toward(1), FALSE, d)
    BY <1>4, Zenon DEF Reach
  <2> QED BY <1>4, <2>1, <2>2, <2>3, Zenon
<1>5. CASE query.op = "callees"
  <2>1. Lead(1) = OfKinds(Uses) /\ Toward(1) = 1
    BY <1>1, <1>2, <1>5 DEF Lead, Links, Toward, Allowed
  <2>2. Expected(d) = Within({query.start}, OfKinds(Uses), 1, FALSE, d)
    BY <1>5, Zenon DEF Expected, CalleesWithin
  <2>3. Reach(1, d) = Within({query.start}, Lead(1), Toward(1), FALSE, d)
    BY <1>5, Zenon DEF Reach
  <2> QED BY <1>5, <2>1, <2>2, <2>3, Zenon
<1>6. CASE query.op = "callgraph"
  <2>1. Lead(1) = OfKinds(Uses) /\ Toward(1) = -1 /\ Lead(2) = OfKinds(Uses) /\ Toward(2) = 1
    BY <1>1, <1>2, <1>6 DEF Lead, Links, Toward, Allowed
  <2>2. Expected(d) = Within({query.start}, OfKinds(Uses), -1, FALSE, d) \union Within({query.start}, OfKinds(Uses), 1, FALSE, d)
    BY <1>6, Zenon DEF Expected, CallersWithin, CalleesWithin
  <2>3. \A k : Reach(k, d) = Within({query.start}, Lead(k), Toward(k), FALSE, d)
    BY <1>6, Zenon DEF Reach
  <2>4. /\ Reach(1, d) = Within({query.start}, OfKinds(Uses), -1, FALSE, d)
        /\ Reach(2, d) = Within({query.start}, OfKinds(Uses), 1, FALSE, d)
    BY <2>1, <2>3, Zenon
  <2> QED BY <1>6, <2>2, <2>4, Zenon
<1>7. CASE query.op = "hierarchy"
  <2>1. Lead(1) = OfKinds(Hierarchy) /\ Toward(1) = 1 /\ Lead(2) = OfKinds(Hierarchy) /\ Toward(2) = -1
    BY <1>1, <1>2, <1>7 DEF Lead, Links, Toward, Allowed
  <2>2. /\ Expected(d) = SupertypesWithin(d) \union SubtypesWithin(d)
        /\ SupertypesWithin(d) = Within({query.start}, OfKinds(Hierarchy), 1, FALSE, d)
        /\ SubtypesWithin(d) = Within({query.start}, OfKinds(Hierarchy), -1, FALSE, d)
    BY <1>7, Zenon DEF Expected, SupertypesWithin, SubtypesWithin
  <2>3. \A k : Reach(k, d) = Within({query.start}, Lead(k), Toward(k), FALSE, d)
    BY <1>7, Zenon DEF Reach
  <2>4. /\ Reach(1, d) = Within({query.start}, OfKinds(Hierarchy), 1, FALSE, d)
        /\ Reach(2, d) = Within({query.start}, OfKinds(Hierarchy), -1, FALSE, d)
    BY <2>1, <2>3, Zenon
  <2> QED BY <1>7, <2>2, <2>4, Zenon
<1>8. CASE query.op = "impact"
  <2>1. Lead(1) = graph /\ Toward(1) = -1
    BY <1>1, <1>8 DEF Lead, Links, Toward, Allowed
  <2>2. Expected(d) = Within({query.start}, graph, -1, TRUE, d)
    BY <1>8, Zenon DEF Expected
  <2>3. Reach(1, d) = Within({query.start}, Lead(1), Toward(1), TRUE, d)
    BY <1>8, Zenon DEF Reach
  <2> QED BY <1>8, <2>1, <2>2, <2>3, Zenon
<1> QED BY <1>3, <1>4, <1>5, <1>6, <1>7, <1>8 DEF DepthFirst, Walks, BreadthFirst

LEMMA SofarIs ==
  ASSUME IsWalk, query.op \in DepthFirst
  PROVE  Sofar(Rounds) \subseteq Expected(query.depth)
<1>1. query.depth \in Nat
  BY QueryType DEF IsWalk
<1>2. CASE query.op \in {"callgraph", "hierarchy"}
  <2>1. Rounds = 2 /\ RoundOf(1) /\ Expected(query.depth) = Reach(1, query.depth) \union Reach(2, query.depth)
    BY <1>2, RoundWords DEF Rounds, RoundOf
  <2>2. query.start \in Reach(1, query.depth)
    BY <1>1, <2>1, StartIsReached
  <2>3. \A k \in 1 .. 2 : k = 1 \/ k = 2
    OBVIOUS
  <2> QED BY <2>1, <2>2, <2>3 DEF Sofar
<1>3. CASE query.op \notin {"callgraph", "hierarchy"}
  <2>1. Rounds = 1 /\ RoundOf(1) /\ Expected(query.depth) = Reach(1, query.depth)
    BY <1>3, RoundWords DEF Rounds, RoundOf, DepthFirst, Walks, BreadthFirst
  <2>2. query.start \in Reach(1, query.depth)
    BY <1>1, <2>1, StartIsReached
  <2>3. \A k \in 1 .. 1 : k = 1
    OBVIOUS
  <2> QED BY <2>1, <2>2, <2>3 DEF Sofar
<1> QED BY <1>2, <1>3

LEMMA DepthFirstAnswers == TInv /\ DInv => DepthFirstAnswer
<1> SUFFICES ASSUME TInv, DInv, NEW op \in {"dfs", "callers", "callees", "callgraph", "impact"}, Answered(op)
             PROVE  /\ Answer \subseteq Expected(query.depth)
                    /\ ~(op = "dfs" /\ Limited) =>
                          /\ query.depth >= 1 => Expected(1) \subseteq Answer
                          /\ query.depth = Unlimited => Answer = Expected(Unlimited)
  BY DEF DepthFirstAnswer
<1>1. at = "done" /\ query.op = op /\ Known /\ query.op \in DepthFirst
  BY DEF Answered, DepthFirst, Walks, BreadthFirst
<1>2. /\ IsWalk /\ query.depth \in Nat
      /\ Answer \subseteq Sofar(Rounds)
      /\ ~StoppedShort(nodes) => RoundDone(1, nodes) /\ (query.op = "callgraph" => RoundDone(2, nodes))
  BY <1>1, WalkedIs
<1>3. Answer \subseteq Expected(query.depth)
  BY <1>1, <1>2, SofarIs
<1>4. ASSUME ~(op = "dfs" /\ Limited)
      PROVE  /\ query.depth >= 1 => Expected(1) \subseteq Answer
             /\ query.depth = Unlimited => Answer = Expected(Unlimited)
  <2>1. ~StoppedShort(nodes)
    BY <1>1, <1>4 DEF StoppedShort, Limited
  <2>2. \A d : /\ query.op = "callgraph" => Expected(d) = Reach(1, d) \union Reach(2, d)
               /\ query.op # "callgraph" => Expected(d) = Reach(1, d)
    BY <1>1, <1>2, RoundWords
  <2>3. query.depth >= 1 => Expected(1) \subseteq Answer
    BY <1>2, <2>1, <2>2 DEF RoundDone, Answer
  <2>4. query.depth = Unlimited => Expected(Unlimited) \subseteq Answer
    BY <1>2, <2>1, <2>2 DEF RoundDone, Answer
  <2> QED BY <1>3, <2>3, <2>4
<1> QED BY <1>3, <1>4

LEMMA SupertypesAnswers == TInv /\ DInv => SupertypesAreFound
<1> SUFFICES ASSUME TInv, DInv, Answered("hierarchy")
             PROVE  SupertypesWithin(Unlimited) \subseteq nodes /\ nodes \subseteq Expected(Unlimited)
  BY DEF SupertypesAreFound
<1>1. at = "done" /\ query.op = "hierarchy" /\ Known /\ query.op \in DepthFirst
  BY DEF Answered, DepthFirst, Walks, BreadthFirst
<1>2. /\ IsWalk /\ query.depth \in Nat
      /\ Answer \subseteq Sofar(Rounds)
      /\ StartIsIncluded => query.start \in nodes
      /\ ~StoppedShort(nodes) => RoundDone(1, nodes)
  BY <1>1, WalkedIs
<1>3. query.depth = Unlimited
  BY <1>1, <1>2, QueryType DEF IsWalk
<1>4. ~StoppedShort(nodes) /\ query.start \in nodes
  BY <1>1, <1>2 DEF StoppedShort, StartIsIncluded
<1>5. SupertypesWithin(Unlimited) = Reach(1, Unlimited)
  BY <1>1, <1>2, RoundWords
<1>6. nodes \subseteq Expected(Unlimited)
  BY <1>1, <1>2, <1>3, SofarIs DEF Answer
<1> QED BY <1>2, <1>3, <1>4, <1>5, <1>6 DEF RoundDone
-----------------------------------------------------------------------------
\* The cycles of imports.
ImportsOf(G, f) == {e \in G : e[1] = f /\ e[3] \in {"imports"}}
OnwardOf(G, f) == {e[2] : e \in ImportsOf(G, f)}
ImportEdges(G) == {e \in G : e[3] \in {"imports"}}

\* The files whose walk is over.
Finished(u, vis) == {f \in vis : \A i \in 1 .. Len(u) : u[i].node # f}

\* The frames are a path of imports without repetition.
Trail(G, u) ==
  /\ \A i, j \in 1 .. Len(u) : u[i].node = u[j].node => i = j
  /\ \A i \in 1 .. Len(u) : u[i].phase = "users" /\ u[i].todo \subseteq ImportsOf(G, u[i].node)
  /\ \A i, j \in 1 .. Len(u) : j = i + 1 => u[j].node \in OnwardOf(G, u[i].node)

IsCycle(G, c) == IsInjective(c) /\ \A i \in DOMAIN c : c[(i % Len(c)) + 1] \in OnwardOf(G, c[i])

\* While no cycle is reported, what a finished file imports is finished and does not lead
\* back to it, and an import of a file on the path is to be taken, finished or the path.
OnNoCycle(G, f) == f \notin Within(OnwardOf(G, f), ImportEdges(G), 1, FALSE, Unlimited)
Leads(u, i, vis, e) ==
  e \in u[i].todo \/ e[2] \in Finished(u, vis) \/ \E j \in 1 .. Len(u) : j = i + 1 /\ e[2] = u[j].node
NoneMissed(G, u, vis) ==
  /\ \A f \in Finished(u, vis) : OnwardOf(G, f) \subseteq Finished(u, vis) /\ OnNoCycle(G, f)
  /\ \A i \in 1 .. Len(u) : \A e \in ImportsOf(G, u[i].node) : Leads(u, i, vis, e)

CInv ==
  at # "ready" /\ query.op = "cycles" =>
    /\ Trail(graph, stack)
    /\ \A c \in found : IsCycle(graph, c)
    /\ found = {} => NoneMissed(graph, stack, visited)
    /\ at = "done" => stack = <<>> /\ Nodes \subseteq visited

LEMMA ImportsAre ==
  ASSUME query.op = "cycles", NEW f, NEW r
  PROVE  Follow(f, r) = ImportsOf(graph, f) /\ Out(f, {"imports"}) = ImportsOf(graph, f)
<1>1. Out(f, {"imports"}) = ImportsOf(graph, f)
  BY DEF Out, ImportsOf
<1> QED BY <1>1, ImportsFollowed

\* The steps on a path: an edge taken, a file added, the last file done.
NoMore(x, y) == x.node = y.node /\ x.phase = y.phase /\ x.todo \subseteq y.todo
LessOnTop(E, u, x, s) == Len(u) \in Nat \ {0} /\ NoMore(x, u[Len(u)]) /\ TopChanged(E, u, x, s)

LEMMA TrailTaken ==
  ASSUME NEW E, NEW G, NEW u, NEW x, NEW s, LessOnTop(E, u, x, s), Trail(G, u)
  PROVE  Trail(G, s)
<1>1. Len(s) = Len(u) /\ \A i \in 1 .. Len(u) : s[i] = IF i = Len(u) THEN x ELSE u[i]
  BY DEF TopChanged, LessOnTop
<1>2. \A i \in 1 .. Len(u) : s[i].node = u[i].node /\ s[i].phase = u[i].phase /\ s[i].todo \subseteq u[i].todo
  BY <1>1 DEF LessOnTop, NoMore
<1> QED BY <1>1, <1>2 DEF Trail

LEMMA FinishedTaken ==
  ASSUME NEW E, NEW u, NEW x, NEW s, LessOnTop(E, u, x, s), NEW vis
  PROVE  Finished(s, vis) = Finished(u, vis) /\ \A i \in 1 .. Len(u) : s[i].node = u[i].node
<1>1. Len(s) = Len(u) /\ \A i \in 1 .. Len(u) : s[i] = IF i = Len(u) THEN x ELSE u[i]
  BY DEF TopChanged, LessOnTop
<1>2. \A i \in 1 .. Len(u) : s[i].node = u[i].node
  BY <1>1 DEF LessOnTop, NoMore
<1> QED BY <1>1, <1>2 DEF Finished

LEMMA TrailAdded ==
  ASSUME NEW E, NEW G, NEW u, NEW x, NEW s, Pushed(E, u, x, s), Trail(G, u),
         x.phase = "users", x.todo = ImportsOf(G, x.node), \A i \in 1 .. Len(u) : u[i].node # x.node,
         Len(u) > 0 => x.node \in OnwardOf(G, u[Len(u)].node)
  PROVE  Trail(G, s)
<1>1. /\ Len(s) = Len(u) + 1 /\ Len(u) \in Nat
      /\ \A i \in 1 .. Len(s) : s[i] = IF i = Len(s) THEN x ELSE u[i]
      /\ \A i \in 1 .. Len(s) : i = Len(s) \/ i \in 1 .. Len(u)
  BY DEF Pushed
<1>2. PICK n \in Nat : n = Len(u) /\ Len(s) = n + 1
  BY <1>1
<1>3. s[n + 1] = x /\ \A i \in 1 .. n : s[i] = u[i]
  BY <1>1, <1>2
<1>4. \A i, j \in 1 .. Len(s) : s[i].node = s[j].node => i = j
  BY <1>1, <1>2, <1>3 DEF Trail
<1>5. \A i \in 1 .. Len(s) : s[i].phase = "users" /\ s[i].todo \subseteq ImportsOf(G, s[i].node)
  BY <1>1, <1>2, <1>3 DEF Trail
<1>6. ASSUME NEW i \in 1 .. Len(s), NEW j \in 1 .. Len(s), j = i + 1
      PROVE  s[j].node \in OnwardOf(G, s[i].node)
  <2>1. CASE j = n + 1
    <3>1. i = n /\ n > 0 /\ s[i] = u[n] /\ s[j] = x
      BY <1>2, <1>3, <1>6, <2>1
    <3> QED BY <1>2, <3>1
  <2>2. CASE j # n + 1
    <3>1. i \in 1 .. n /\ j \in 1 .. n
      BY <1>2, <1>6, <2>2
    <3> QED BY <1>2, <1>3, <1>6, <3>1 DEF Trail
  <2> QED BY <2>1, <2>2
<1> QED BY <1>4, <1>5, <1>6 DEF Trail

LEMMA TrailDone ==
  ASSUME NEW E, NEW G, NEW u \in Seq(E), u # <<>>, Trail(G, u), NEW vis, u[Len(u)].node \in vis
  PROVE  /\ Trail(G, Front(u)) /\ Len(Front(u)) = Len(u) - 1 /\ Len(u) \in Nat \ {0}
         /\ \A i \in 1 .. (Len(u) - 1) : Front(u)[i] = u[i]
         /\ Finished(Front(u), vis) = Finished(u, vis) \union {u[Len(u)].node}
<1>0. PICK f : f = u[Len(u)].node
  OBVIOUS
<1>1. /\ Len(u) \in Nat \ {0} /\ Len(Front(u)) = Len(u) - 1
      /\ \A i \in 1 .. (Len(u) - 1) : Front(u)[i] = u[i]
  BY TopIsLast
<1>2. PICK n, t : n \in Nat /\ n = Len(u) - 1 /\ t = Front(u) /\ Len(u) = n + 1 /\ Len(t) = n
  BY <1>1
<1>3. \A i \in 1 .. n : t[i] = u[i] /\ i \in 1 .. Len(u) /\ i # Len(u)
  BY <1>1, <1>2
<1>4. Trail(G, t)
  <2>1. \A i, j \in 1 .. n : t[i].node = t[j].node => i = j
    BY <1>3 DEF Trail
  <2>2. \A i \in 1 .. n : t[i].phase = "users" /\ t[i].todo \subseteq ImportsOf(G, t[i].node)
    BY <1>3 DEF Trail
  <2>3. \A i, j \in 1 .. n : j = i + 1 => t[j].node \in OnwardOf(G, t[i].node)
    BY <1>3 DEF Trail
  <2>4. Len(t) = n
    BY <1>2
  <2> QED BY <2>1, <2>2, <2>3, <2>4 DEF Trail
<1>5. n + 1 \in 1 .. Len(u) /\ \A i \in 1 .. Len(u) : i = n + 1 \/ i \in 1 .. n
  BY <1>2
<1>6. \A i \in 1 .. n : t[i].node # f
  BY <1>0, <1>2, <1>3, <1>5 DEF Trail
<1>7. ASSUME NEW g \in vis
      PROVE  (\A i \in 1 .. n : t[i].node # g) <=> (\A i \in 1 .. Len(u) : u[i].node # g) \/ g = f
  BY <1>0, <1>2, <1>3, <1>5, <1>6
<1>8. Finished(t, vis) = Finished(u, vis) \union {f}
  BY <1>0, <1>2, <1>7 DEF Finished
<1> QED BY <1>0, <1>1, <1>2, <1>4, <1>8

\* A file of the path that the last file imports closes a cycle.
LEMMA TrailCloses ==
  ASSUME NEW G, NEW u, Len(u) \in Nat \ {0}, Trail(G, u), NEW i \in 1 .. Len(u),
         u[i].node \in OnwardOf(G, u[Len(u)].node)
  PROVE  IsCycle(G, [j \in 1 .. (Len(u) - i + 1) |-> u[i + j - 1].node])
<1>1. PICK n \in Nat \ {0}, m \in Nat \ {0} : n = Len(u) /\ m = n - i + 1 /\ i \in 1 .. n
  OBVIOUS
<1>2. PICK c : c = [j \in 1 .. m |-> u[i + j - 1].node]
  OBVIOUS
<1>3. DOMAIN c = 1 .. m /\ \A j \in 1 .. m : c[j] = u[i + j - 1].node /\ i + j - 1 \in 1 .. n
  BY <1>1, <1>2
<1>4. Len(c) = m
  <2>1. c \in Seq({u[k].node : k \in 1 .. n})
    BY <1>1, <1>2
  <2> QED BY <1>3, <2>1, LenProperties
<1>5. IsInjective(c)
  <2> SUFFICES ASSUME NEW a \in 1 .. m, NEW b \in 1 .. m, c[a] = c[b] PROVE a = b
    BY <1>3 DEF IsInjective
  <2>1. PICK k \in 1 .. n, l \in 1 .. n : k = i + a - 1 /\ l = i + b - 1
    BY <1>3
  <2>2. u[k].node = u[l].node
    BY <1>3, <2>1
  <2>3. k = l
    BY <1>1, <2>2 DEF Trail
  <2> QED BY <1>1, <2>1, <2>3
<1>6. ASSUME NEW j \in 1 .. m PROVE c[(j % m) + 1] \in OnwardOf(G, c[j])
  <2>1. CASE j = m
    <3>1. j % m = 0
      BY <2>1
    <3>2. c[(j % m) + 1] = u[i].node /\ c[j] = u[n].node
      BY <1>1, <1>3, <2>1, <3>1
    <3> QED BY <1>1, <3>2
  <2>2. CASE j # m
    <3>1. j % m = j /\ j + 1 \in 1 .. m
      BY <2>2
    <3>2. PICK k \in 1 .. n : k = i + j - 1
      BY <1>3
    <3>4. PICK l \in 1 .. n : l = i + (j + 1) - 1
      BY <1>3, <3>1
    <3>5. l = k + 1
      BY <1>1, <3>2, <3>4
    <3>3. c[j] = u[k].node /\ c[j + 1] = u[l].node
      BY <1>3, <3>1, <3>2, <3>4
    <3>6. u[l].node \in OnwardOf(G, u[k].node)
      BY <1>1, <3>5 DEF Trail
    <3> QED BY <3>1, <3>3, <3>6
  <2> QED BY <2>1, <2>2
<1> QED BY <1>1, <1>2, <1>3, <1>4, <1>5, <1>6 DEF IsCycle

\* The same but for an import of g by the last file of the path.
AllLead(G, u, vis, g) ==
  /\ \A f \in Finished(u, vis) : OnwardOf(G, f) \subseteq Finished(u, vis) /\ OnNoCycle(G, f)
  /\ \A i \in 1 .. Len(u) : \A e \in ImportsOf(G, u[i].node) : Leads(u, i, vis, e) \/ (i = Len(u) /\ e[2] = g)

OneTaken(E, u, x, s, e) ==
  /\ Len(u) \in Nat \ {0} /\ TopChanged(E, u, x, s)
  /\ x.node = u[Len(u)].node /\ x.phase = u[Len(u)].phase /\ x.todo = u[Len(u)].todo \ {e}

LEMMA MissTaken ==
  ASSUME NEW E, NEW G, NEW u, NEW e, NEW x, NEW s, OneTaken(E, u, x, s, e), NEW vis, NoneMissed(G, u, vis)
  PROVE  AllLead(G, s, vis, e[2]) /\ (e[2] \in Finished(u, vis) => NoneMissed(G, s, vis))
<1>0. LessOnTop(E, u, x, s)
  BY DEF OneTaken, LessOnTop, NoMore
<1>1. Finished(s, vis) = Finished(u, vis) /\ \A i \in 1 .. Len(u) : s[i].node = u[i].node
  BY <1>0, FinishedTaken
<1>2. Len(s) = Len(u) /\ \A i \in 1 .. Len(u) : s[i] = IF i = Len(u) THEN x ELSE u[i]
  BY DEF OneTaken, TopChanged
<1>3. ASSUME NEW i \in 1 .. Len(u), NEW d \in ImportsOf(G, s[i].node)
      PROVE  Leads(s, i, vis, d) \/ (i = Len(u) /\ d = e)
  <2>1. Leads(u, i, vis, d)
    BY <1>1 DEF NoneMissed
  <2>2. d \in u[i].todo => d \in s[i].todo \/ (i = Len(u) /\ d = e)
    BY <1>2 DEF OneTaken
  <2> QED BY <1>1, <1>2, <2>1, <2>2 DEF Leads
<1>4. \A f \in Finished(s, vis) : OnwardOf(G, f) \subseteq Finished(s, vis) /\ OnNoCycle(G, f)
  BY <1>1 DEF NoneMissed
<1>5. AllLead(G, s, vis, e[2])
  BY <1>2, <1>3, <1>4 DEF AllLead
<1>6. ASSUME e[2] \in Finished(u, vis) PROVE NoneMissed(G, s, vis)
  <2>1. \A i \in 1 .. Len(s) : \A d \in ImportsOf(G, s[i].node) : Leads(s, i, vis, d)
    BY <1>1, <1>2, <1>3, <1>6 DEF Leads
  <2> QED BY <1>4, <2>1 DEF NoneMissed
<1> QED BY <1>5, <1>6

LEMMA FinishedAdded ==
  ASSUME NEW E, NEW u, NEW x, NEW s, Pushed(E, u, x, s), NEW vis, x.node \notin vis
  PROVE  Finished(s, vis \union {x.node}) = Finished(u, vis)
<1>1. /\ Len(s) = Len(u) + 1 /\ Len(u) \in Nat
      /\ \A i \in 1 .. Len(s) : s[i] = IF i = Len(s) THEN x ELSE u[i]
      /\ \A i \in 1 .. Len(s) : i = Len(s) \/ i \in 1 .. Len(u)
  BY DEF Pushed
<1>2. PICK n : n \in Nat /\ n = Len(u) /\ Len(s) = n + 1
  BY <1>1
<1>3. n + 1 \in 1 .. Len(s) /\ s[n + 1] = x /\ \A i \in 1 .. n : s[i] = u[i] /\ i \in 1 .. Len(s)
  BY <1>1, <1>2
<1>4. ASSUME NEW f \in vis
      PROVE  (\A i \in 1 .. Len(s) : s[i].node # f) <=> (\A i \in 1 .. n : u[i].node # f)
  BY <1>1, <1>2, <1>3
<1> QED BY <1>2, <1>3, <1>4 DEF Finished

LEMMA MissAdded ==
  ASSUME NEW E, NEW G, NEW u, NEW x, NEW s, Pushed(E, u, x, s), NEW vis, x.node \notin vis,
         AllLead(G, u, vis, x.node), x.todo = ImportsOf(G, x.node)
  PROVE  NoneMissed(G, s, vis \union {x.node})
<1>1. /\ Len(s) = Len(u) + 1 /\ Len(u) \in Nat
      /\ \A i \in 1 .. Len(s) : s[i] = IF i = Len(s) THEN x ELSE u[i]
      /\ \A i \in 1 .. Len(s) : i = Len(s) \/ i \in 1 .. Len(u)
  BY DEF Pushed
<1>2. PICK n, C : n \in Nat /\ n = Len(u) /\ Len(s) = n + 1 /\ C = Finished(u, vis) /\ C = Finished(s, vis \union {x.node})
  BY <1>1, FinishedAdded
<1>3. n + 1 \in 1 .. Len(s) /\ s[n + 1] = x /\ \A i \in 1 .. n : s[i] = u[i] /\ i \in 1 .. Len(s)
  BY <1>1, <1>2
<1>4. ASSUME NEW i \in 1 .. Len(s), NEW e \in ImportsOf(G, s[i].node)
      PROVE  e \in s[i].todo \/ e[2] \in C \/ \E j \in 1 .. Len(s) : j = i + 1 /\ e[2] = s[j].node
  <2>1. CASE i = n + 1
    BY <1>3, <2>1
  <2>2. CASE i # n + 1
    <3>1. i \in 1 .. n /\ s[i] = u[i]
      BY <1>1, <1>2, <1>3, <2>2
    <3>2. Leads(u, i, vis, e) \/ (i = n /\ e[2] = x.node)
      BY <1>2, <3>1 DEF AllLead
    <3>3. CASE i = n /\ e[2] = x.node
      BY <1>2, <1>3, <3>3
    <3>4. CASE Leads(u, i, vis, e)
      BY <1>2, <1>3, <3>1, <3>4 DEF Leads
    <3> QED BY <3>2, <3>3, <3>4
  <2> QED BY <2>1, <2>2
<1>5. \A i \in 1 .. Len(s) : \A e \in ImportsOf(G, s[i].node) : Leads(s, i, vis \union {x.node}, e)
  BY <1>2, <1>4 DEF Leads
<1>6. \A f \in Finished(s, vis \union {x.node}) : OnwardOf(G, f) \subseteq Finished(s, vis \union {x.node}) /\ OnNoCycle(G, f)
  BY <1>2 DEF AllLead
<1> QED BY <1>5, <1>6 DEF NoneMissed

\* When the last file is done, nothing that it imports leads back to it: all of that was
\* finished before.
LEMMA MissDone ==
  ASSUME NEW E, NEW G \in SUBSET Relations, NEW u \in Seq(E), u # <<>>, Trail(G, u), NEW vis,
         u[Len(u)].node \in vis, u[Len(u)].todo = {}, NoneMissed(G, u, vis)
  PROVE  NoneMissed(G, Front(u), vis)
<1>0. PICK f : f = u[Len(u)].node
  OBVIOUS
<1>1. /\ Len(Front(u)) = Len(u) - 1 /\ Len(u) \in Nat \ {0}
      /\ \A i \in 1 .. (Len(u) - 1) : Front(u)[i] = u[i]
      /\ Finished(Front(u), vis) = Finished(u, vis) \union {u[Len(u)].node}
  BY TrailDone
<1>2. PICK n, t, C : /\ n \in Nat /\ n = Len(u) - 1 /\ t = Front(u) /\ Len(u) = n + 1 /\ Len(t) = n
                     /\ C = Finished(u, vis) /\ Finished(t, vis) = C \union {f}
  BY <1>0, <1>1
<1>3. n + 1 \in 1 .. Len(u) /\ \A i \in 1 .. n : t[i] = u[i] /\ i \in 1 .. Len(u)
  BY <1>1, <1>2
<1>4. f \notin C
  BY <1>0, <1>2, <1>3 DEF Finished
<1>5. OnwardOf(G, f) \subseteq C
  <2>1. ASSUME NEW e \in ImportsOf(G, f) PROVE e[2] \in C
    <3>1. Leads(u, n + 1, vis, e)
      BY <1>0, <1>2, <1>3 DEF NoneMissed
    <3>2. ~ \E j \in 1 .. Len(u) : j = (n + 1) + 1
      BY <1>2
    <3> QED BY <1>0, <1>2, <3>1, <3>2 DEF Leads
  <2> QED BY <2>1 DEF OnwardOf
<1>6. OnNoCycle(G, f)
  <2>1. ImportEdges(G) \in SUBSET Relations /\ OnwardOf(G, f) \in SUBSET Nodes
    <3>1. \A e \in G : e[2] \in Nodes
      BY WalksAssumption
    <3> QED BY <3>1 DEF ImportEdges, OnwardOf, ImportsOf
  <2>2. ASSUME NEW e \in ImportEdges(G), e[1] \in C PROVE e[2] \in C
    <3>1. OnwardOf(G, e[1]) \subseteq C
      BY <1>2, <2>2 DEF NoneMissed
    <3>2. e[2] \in OnwardOf(G, e[1])
      BY DEF ImportEdges, OnwardOf, ImportsOf
    <3> QED BY <3>1, <3>2
  <2>3. Closed(ImportEdges(G), 1, FALSE, C)
    <3>1. ~(1 <= 0) /\ 1 >= 0
      OBVIOUS
    <3> QED BY <2>2, <3>1, Zenon DEF Closed
  <2>4. PICK D \in SUBSET Relations, S \in SUBSET Nodes : D = ImportEdges(G) /\ S = OnwardOf(G, f)
    BY <2>1
  <2>5. Unlimited \in Nat /\ 1 \in Ways
    BY WalksAssumption DEF Ways
  <2>6. FALSE \in BOOLEAN
    OBVIOUS
  <2>7. Within(S, D, 1, FALSE, Unlimited) \subseteq C
    BY <1>5, <2>3, <2>4, <2>5, <2>6, ClosedContains, Zenon
  <2> QED BY <1>4, <2>4, <2>7 DEF OnNoCycle
<1>7. \A g \in Finished(t, vis) : OnwardOf(G, g) \subseteq Finished(t, vis) /\ OnNoCycle(G, g)
  BY <1>2, <1>5, <1>6 DEF NoneMissed
<1>8. ASSUME NEW i \in 1 .. n, NEW e \in ImportsOf(G, t[i].node) PROVE Leads(t, i, vis, e)
  <2>1. Leads(u, i, vis, e)
    BY <1>2, <1>3 DEF NoneMissed
  <2>2. CASE e \in u[i].todo \/ e[2] \in C
    BY <1>2, <1>3, <2>2 DEF Leads
  <2>3. CASE \E j \in 1 .. Len(u) : j = i + 1 /\ e[2] = u[j].node
    <3>1. i + 1 \in 1 .. Len(u) /\ e[2] = u[i + 1].node
      BY <2>3
    <3>2. CASE i = n
      BY <1>0, <1>2, <3>1, <3>2 DEF Leads
    <3>3. CASE i # n
      <4>1. i + 1 \in 1 .. n
        BY <3>3, <1>2
      <4> QED BY <1>2, <1>3, <3>1, <4>1 DEF Leads
    <3> QED BY <3>2, <3>3
  <2> QED BY <1>2, <2>1, <2>2, <2>3 DEF Leads
<1> QED BY <1>2, <1>7, <1>8 DEF NoneMissed

LEMMA EmptyTrail ==
  ASSUME NEW G, NEW u, u = <<>>, NEW vis
  PROVE  Trail(G, u) /\ Len(u) = 0 /\ Finished(u, vis) = vis
<1>1. Len(u) = 0 /\ 1 .. Len(u) = {}
  OBVIOUS
<1> QED BY <1>1 DEF Trail, Finished

LEMMA AskC == ASSUME TInv, Ask \/ AskUnknown PROVE CInv'
<1>1. CASE AskUnknown
  BY <1>1 DEF AskUnknown, Known, CInv
<1>2. CASE Ask
  <2>1. /\ UNCHANGED <<graph, query, stack, visited, found>>
        /\ stack = <<>> /\ visited = {} /\ found = {} /\ at' = "walking"
    BY <1>2 DEF Ask, TInv, WStage
  <2>2. Trail(graph', stack') /\ Len(stack') = 0 /\ Finished(stack', visited') = {}
    BY <2>1, EmptyTrail
  <2>3. NoneMissed(graph', stack', visited')
    BY <2>2 DEF NoneMissed
  <2> QED BY <2>1, <2>2, <2>3 DEF CInv
<1> QED BY <1>1, <1>2

\* The frame of a file.
LEMMA NewFile ==
  ASSUME TInv, query.op = "cycles", NEW f \in Nodes
  PROVE  /\ FrameOfFile(f) \in Frame /\ FrameOfFile(f).node = f
         /\ FrameOfFile(f).phase = "users" /\ FrameOfFile(f).todo = ImportsOf(graph, f)
<1>1. Follow(f, round) = ImportsOf(graph, f) /\ Follow(f, round) \in SUBSET graph
  BY ImportsAre, ImportsFollowed
<1>2. Len(stack) \in Nat
  BY DEF TInv, WType
<1> QED BY <1>1, <1>2 DEF FrameOfFile, Frame

LEMMA NextFileC == ASSUME TInv, CInv, NextFile PROVE CInv'
<1>1. /\ at = "walking" /\ query.op = "cycles" /\ stack = <<>> /\ UNCHANGED <<graph, query, at, found>>
      /\ \E f \in Nodes \ visited : stack' = <<FrameOfFile(f)>> /\ visited' = visited \union {f}
  BY DEF NextFile
<1>2. PICK f \in Nodes \ visited : stack' = <<FrameOfFile(f)>> /\ visited' = visited \union {f}
  BY <1>1
<1>3. PICK x \in Frame : x = FrameOfFile(f) /\ x.node = f /\ x.phase = "users" /\ x.todo = ImportsOf(graph, f)
  BY <1>1, NewFile
<1>4. PICK u, s : u \in Seq(Frame) /\ u = <<>> /\ s = Append(u, x) /\ s = stack' /\ u = stack
  <2>1. Append(<<>>, x) = <<x>> /\ <<>> \in Seq(Frame)
    OBVIOUS
  <2> QED BY <1>1, <1>2, <1>3, <2>1
<1>5. Pushed(Frame, u, x, s)
  BY <1>4, Push
<1>6. Len(u) = 0 /\ Trail(graph, u)
  BY <1>4, EmptyTrail
<1>7. Trail(graph, s)
  <2>1. \A i \in 1 .. Len(u) : FALSE
    BY <1>6
  <2> QED BY <1>3, <1>5, <1>6, <2>1, TrailAdded
<1>8. found = {} => NoneMissed(graph, s, visited \union {x.node})
  <2> SUFFICES ASSUME found = {} PROVE NoneMissed(graph, s, visited \union {x.node})
    OBVIOUS
  <2>1. NoneMissed(graph, u, visited)
    BY <1>1, <1>4 DEF CInv
  <2>2. AllLead(graph, u, visited, x.node)
    BY <1>6, <2>1 DEF NoneMissed, AllLead
  <2>3. x.node \notin visited /\ x.todo = ImportsOf(graph, x.node)
    BY <1>2, <1>3
  <2> QED BY <1>5, <2>2, <2>3, MissAdded
<1>9. \A c \in found : IsCycle(graph, c)
  BY <1>1 DEF CInv
<1> QED BY <1>1, <1>2, <1>3, <1>4, <1>7, <1>8, <1>9 DEF CInv

LEMMA TakeDependencyC == ASSUME TInv, CInv, TakeDependency PROVE CInv'
<1>1. at = "walking" /\ query.op = "cycles" /\ stack # <<>> /\ UNCHANGED <<graph, query, at>>
  BY DEF TakeDependency
<1>2. PICK e \in Top.todo :
         LET f == e[2]
             s == Append(Below, Without(Top, e))
         IN IF OnPath(f) # {}
            THEN /\ \E i \in OnPath(f) :
                       found' = found \union {[j \in 1..(Len(stack) - i + 1) |-> stack[i + j - 1].node]}
                 /\ stack' = s
                 /\ UNCHANGED visited
            ELSE /\ IF f \in visited
                    THEN stack' = s /\ UNCHANGED visited
                    ELSE stack' = Append(s, FrameOfFile(f)) /\ visited' = visited \union {f}
                 /\ UNCHANGED found
  BY DEF TakeDependency, Without
<1>3. /\ Trail(graph, stack) /\ (\A c \in found : IsCycle(graph, c))
      /\ (found = {} => NoneMissed(graph, stack, visited))
  BY <1>1 DEF CInv
<1>4. /\ Top \in Frame /\ Top = stack[Len(stack)] /\ Len(stack) \in Nat \ {0}
      /\ Without(Top, e) \in Frame
      /\ TopChanged(Frame, stack, Without(Top, e), Append(Below, Without(Top, e)))
      /\ e \in graph /\ e[1] \in Nodes /\ e[2] \in Nodes
  BY <1>1, EdgeOfTop
<1>5. PICK x \in Frame, s \in Seq(Frame), n \in Nat \ {0}, f \in Nodes :
         /\ x = Without(Top, e) /\ s = Append(Below, Without(Top, e)) /\ n = Len(stack) /\ f = e[2]
         /\ TopChanged(Frame, stack, x, s)
  <2>1. Append(Below, Without(Top, e)) \in Seq(Frame)
    BY <1>4 DEF TopChanged
  <2> QED BY <1>4, <2>1
<1>6. OneTaken(Frame, stack, x, s, e)
  <2>1. /\ Without(Top, e).node = Top.node /\ Without(Top, e).phase = Top.phase
        /\ Without(Top, e).todo = Top.todo \ {e}
    BY <1>4, WithoutIs
  <2> QED BY <1>4, <1>5, <2>1 DEF OneTaken
<1>7. LessOnTop(Frame, stack, x, s)
  BY <1>6 DEF OneTaken, LessOnTop, NoMore
<1>8. Trail(graph, s) /\ Finished(s, visited) = Finished(stack, visited) /\ Len(s) = n
      /\ \A i \in 1 .. n : s[i].node = stack[i].node
  <2>1. Trail(graph, s)
    BY <1>3, <1>7, TrailTaken
  <2>2. Finished(s, visited) = Finished(stack, visited) /\ \A i \in 1 .. Len(stack) : s[i].node = stack[i].node
    BY <1>7, FinishedTaken
  <2> QED BY <1>5, <2>1, <2>2 DEF TopChanged
<1>9. f \in OnwardOf(graph, stack[n].node)
  <2>1. e \in ImportsOf(graph, stack[n].node)
    BY <1>3, <1>4, <1>5 DEF Trail
  <2> QED BY <1>5, <2>1 DEF OnwardOf
<1>10. CASE OnPath(f) # {}
  <2>1. PICK i \in OnPath(f) : found' = found \union {[j \in 1..(Len(stack) - i + 1) |-> stack[i + j - 1].node]}
    BY <1>2, <1>5, <1>10
  <2>2. stack' = s /\ visited' = visited
    BY <1>2, <1>5, <1>10
  <2>3. i \in 1 .. n /\ stack[i].node = f
    <3>1. stack \in Seq(Frame)
      BY DEF TInv, WType
    <3> QED BY <1>5, <3>1 DEF OnPath
  <2>4. IsCycle(graph, [j \in 1..(Len(stack) - i + 1) |-> stack[i + j - 1].node])
    BY <1>3, <1>4, <1>5, <1>9, <2>3, TrailCloses
  <2>5. (\A c \in found' : IsCycle(graph, c)) /\ found' # {}
    BY <1>3, <2>1, <2>4
  <2> QED BY <1>1, <1>8, <2>2, <2>5 DEF CInv
<1>11. CASE OnPath(f) = {}
  <2>1. \A i \in 1 .. n : stack[i].node # f
    <3>1. stack \in Seq(Frame)
      BY DEF TInv, WType
    <3> QED BY <1>5, <1>11, <3>1 DEF OnPath
  <2>2. CASE f \in visited
    <3>1. stack' = s /\ visited' = visited /\ found' = found
      BY <1>2, <1>5, <1>11, <2>2
    <3>2. f \in Finished(stack, visited)
      BY <1>5, <2>1, <2>2 DEF Finished
    <3>3. found = {} => NoneMissed(graph, s, visited)
      BY <1>3, <1>5, <1>6, <3>2, MissTaken
    <3> QED BY <1>1, <1>3, <1>8, <3>1, <3>3 DEF CInv
  <2>3. CASE f \notin visited
    <3>1. stack' = Append(s, FrameOfFile(f)) /\ visited' = visited \union {f} /\ found' = found
      BY <1>2, <1>5, <1>11, <2>3
    <3>2. PICK y \in Frame : y = FrameOfFile(f) /\ y.node = f /\ y.phase = "users" /\ y.todo = ImportsOf(graph, f)
      BY <1>1, NewFile
    <3>3. PICK t : t = Append(s, y) /\ t = stack'
      BY <3>1, <3>2
    <3>4. Pushed(Frame, s, y, t)
      BY <3>3, Push
    <3>5. y.todo = ImportsOf(graph, y.node) /\ y.node \notin visited
      BY <2>3, <3>2
    <3>6. Trail(graph, t)
      <4>1. y.node \in OnwardOf(graph, s[Len(s)].node) /\ \A i \in 1 .. Len(s) : s[i].node # y.node
        BY <1>8, <1>9, <2>1, <3>2
      <4> QED BY <1>8, <3>2, <3>4, <3>5, <4>1, TrailAdded
    <3>7. found = {} => NoneMissed(graph, t, visited \union {y.node})
      <4> SUFFICES ASSUME found = {} PROVE NoneMissed(graph, t, visited \union {y.node})
        OBVIOUS
      <4>1. AllLead(graph, s, visited, y.node)
        <5>1. AllLead(graph, s, visited, e[2])
          BY <1>3, <1>6, MissTaken
        <5> QED BY <1>5, <3>2, <5>1
      <4> QED BY <3>4, <3>5, <4>1, MissAdded
    <3> QED BY <1>1, <1>3, <3>1, <3>2, <3>3, <3>6, <3>7 DEF CInv
  <2> QED BY <2>2, <2>3
<1> QED BY <1>10, <1>11

LEMMA ReturnC == ASSUME TInv, CInv, query.op = "cycles", ReturnToCaller PROVE CInv'
<1>1. /\ at = "walking" /\ stack # <<>> /\ Top.todo = {} /\ stack' = Below
      /\ UNCHANGED <<graph, query, at, visited, found>>
  BY DEF ReturnToCaller
<1>2. /\ Trail(graph, stack) /\ (\A c \in found : IsCycle(graph, c))
      /\ (found = {} => NoneMissed(graph, stack, visited))
  BY <1>1 DEF CInv
<1>3. /\ stack \in Seq(Frame) /\ (\A i \in 1 .. Len(stack) : stack[i].node \in visited)
      /\ graph \in SUBSET Relations
  BY DEF TInv, WType
<1>4. Len(stack) \in Nat \ {0} /\ Top = stack[Len(stack)]
  BY <1>1, <1>3, TopIsLast DEF Top
<1>5. stack[Len(stack)].node \in visited /\ stack[Len(stack)].todo = {}
  BY <1>1, <1>3, <1>4
<1>6. Trail(graph, Front(stack))
  BY <1>1, <1>2, <1>3, <1>5, TrailDone
<1>7. found = {} => NoneMissed(graph, Front(stack), visited)
  BY <1>1, <1>2, <1>3, <1>5, MissDone
<1> QED BY <1>1, <1>2, <1>6, <1>7 DEF CInv, Below

LEMMA OthersC ==
  ASSUME TInv, CInv, \/ TakeFromQueue \/ PathFound \/ BreadthFirstEnds \/ BeginRound \/ TakeEdge \/ WalkUsers
                     \/ DepthFirstEnds \/ NoFileLeft \/ UNCHANGED walkVars
                     \/ (query.op # "cycles" /\ ReturnToCaller)
  PROVE  CInv'
<1>1. CASE \/ TakeFromQueue \/ PathFound \/ BreadthFirstEnds \/ BeginRound \/ TakeEdge \/ DepthFirstEnds
           \/ (query.op # "cycles" /\ (ReturnToCaller \/ WalkUsers))
  <2>1. query' = query
    BY <1>1 DEF TakeFromQueue, PathFound, BreadthFirstEnds, BeginRound, TakeEdge, DepthFirstEnds, ReturnToCaller, WalkUsers
  <2>2. query.op # "cycles"
    <3>1. TakeFromQueue => query.op \in BreadthFirst
      BY DEF TInv, WStage, TakeFromQueue
    <3>2. PathFound \/ BreadthFirstEnds => query.op \in BreadthFirst
      BY DEF PathFound, BreadthFirstEnds, BreadthFirst
    <3>3. BeginRound \/ TakeEdge \/ DepthFirstEnds => query.op # "cycles"
      BY DEF BeginRound, TakeEdge, DepthFirstEnds
    <3> QED BY <1>1, <3>1, <3>2, <3>3 DEF BreadthFirst
  <2> QED BY <2>1, <2>2 DEF CInv
<1>2. CASE WalkUsers /\ query.op = "cycles"
  <2>1. at = "walking" /\ stack # <<>> /\ Top.phase = "members" /\ stack \in Seq(Frame)
    BY <1>2 DEF WalkUsers, TInv, WType
  <2>2. Top = stack[Len(stack)] /\ Len(stack) \in Nat \ {0}
    BY <2>1, TopIsLast DEF Top
  <2>3. Trail(graph, stack)
    BY <1>2, <2>1 DEF CInv
  <2>4. Len(stack) \in 1 .. Len(stack)
    BY <2>2
  <2> QED BY <2>1, <2>2, <2>3, <2>4 DEF Trail
<1>3. CASE NoFileLeft
  BY <1>3 DEF NoFileLeft, CInv
<1>4. CASE UNCHANGED walkVars
  BY <1>4 DEF walkVars, CInv
<1> QED BY <1>1, <1>2, <1>3, <1>4

LEMMA CyclesHold == WalkSpec => [](TInv /\ CInv)
<1>1. WalkInit => CInv
  BY DEF WalkInit, CInv
<1>2. TInv /\ CInv /\ [WalkNext]_walkVars => CInv'
  BY AskC, NextFileC, TakeDependencyC, ReturnC, OthersC DEF WalkNext
<1> QED BY <1>1, <1>2, WalkTypesHold, PTL DEF WalkSpec

LEMMA CyclesAnswers == TInv /\ CInv => CyclesAreFound
<1> SUFFICES ASSUME TInv, CInv, at = "done", query.op = "cycles" PROVE CyclesAreFound
  BY DEF CyclesAreFound, Answered
<1> DEFINE Onward(f) == {e[2] : e \in Out(f, {"imports"})}
<1>1. /\ stack = <<>> /\ Nodes \subseteq visited /\ (\A c \in found : IsCycle(graph, c))
      /\ (found = {} => NoneMissed(graph, stack, visited))
  BY DEF CInv
<1>2. \A f : Onward(f) = OnwardOf(graph, f)
  BY ImportsAre DEF OnwardOf
<1>3. OfKinds({"imports"}) = ImportEdges(graph)
  BY DEF OfKinds, ImportEdges
<1> HIDE DEF Onward
<1>4. \A c \in found : IsInjective(c) /\ \A i \in DOMAIN c : c[(i % Len(c)) + 1] \in Onward(c[i])
  BY <1>1, <1>2 DEF IsCycle
<1>5. ASSUME found = {}, NEW f \in Nodes
      PROVE  f \notin Within(Onward(f), OfKinds({"imports"}), 1, FALSE, Unlimited)
  <2>1. f \in Finished(stack, visited)
    BY <1>1, EmptyTrail
  <2>2. OnNoCycle(graph, f)
    BY <1>1, <1>5, <2>1 DEF NoneMissed
  <2> QED BY <1>2, <1>3, <2>2 DEF OnNoCycle
<1> USE DEF Onward
<1> QED BY <1>4, <1>5, Zenon DEF CyclesAreFound

-----------------------------------------------------------------------------

LEMMA WalkTypes == TInv => WalkTypeOK
<1> SUFFICES ASSUME TInv PROVE WalkTypeOK
  OBVIOUS
<1>1. /\ graph \in SUBSET Relations /\ query \in Asks /\ at \in {"ready", "walking", "done"}
      /\ paths \in Seq(Entry)
      /\ stack \in Seq(Frame) /\ (\A i \in 1 .. Len(stack) : stack[i].node \in visited)
      /\ round \in 0 .. 2
      /\ visited \in SUBSET Nodes /\ nodes \in SUBSET Nodes /\ edges \in SUBSET graph
  BY DEF TInv, WType
<1>2. \A i \in DOMAIN paths : paths[i].node \in Nodes /\ paths[i].path \in Seq(graph)
  <2>1. \A x \in Entry : x.node \in Nodes /\ x.path \in Seq(graph)
    BY DEF Entry
  <2>2. \A i \in DOMAIN paths : paths[i] \in Entry
    BY <1>1
  <2> QED BY <2>1, <2>2
<1>3. \A i \in DOMAIN stack : stack[i].node \in visited /\ stack[i].todo \subseteq graph
  <2>1. \A x \in Frame : x.todo \subseteq graph
    BY DEF Frame
  <2>2. \A i \in DOMAIN stack : stack[i] \in Frame /\ i \in 1 .. Len(stack)
    BY <1>1
  <2> QED BY <1>1, <2>1, <2>2
<1> QED BY <1>1, <1>2, <1>3 DEF WalkTypeOK

\* Every walk of the graph queries answers as reachability says: for every graph, every
\* question and every order of the edges, traverseBFS and findPath find the nearest, the
\* depth-first queries keep to the depth and miss nothing where it does not bind, and
\* findCircularDependencies reports cycles, and some if there are any.
THEOREM WalksHold == WalkSpec => []WalksAnswer
<1>1. TInv /\ BInv /\ DInv /\ CInv => WalksAnswer
  BY WalkTypes, BreadthFirstAnswers, PathAnswers, DepthFirstAnswers, SupertypesAnswers, CyclesAnswers DEF WalksAnswer
<1> QED BY <1>1, BreadthFirstHolds, DepthFirstHolds, CyclesHold, PTL
=============================================================================

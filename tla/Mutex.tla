-------------------------------- MODULE Mutex --------------------------------
(***************************************************************************)
(* class Mutex (src/src/utils.ts): the in-process lock around indexing.    *)
(* JavaScript runs one callback at a time, so an action is the code between *)
(* two awaits.  release() clears the flag and resolves one waiter, which   *)
(* runs later and tests the flag again: any caller may get in between.     *)
(***************************************************************************)
EXTENDS Naturals, Sequences, FiniteSets

CONSTANTS Callers,   \* the asynchronous operations that use the mutex
          Nobody,    \* no owner
          MaxCalls   \* bound on the calls of all callers together

\* What the proofs assume; GraphWriters, which composes this module, assumes it.
MutexAssumption == Nobody \notin Callers /\ MaxCalls \in Nat

VARIABLES locked,     \* this.locked
          waitQueue,  \* the callers whose resolve functions are queued
          pc,         \* where each caller is
          calls       \* calls begun so far
vars == <<locked, waitQueue, pc, calls>>

TypeOK ==
  /\ locked \in BOOLEAN
  /\ waitQueue \in Seq(Callers)
  /\ pc \in [Callers -> {"idle", "waiting", "resumed", "holding"}]
  /\ calls \in 0..MaxCalls

Init ==
  /\ locked = FALSE
  /\ waitQueue = <<>>
  /\ pc = [c \in Callers |-> "idle"]
  /\ calls = 0

\* The loop head of acquire(): queue up behind a set flag, or set it.
TestAndTake(c) ==
  IF locked
    THEN /\ waitQueue' = Append(waitQueue, c)
         /\ pc' = [pc EXCEPT ![c] = "waiting"]
         /\ UNCHANGED locked
    ELSE /\ locked' = TRUE
         /\ pc' = [pc EXCEPT ![c] = "holding"]
         /\ UNCHANGED waitQueue

\* A first call to acquire().
Acquire(c) ==
  /\ pc[c] = "idle"
  /\ calls < MaxCalls
  /\ calls' = calls + 1
  /\ TestAndTake(c)

Resume_WithoutTest(c) ==
  /\ pc[c] = "resumed"
  /\ locked' = TRUE
  /\ pc' = [pc EXCEPT ![c] = "holding"]
  /\ UNCHANGED <<waitQueue, calls>>

\* The awaited promise is resolved: back to the loop head.
Resume(c) ==
  /\ pc[c] = "resumed"
  /\ TestAndTake(c)
  /\ UNCHANGED calls

\* The function acquire() returned: clear the flag, resolve the oldest waiter.
Release(c) ==
  /\ pc[c] = "holding"
  /\ locked' = FALSE
  /\ IF waitQueue = <<>>
       THEN /\ pc' = [pc EXCEPT ![c] = "idle"]
            /\ UNCHANGED waitQueue
       ELSE /\ pc' = [pc EXCEPT ![c] = "idle", ![Head(waitQueue)] = "resumed"]
            /\ waitQueue' = Tail(waitQueue)
  /\ UNCHANGED calls

Next == \E c \in Callers : Acquire(c) \/ Resume(c) \/ Release(c)

Spec == Init /\ [][Next]_vars

\* The event loop runs every resolved promise, and every holder finishes.
FairSpec == Spec /\ \A c \in Callers : WF_vars(Resume(c)) /\ WF_vars(Release(c))
-----------------------------------------------------------------------------
\* Who owns the mutex.
Holder == IF locked THEN CHOOSE c \in Callers : pc[c] = "holding" ELSE Nobody

\* The flag, the queue and the callers agree: a set flag has exactly one
\* holder, and the queue lists the waiting callers, each once.
MutexInv ==
  /\ TypeOK
  /\ \A c, d \in Callers : pc[c] = "holding" /\ pc[d] = "holding" => c = d
  /\ locked <=> \E c \in Callers : pc[c] = "holding"
  /\ \A c \in Callers :
       pc[c] = "waiting" <=> \E i \in 1..Len(waitQueue) : waitQueue[i] = c
  /\ \A i, j \in 1..Len(waitQueue) : waitQueue[i] = waitQueue[j] => i = j

\* No wake-up is lost: while a caller waits, either the flag is set (its holder
\* will wake one) or a resumed caller is on its way to the flag.
NoLostWakeup ==
  waitQueue # <<>> => locked \/ \E c \in Callers : pc[c] = "resumed"

\* Every waiter gets the mutex (barging callers make finitely many calls).
WaiterServed ==
  \A c \in Callers : pc[c] \in {"waiting", "resumed"} ~> pc[c] = "holding"
=============================================================================

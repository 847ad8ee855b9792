------------------------------ MODULE LiveIndex ------------------------------
(***************************************************************************)
(* The index of a project kept in step with its tree: IndexStore and       *)
(* Watcher composed as CodeGraph.watch does (src/src/index.ts).  Editors   *)
(* raise events; the watcher calls sync, which waits for the mutex and may *)
(* be refused the lock file; catch-up syncs of the engine and operations   *)
(* of other processes (hooks, the command line) run in between.  A killed  *)
(* server is started again with a new watcher over the tables it left.     *)
(***************************************************************************)
EXTENDS IndexStore

CONSTANT MaxCrashes   \* bound on the kills of the server

ASSUME LiveAssumption == MaxCrashes \in Nat /\ None \notin {"watcher", "other"}

VARIABLES events, ready, pending, timer, syncing, stopped,  \* see Watcher
          owner,     \* who runs the operation: None, "watcher" or "other"
          settled,   \* history: a sync has "begun" after ready, one has succeeded
          misdated,  \* history: files an operation has misdated
          crashes    \* kills so far

W == INSTANCE Watcher

watchVars == <<events, ready, pending, timer, syncing, stopped>>
vars == <<storeVars, watchVars, owner, settled, misdated, crashes>>

Init ==
  /\ InitStore
  /\ W!StartWatching(OnDisk)
  /\ owner = None
  /\ settled = "no" /\ misdated = {}
  /\ crashes = 0

\* An editor changes the tree, and the file system notifies the watcher.
\* (Bound: nothing new happens to the tree or the tables after stop().)
EditorWrites(f) ==
  /\ ~stopped
  /\ Remove(f) \/ \E c \in Contents : Edit(f, c)
  /\ events' = events \cup {f}
  /\ UNCHANGED <<ready, pending, timer, syncing, stopped, owner, settled, misdated, crashes>>

\* The scan of sync reads the tree synchronously: an event delivered in the
\* millisecond in which the sync began is delivered before its scan.
DeliverEvent(f) ==
  /\ \/ ~syncing /\ W!Event(f, "old")
     \/ syncing /\ W!Event(f, "new")
     \/ syncing /\ (owner # "watcher" \/ pc = "scan") /\ W!Event(f, "old")
  /\ UNCHANGED <<storeVars, owner, settled, misdated, crashes>>

BecomeReady ==
  /\ W!Ready
  /\ UNCHANGED <<storeVars, owner, settled, misdated, crashes>>

FlushTimer ==
  /\ W!Flush
  /\ UNCHANGED <<storeVars, owner, settled, misdated, crashes>>

\* The sync of the watcher gets the mutex and the lock file.
WatchSyncBegins ==
  /\ syncing /\ owner = None
  /\ Start("sync")
  /\ owner' = "watcher"
  /\ settled' = IF settled = "no" /\ ready THEN "begun" ELSE settled
  /\ UNCHANGED <<watchVars, misdated, crashes>>

\* Another process holds the lock file, while it writes files or while it
\* resolves references (no operation of IndexStore): LockUnavailableError.
WatchSyncRefused ==
  /\ syncing /\ owner # "watcher"
  /\ W!SyncFailed
  /\ UNCHANGED <<storeVars, owner, settled, misdated, crashes>>

\* A catch-up sync, a hook or a command gets the mutex and the lock file.
OtherBegins(o) ==
  /\ ~stopped
  /\ Start(o)
  /\ owner' = "other"
  /\ UNCHANGED <<watchVars, settled, misdated, crashes>>

OperationSteps ==
  /\ OpStep
  /\ misdated' = misdated \cup {f \in Files : Misdated(f)'}
  /\ UNCHANGED <<watchVars, owner, settled, crashes>>

OtherEnds ==
  /\ owner = "other"
  /\ Finish \/ Abort
  /\ owner' = None
  /\ UNCHANGED <<watchVars, settled, misdated, crashes>>

\* A sync that found no file and took no measurable time looks like a refusal.
WatchSyncEnds ==
  /\ owner = "watcher"
  /\ owner' = None
  /\ Finish
  /\ \/ W!SyncOk /\ settled' = IF settled = "begun" THEN "yes" ELSE settled
     \/ ~checked /\ W!SyncFailed /\ UNCHANGED settled
  /\ UNCHANGED <<misdated, crashes>>

WatchSyncThrows ==
  /\ owner = "watcher"
  /\ Abort
  /\ W!SyncFailed
  /\ owner' = None
  /\ UNCHANGED <<settled, misdated, crashes>>

StopWatching ==
  /\ W!Stop
  /\ UNCHANGED <<storeVars, owner, settled, misdated, crashes>>

\* kill -9, and a new server on the same project.
CrashAndRestart ==
  /\ crashes < MaxCrashes
  /\ crashes' = crashes + 1
  /\ \/ op # None /\ Abort /\ owner' = None
     \/ owner # "watcher" /\ UNCHANGED <<storeVars, owner>>
  /\ settled' = "no"
  /\ ready' = FALSE /\ pending' = W!NothingPending
  /\ timer' = FALSE /\ syncing' = FALSE /\ stopped' = FALSE
  /\ events' = OnDisk
  /\ UNCHANGED misdated

Next ==
  \/ \E f \in Files : EditorWrites(f) \/ DeliverEvent(f)
  \/ BecomeReady \/ FlushTimer \/ StopWatching
  \/ WatchSyncBegins \/ WatchSyncRefused \/ WatchSyncEnds \/ WatchSyncThrows
  \/ \E o \in Ops : OtherBegins(o)
  \/ OperationSteps \/ OtherEnds
  \/ CrashAndRestart

Spec == Init /\ [][Next]_vars

\* Timers and events fire, operations go on.  Of the syncs of the watcher that
\* are tried again and again, some find no other operation in their way and
\* get the lock file, and they do not throw for ever.
Fairness ==
  /\ WF_vars(BecomeReady)
  /\ WF_vars(FlushTimer) /\ SF_vars(op = None /\ FlushTimer)
  /\ \A f \in Files : WF_vars(DeliverEvent(f))
  /\ WF_vars(OperationSteps) /\ WF_vars(OtherEnds)
  /\ SF_vars(WatchSyncBegins) /\ SF_vars(WatchSyncEnds /\ W!SyncOk)
  /\ <>[][~WatchSyncThrows]_vars

FairSpec == Spec /\ Fairness
-----------------------------------------------------------------------------
\* Once a sync begun after ready has succeeded, a file the graph lags behind is
\* pending, so that the banner of the MCP tools names it (getPendingFiles), or
\* its event is on the way; whatever syncs are refused or throw, and whatever
\* the editors do meanwhile.  Two kinds of files are excepted: those indexAll
\* has misdated, and those whose content on disk has no result.
StaleIsFlagged ==
  settled = "yes" /\ ~stopped =>
    \A f \in Files : Stale(f) =>
      pending[f] # "no" \/ f \in events \/ f \in misdated \/ Unindexable(f)

\* A pending file does not stay pending for ever: the watcher retries refused
\* and failed syncs, and takes up what came while it was syncing.
PendingServed == \A f \in Files : pending[f] # "no" ~> pending[f] = "no"

\* "three layers cooperate to keep the index in step with your code - and to
\* never give the agent a quiet wrong answer in the small window between an
\* edit and the next sync" (src/site/src/content/docs/guides/indexing.md:27):
\* when nothing is pending, on its way or running, the graph shows the tree.
QuietIsFresh ==
  settled = "yes" /\ ~stopped /\ op = None /\ events = {} /\ pending = W!NothingPending
    => \A f \in Files : ~Stale(f)
=============================================================================

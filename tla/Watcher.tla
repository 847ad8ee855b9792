------------------------------- MODULE Watcher -------------------------------
(***************************************************************************)
(* class FileWatcher (src/src/sync/watcher.ts): file events are debounced  *)
(* into syncs, and a file stays pending, for the staleness banner of the   *)
(* MCP tools, until a sync that began after its last event has succeeded.  *)
(* The clock is abstracted to what the code compares: whether the last     *)
(* event of a file came no later than the sync in flight began ("old") or  *)
(* after it ("new").  The source filter lets only Files through.           *)
(***************************************************************************)
EXTENDS FiniteSets

CONSTANT Files

VARIABLES
  events,    \* files with an event chokidar has not delivered yet
  ready,     \* chokidarReady
  pending,   \* pendingFiles: "no" entry, or how old the last event is
  timer,     \* the debounce timer runs
  syncing,   \* syncFn is in flight
  stopped    \* stop() was called
watchVars == <<events, ready, pending, timer, syncing, stopped>>

WatchTypeOK ==
  /\ events \in SUBSET Files
  /\ ready \in BOOLEAN
  /\ pending \in [Files -> {"no", "old", "new"}]
  /\ timer \in BOOLEAN
  /\ syncing \in BOOLEAN
  /\ stopped \in BOOLEAN

NothingPending == [f \in Files |-> "no"]

\* start(): the initial crawl has an add event for every file on disk.
StartWatching(present) ==
  /\ events = present
  /\ ready = FALSE
  /\ pending = NothingPending
  /\ timer = FALSE
  /\ syncing = FALSE
  /\ stopped = FALSE

\* The crawl is over; late add events of it may still come.
Ready ==
  /\ ~ready /\ ~stopped
  /\ ready' = TRUE
  /\ pending' = NothingPending
  /\ UNCHANGED <<events, timer, syncing, stopped>>

\* The 'all' handler: note the file once ready, and restart the debounce timer.
Event(f, age) ==
  /\ f \in events /\ ~stopped
  /\ events' = events \ {f}
  /\ pending' = IF ready THEN [pending EXCEPT ![f] = age] ELSE pending
  /\ timer' = TRUE
  /\ UNCHANGED <<ready, syncing, stopped>>

\* flush(): every event so far came no later than this sync begins.
Flush ==
  /\ timer
  /\ timer' = FALSE
  /\ IF syncing THEN UNCHANGED <<pending, syncing>>
     ELSE /\ syncing' = TRUE
          /\ pending' = [f \in Files |-> IF pending[f] = "no" THEN "no" ELSE "old"]
  /\ UNCHANGED <<events, ready, stopped>>

SyncOk_ClearsAll ==
  /\ syncing /\ syncing' = FALSE
  /\ pending' = NothingPending
  /\ UNCHANGED <<events, ready, timer, stopped>>

\* The post-sync check of the finally block.
Reschedule == timer' = (timer \/ (~stopped /\ pending' # NothingPending))

\* The sync succeeded: entries no newer than its start are in the index.
SyncOk ==
  /\ syncing /\ syncing' = FALSE
  /\ pending' = [f \in Files |-> IF pending[f] = "old" THEN "no" ELSE pending[f]]
  /\ Reschedule
  /\ UNCHANGED <<events, ready, stopped>>

SyncFailed_NeverRetries ==
  /\ syncing /\ syncing' = FALSE
  /\ UNCHANGED <<events, ready, pending, timer, stopped>>

\* It threw, or could not get the lock: everything stays pending.
SyncFailed ==
  /\ syncing /\ syncing' = FALSE
  /\ pending' = pending
  /\ Reschedule
  /\ UNCHANGED <<events, ready, stopped>>

Stop ==
  /\ ~stopped /\ stopped' = TRUE
  /\ timer' = FALSE
  /\ pending' = NothingPending
  /\ ready' = FALSE
  /\ events' = {}
  /\ UNCHANGED syncing
=============================================================================

----------------------------- MODULE Snapshots -----------------------------
(***************************************************************************)
(* The snapshot manager of the CodeDelta server                            *)
(* (packages/codedelta-snapshot-manager/src): how one commit's graph is    *)
(* built in a git worktree, cached in a file and shared by the requests    *)
(* that ask for it.                                                        *)
(*                                                                         *)
(* One commit of one repository is modelled: the worktree path, the cache  *)
(* file and the entry of inflightBuilds are all named by the commit, so    *)
(* commits share nothing but the grammars of the process.                  *)
(*                                                                         *)
(* The server is one thread.  What runs between two awaits that really     *)
(* wait (the grammars, a file, the timer) is one action: a timeout that    *)
(* removes the worktree, adds it again and begins the second build is one, *)
(* and so is the end of a build with the cleanup, the save and the answer. *)
(* What a timeout does not do is stop the build: withTimeout only rejects  *)
(* its own promise, and the abandoned build goes on in the same path.      *)
(***************************************************************************)
EXTENDS Naturals, FiniteSets

CONSTANTS
  Sources,     \* the source files of the commit
  Scripts,     \* those the TS/JS fallback extractor can read
  Builds,      \* calls of buildCodeGraphSnapshot that may run at one time
  Requests,    \* callers of getOrBuildSnapshot
  NodeLimits,  \* values CODEDELTA_SNAPSHOT_MAX_NODES may have, a file being a node
  None,        \* no value
  Orphan       \* a graph directory whose builder died with the server

ASSUME SourcesFinite == IsFiniteSet(Sources)
ASSUME ScriptsAreSources == Scripts \subseteq Sources
ASSUME LimitsAreNumbers == NodeLimits \subseteq Nat
ASSUME NoBuildIsNone == None \notin Builds /\ Orphan \notin Builds \cup {None}

VARIABLES
  tree,      \* is the commit checked out at the worktree path
  graphDir,  \* whose database stands in .codegraph of that path
  warm,      \* parserInitialized: are the grammars loaded
  limit,     \* maxNodes()
  build,     \* the running builds, abandoned ones included
  flight,    \* the entry of inflightBuilds: the build awaited, and which try it is
  cache,     \* the snapshot in the cache file
  reply      \* what each request has been told
vars == <<tree, graphDir, warm, limit, build, flight, cache, reply>>

-----------------------------------------------------------------------------
(* Data.  "lost" is a history variable: the files a build did not see      *)
(* because the checkout was gone, as opposed to files it failed to parse.  *)

Snapshot == [method : {"codegraph", "fallback"}, files : SUBSET Sources,
             lost : SUBSET Sources, warning : {"none", "failed", "already initialized"}]

BuildState == [pc : {"free", "grammars", "indexing"}, todo : SUBSET Sources,
               rows : SUBSET Sources, lost : SUBSET Sources]
ASSUME NoneIsNoSnapshot == None \notin Snapshot

Free == [pc |-> "free", todo |-> {}, rows |-> {}, lost |-> {}]

Reply == [state : {"idle", "waiting", "error", "ok"}, snap : Snapshot \cup {None}]
Idle == [state |-> "idle", snap |-> None]
Waiting == [state |-> "waiting", snap |-> None]
Failed == [state |-> "error", snap |-> None]
Served(s) == [state |-> "ok", snap |-> s]

\* Every caller that shares the promise gets its outcome.
Tell(rep, outcome) ==
  [r \in Requests |-> IF rep[r].state = "waiting" THEN outcome ELSE rep[r]]

FreeIn(bd) == {b \in Builds : bd[b].pc = "free"}
Live(b) == flight # None /\ flight.build = b

\* A database that is created is filled from the files the scan finds.
Indexing(there) ==
  [pc |-> "indexing", todo |-> IF there THEN Sources ELSE {}, rows |-> {},
   lost |-> IF there THEN {} ELSE Sources]

\* A database that is found is opened as it is (open with sync: false).
Opened(rows) == [pc |-> "indexing", todo |-> {}, rows |-> rows, lost |-> Sources \ rows]

FromGraph(b) ==
  [method |-> "codegraph", files |-> build[b].rows, lost |-> build[b].lost,
   warning |-> "none"]
FromScan(why) ==
  [method |-> "fallback", files |-> IF tree THEN Scripts ELSE {},
   lost |-> IF tree THEN {} ELSE Scripts, warning |-> why]

Empty(s) == s.files = {}
TooLarge(s) == Cardinality(s.files) > limit

-----------------------------------------------------------------------------
Init ==
  /\ tree = FALSE
  /\ graphDir = None
  /\ warm = FALSE
  /\ limit \in NodeLimits
  /\ build = [b \in Builds |-> Free]
  /\ flight = None
  /\ cache = None
  /\ reply = [r \in Requests |-> Idle]

\* Mutant: a directory that exists is taken for the worktree.
AfterCheckout_Reuses(dir) == dir

\* What createWorktree leaves of a graph directory that stood at the path.
AfterCheckout(dir) == None

\* buildCodeGraphSnapshot up to its first await that waits: a database that
\* is there is opened; otherwise, with warm grammars, one is created and
\* indexAll begins at once.
BeginBuild(n, b, dir, bd) ==
  /\ tree' = TRUE
  /\ flight' = [build |-> b, try |-> n]
  /\ IF AfterCheckout(dir) # None
       THEN /\ graphDir' = b
            /\ \E rows \in SUBSET Sources : build' = [bd EXCEPT ![b] = Opened(rows)]
       ELSE IF warm'
       THEN graphDir' = b /\ build' = [bd EXCEPT ![b] = Indexing(TRUE)]
       ELSE graphDir' = None /\ build' = [bd EXCEPT ![b].pc = "grammars"]

\* The promise of the flight rejects, with the worktree removed.
Reject(bd, rep) ==
  /\ flight' = None
  /\ tree' = FALSE
  /\ graphDir' = None
  /\ build' = bd
  /\ reply' = Tell(rep, Failed)

\* buildFreshSnapshot, the n-th of this flight, at a path where dir stands;
\* git may fail to check the commit out.
Attempt(n, dir, bd, rep) ==
  \/ \E b \in FreeIn(bd) : BeginBuild(n, b, dir, bd) /\ reply' = rep
  \/ Reject(bd, rep)

\* The end of the awaited build: an empty snapshot is tried once more, one
\* that is too large or cannot be written is an error, the rest is cached.
Settle(s, bd) ==
  \/ /\ Empty(s) /\ flight.try = 1
     /\ Attempt(2, None, bd, reply)
     /\ UNCHANGED cache
  \/ /\ Empty(s) => flight.try = 2
     /\ Reject(bd, reply)
     /\ UNCHANGED cache
  \/ /\ ~Empty(s) /\ ~TooLarge(s)
     /\ cache' = s
     /\ flight' = None
     /\ tree' = FALSE
     /\ graphDir' = None
     /\ build' = bd
     /\ reply' = Tell(reply, Served(s))

-----------------------------------------------------------------------------
(* getOrBuildSnapshot, called by a request that waits for nothing.         *)

ServeFromCache(r) ==
  /\ reply[r].state # "waiting"
  /\ cache # None
  /\ reply' = [reply EXCEPT ![r] = Served(cache)]
  /\ UNCHANGED <<tree, graphDir, warm, limit, build, flight, cache>>

JoinFlight(r) ==
  /\ reply[r].state # "waiting"
  /\ cache = None /\ flight # None
  /\ reply' = [reply EXCEPT ![r] = Waiting]
  /\ UNCHANGED <<tree, graphDir, warm, limit, build, flight, cache>>

\* Bound: a flight starts only where both of its tries find a free build,
\* so at most |Builds| - 2 abandoned builds are running when it does.
StartFlight(r) ==
  /\ reply[r].state # "waiting"
  /\ cache = None /\ flight = None
  /\ Cardinality(FreeIn(build)) >= 2
  /\ UNCHANGED <<warm, limit, cache>>
  /\ Attempt(1, graphDir, build, [reply EXCEPT ![r] = Waiting])

-----------------------------------------------------------------------------
(* buildCodeGraphSnapshot.                                                 *)

\* It ends without an instance: there is nothing to close or to remove.  An
\* awaited build falls back, an abandoned one is heard by nobody.
Throws(b, why) ==
  LET bd == [build EXCEPT ![b] = Free] IN
  IF Live(b)
    THEN Settle(FromScan(why), bd)
    ELSE build' = bd /\ UNCHANGED <<tree, graphDir, flight, cache, reply>>

\* Parser.init has loaded the grammars; init looks again for a database, and
\* creates the path too when it is gone.
GrammarsLoaded(b) ==
  /\ build[b].pc = "grammars"
  /\ warm' = TRUE
  /\ UNCHANGED limit
  /\ IF graphDir # None
       THEN Throws(b, "already initialized")
       ELSE /\ graphDir' = b
            /\ build' = [build EXCEPT ![b] = Indexing(tree)]
            /\ UNCHANGED <<tree, flight, cache, reply>>

\* Parser.init, the database or indexAll throws.
BuildFails(b) ==
  /\ build[b].pc # "free"
  /\ UNCHANGED <<warm, limit>>
  /\ Throws(b, "failed")

\* indexAll reads a file from the path and stores it or fails to parse it.
IndexFile(b) ==
  /\ build[b].pc = "indexing"
  /\ \E f \in build[b].todo :
       \/ /\ tree
          /\ build' = [build EXCEPT ![b].todo = @ \ {f}, ![b].rows = @ \cup {f}]
       \/ /\ tree
          /\ build' = [build EXCEPT ![b].todo = @ \ {f}]
       \/ /\ ~tree
          /\ build' = [build EXCEPT ![b].todo = @ \ {f}, ![b].lost = @ \cup {f}]
  /\ UNCHANGED <<tree, graphDir, warm, limit, flight, cache, reply>>

\* The graph is exported, and uninitialize removes the .codegraph of the
\* path, whoever built it.
BuildEnds(b) ==
  /\ build[b].pc = "indexing" /\ build[b].todo = {}
  /\ UNCHANGED <<warm, limit>>
  /\ LET bd == [build EXCEPT ![b] = Free] IN
     IF Live(b)
       THEN Settle(FromGraph(b), bd)
       ELSE /\ graphDir' = None
            /\ build' = bd
            /\ UNCHANGED <<tree, flight, cache, reply>>

-----------------------------------------------------------------------------
\* Mutant: the second try has no timer.
Timeout_OnlyFirst ==
  /\ flight # None
  /\ UNCHANGED <<warm, limit, cache>>
  /\ flight.try = 1 /\ Attempt(2, None, build, reply)

\* withTimeout: the promise of the awaited build rejects, the build goes on.
Timeout ==
  /\ flight # None
  /\ UNCHANGED <<warm, limit, cache>>
  /\ \/ flight.try = 1 /\ Attempt(2, None, build, reply)
     \/ flight.try = 2 /\ Reject(build, reply)

\* The server is killed and started again; the files stay.
Restart ==
  /\ warm' = FALSE
  /\ limit' \in NodeLimits
  /\ build' = [b \in Builds |-> Free]
  /\ flight' = None
  /\ graphDir' = IF graphDir = None THEN None ELSE Orphan
  /\ reply' = Tell(reply, Idle)
  /\ UNCHANGED <<tree, cache>>

Next ==
  \/ \E r \in Requests : ServeFromCache(r) \/ JoinFlight(r) \/ StartFlight(r)
  \/ \E b \in Builds :
       GrammarsLoaded(b) \/ BuildFails(b) \/ IndexFile(b) \/ BuildEnds(b)
  \/ Timeout
  \/ Restart

Spec == Init /\ [][Next]_vars

\* The timer of a flight is always armed, and a timer that is armed fires.
FairSpec == Spec /\ WF_vars(Timeout)

-----------------------------------------------------------------------------
TypeOK ==
  /\ tree \in BOOLEAN
  /\ graphDir \in Builds \cup {None, Orphan}
  /\ warm \in BOOLEAN
  /\ limit \in NodeLimits
  /\ build \in [Builds -> BuildState]
  /\ flight \in [build : Builds, try : {1, 2}] \cup {None}
  /\ cache \in Snapshot \cup {None}
  /\ reply \in [Requests -> Reply]

(* What is cached lacks no file because a build lost its checkout: neither *)
(* an abandoned build, nor a second flight, nor the remains of a killed    *)
(* server make a cached snapshot partial (files that do not parse do).     *)
CachedIsWhole == cache # None => cache.lost = {}

(* Every caller that was given a snapshot of the commit was given the one  *)
(* that is in the cache file: there are never two of one commit.           *)
OneSnapshot == \A r \in Requests : reply[r].state = "ok" => reply[r].snap = cache

(* Every request is answered, although a build may hang for ever and is    *)
(* never stopped.                                                          *)
AskServed == \A r \in Requests : reply[r].state = "waiting" ~> reply[r].state # "waiting"

\* One snapshot for all callers, and a whole one, however many builds were given
\* up on the way.
SnapshotsInv == TypeOK /\ OneSnapshot /\ CachedIsWhole

(* "share one build instead of racing on the same worktree path"           *)
(* (index.ts:142): no build is refused because another build of the commit *)
(* has created its graph at the path.                                      *)
NoRaceOnWorktree == cache # None => cache.warning # "already initialized"
=============================================================================

------------------------------- MODULE Engine -------------------------------
(***************************************************************************)
(* A server of one project and its sessions (src/src/mcp/{engine,session,  *)
(* tools,transport,daemon,index}.ts).  The engine opens the default        *)
(* project once for all sessions, in the background; a tool call waits for *)
(* that, asks the client for its root when nothing was named, and opens    *)
(* the project itself as a last resort.  Calls may name another project,   *)
(* which the tool handler opens and keeps.  A daemon stops when it has had *)
(* no client for some time.                                                *)
(*                                                                         *)
(* The code runs on one thread: an action is what runs between two awaits, *)
(* and what waits on a settled promise runs before the next event.         *)
(* Clients send initialize first, and once.                                *)
(***************************************************************************)
EXTENDS Naturals, Sequences, FiniteSets

CONSTANTS Sessions, Calls, None,
          Root, Cwd,     \* the project of the clients; the directory of the server
          MaxFailures,   \* bound on the opens that throw
          MaxChanges     \* bound on the indexes that appear or go

Paths == {Root, Cwd}

VARIABLES
  launch,   \* [daemon, path]: shared or not; the project path of the command line
  disk,     \* the paths with an index
  engine,   \* projectPath, the path being opened, cg, watcherStarted, closed
  default,  \* the cg of the tool handler
  cache,    \* projectCache
  inst,     \* the instances of CodeGraph ever opened
  sess,     \* the sessions
  calls,    \* the tool calls
  daemon,   \* idle timer, stopping, exited
  bounds,   \* failures and changes so far
  raced,    \* history: a call opened the project while the engine was opening it
  named     \* history: a client named Root, which had an index, as its root

vars == <<launch, disk, engine, default, cache, inst, sess, calls, daemon, bounds, raced, named>>
history == <<raced, named>>

\* The promise of initialize and the one of the search for a root; resolvePromise
\* is one of the two.
PromiseState == {"none", "roots", "opening", "settled"}
Promises == {"handshake", "lookup"}

ASSUME EngineAssumption ==
  /\ Root # Cwd /\ None \notin Paths \cup Promises
  /\ MaxFailures \in Nat /\ MaxChanges \in Nat

Instance == [project : Paths, open : BOOLEAN, watched : BOOLEAN]
Session == [pc : {"absent", "connected", "ready", "closed"}, roots : BOOLEAN, asked : BOOLEAN,
            promise : Promises \cup {None}, handshake : PromiseState, lookup : PromiseState]
Call == [pc : {"unsent", "waiting", "asking", "execute", "answered", "dropped"},
         session : Sessions \cup {None}, project : Paths \cup {None},
         awaits : Promises \cup {None}, used : Nat, notice : Nat]

\* The states of the engine when n instances have been opened.
EngineStates(n) == [path : Paths \cup {None}, opening : Paths \cup {None}, cg : 0..n,
                    watching : BOOLEAN, closed : BOOLEAN]

TypeOK ==
  /\ launch \in [daemon : BOOLEAN, path : Paths \cup {None}]
  /\ disk \subseteq Paths
  /\ engine \in EngineStates(Len(inst))
  /\ default \in 0..Len(inst)
  /\ cache \in [Paths -> 0..Len(inst)]
  /\ inst \in Seq(Instance)
  /\ sess \in [Sessions -> Session]
  /\ calls \in [Calls -> Call]
  /\ daemon \in [timer : BOOLEAN, stopping : BOOLEAN, exited : BOOLEAN]
  /\ bounds \in [failures : 0..MaxFailures, changes : 0..MaxChanges]
  /\ raced \in BOOLEAN /\ named \in BOOLEAN
  /\ default # 0 /\ ~engine.closed => engine.cg = default
  /\ \A s \in Sessions : sess[s].promise # None => sess[s][sess[s].promise] # "none"

NewSession(pc) == [pc |-> pc, roots |-> FALSE, asked |-> FALSE, promise |-> None,
                   handshake |-> "none", lookup |-> "none"]

\* A direct server has its one session; a daemon starts to open its project and
\* arms the idle timer.
Init ==
  /\ launch \in [daemon : BOOLEAN, path : Paths \cup {None}]
  /\ launch.daemon => launch.path = Root
  /\ launch.path \in {Root, None}
  /\ disk \in SUBSET Paths
  /\ engine = [path |-> launch.path, opening |-> IF launch.path \in disk THEN launch.path ELSE None,
               cg |-> 0, watching |-> FALSE, closed |-> FALSE]
  /\ default = 0 /\ cache = [p \in Paths |-> 0] /\ inst = <<>>
  /\ IF launch.daemon
       THEN sess = [s \in Sessions |-> NewSession("absent")]
       ELSE \E one \in Sessions :
              sess = [s \in Sessions |-> NewSession(IF s = one THEN "connected" ELSE "absent")]
  /\ calls = [c \in Calls |-> [pc |-> "unsent", session |-> None, project |-> None,
                               awaits |-> None, used |-> 0, notice |-> 0]]
  /\ daemon = [timer |-> launch.daemon, stopping |-> FALSE, exited |-> FALSE]
  /\ bounds = [failures |-> 0, changes |-> 0]
  /\ raced = FALSE /\ named = FALSE
-----------------------------------------------------------------------------
(* The engine.                                                             *)

Clients == {s \in Sessions : sess[s].pc \in {"connected", "ready"}}

\* An open that throws.
Throws == bounds.failures < MaxFailures /\ bounds' = [bounds EXCEPT !.failures = @ + 1]

Watching(p) == [project |-> p, open |-> TRUE, watched |-> ~engine.watching]

\* The new instance for path p becomes the default; startWatching watches one
\* instance in the life of an engine.
MakeDefault(p, opening) ==
  /\ inst' = Append(inst, Watching(p))
  /\ default' = Len(inst) + 1
  /\ engine' = [engine EXCEPT !.path = p, !.cg = Len(inst) + 1, !.watching = TRUE, !.opening = opening]

\* ensureInitialized: the engine and the state of the promise it returns.
Ensured(path) ==
  IF engine.closed \/ default # 0 THEN <<engine, "settled">>
  ELSE IF engine.opening # None THEN <<engine, "opening">>
  ELSE IF path \in disk THEN <<[engine EXCEPT !.path = path, !.opening = path], "opening">>
  ELSE <<[engine EXCEPT !.path = path], "settled">>

\* All who wait for the open in flight.
Settle == [s \in Sessions |->
  [sess[s] EXCEPT !.handshake = IF @ = "opening" THEN "settled" ELSE @,
                  !.lookup = IF @ = "opening" THEN "settled" ELSE @]]

\* CodeGraph.open comes to its end, whether or not the engine was stopped.
OpenEnds ==
  /\ engine.opening # None
  /\ \/ /\ engine.opening \in disk
        /\ MakeDefault(engine.opening, None)
        /\ UNCHANGED bounds
     \/ /\ IF engine.opening \in disk THEN Throws ELSE UNCHANGED bounds
        /\ engine' = [engine EXCEPT !.opening = None]
        /\ UNCHANGED <<inst, default>>
  /\ sess' = Settle
  /\ UNCHANGED <<launch, disk, cache, calls, daemon, history>>

\* There is no instance to close first: an instance that was opened is the default.
RetryInitializeSync(path) ==
  IF engine.closed \/ default # 0 \/ path \notin disk
    THEN UNCHANGED <<engine, inst, default, bounds, raced>>
    ELSE \/ /\ MakeDefault(path, engine.opening)
            /\ raced' = (raced \/ engine.opening # None)
            /\ UNCHANGED bounds
         \/ Throws /\ UNCHANGED <<engine, inst, default, raced>>
-----------------------------------------------------------------------------
(* A tool call.                                                            *)

\* What the call waits for has settled.
Settled(c) == calls[c].awaits # None => sess[calls[c].session][calls[c].awaits] = "settled"

\* The continuations that run before the next event.
Ready(c) == calls[c].pc = "execute" \/ (calls[c].pc \in {"waiting", "asking"} /\ Settled(c))
Event == ~daemon.exited /\ \A c \in Calls : ~Ready(c)

Execute(c) == calls' = [calls EXCEPT ![c].pc = "execute"]

\* The call that asked was the first to wait for the answer, and goes first.
\* retryInitIfNeeded up to its second await: the session forgets the promise,
\* and one call asks for the root of a client that has named none.
Resume(c) ==
  /\ ~daemon.exited
  /\ calls[c].pc = "waiting" /\ Settled(c)
  /\ \A d \in Calls : ~(calls[d].pc = "asking" /\ Settled(d))
  /\ LET s == calls[c].session
         forgotten == IF calls[c].awaits = None THEN sess[s].promise ELSE None
         hint == IF launch.path # None THEN launch.path ELSE engine.path
     IN \/ /\ default # 0
           /\ sess' = [sess EXCEPT ![s].promise = forgotten]
           /\ Execute(c)
           /\ UNCHANGED <<engine, inst, default, bounds, raced>>
        \/ /\ default = 0 /\ hint = None /\ ~sess[s].asked
           /\ LET ensured == Ensured(Cwd)
              IN /\ sess' = [sess EXCEPT ![s].asked = TRUE, ![s].promise = "lookup",
                                         ![s].lookup = IF sess[s].roots THEN "roots" ELSE ensured[2]]
                 /\ engine' = IF sess[s].roots THEN engine ELSE ensured[1]
           /\ calls' = [calls EXCEPT ![c].pc = "asking", ![c].awaits = "lookup"]
           /\ UNCHANGED <<inst, default, bounds, raced>>
        \/ /\ default = 0 /\ (hint # None \/ sess[s].asked)
           /\ sess' = [sess EXCEPT ![s].promise = forgotten]
           /\ RetryInitializeSync(IF hint = None THEN Cwd ELSE hint)
           /\ Execute(c)
  /\ UNCHANGED <<launch, disk, cache, daemon, named>>

\* After the search for a root: without a default, the directory of the server.
Asked(c) ==
  /\ ~daemon.exited
  /\ calls[c].pc = "asking" /\ Settled(c)
  /\ sess' = [sess EXCEPT ![calls[c].session].promise = None]
  /\ Execute(c)
  /\ IF default # 0 THEN UNCHANGED <<engine, inst, default, bounds, raced>>
                    ELSE RetryInitializeSync(Cwd)
  /\ UNCHANGED <<launch, disk, cache, daemon, named>>

IsDefault(p) == default # 0 /\ inst[default].project = p

Notice_AsUsed(used) == used

\* withStalenessNotice: the pending files are those of the default instance
\* when the answer is about its project.
Notice(used) == IF used # 0 /\ IsDefault(inst'[used].project) THEN default ELSE used

Answer(c, used) ==
  calls' = [calls EXCEPT ![c].pc = IF calls[c].session \in Clients THEN "answered" ELSE "dropped",
                         ![c].used = used, ![c].notice = Notice(used)]

\* getCodeGraph and the tool: the default, a project opened before, the default
\* under its path, or another project that is opened and kept.
RunTool(c) ==
  /\ ~daemon.exited
  /\ calls[c].pc = "execute"
  /\ LET p == calls[c].project
         known == CASE p = None -> default
                    [] p # None /\ cache[p] # 0 -> cache[p]
                    [] p # None /\ cache[p] = 0 /\ p \in disk /\ IsDefault(p) -> default
                    [] OTHER -> 0
     IN \/ /\ known # 0 \/ p = None \/ p \notin disk
           /\ UNCHANGED <<inst, cache, bounds>>
           /\ Answer(c, known)
        \/ /\ known = 0 /\ p # None /\ p \in disk
           /\ inst' = Append(inst, [project |-> p, open |-> TRUE, watched |-> FALSE])
           /\ cache' = [cache EXCEPT ![p] = Len(inst) + 1]
           /\ UNCHANGED bounds
           /\ Answer(c, Len(inst) + 1)
        \/ /\ known = 0 /\ p # None /\ p \in disk /\ Throws
           /\ UNCHANGED <<inst, cache>>
           /\ Answer(c, 0)
  /\ UNCHANGED <<launch, disk, engine, default, sess, daemon, history>>
-----------------------------------------------------------------------------
(* What clients send.                                                      *)

Initialize_Unshared(s) ==
  /\ Event /\ sess[s].pc = "connected"
  /\ \E roots \in BOOLEAN, uri \in {None, Root} :
       LET path == IF uri # None THEN uri ELSE launch.path
       IN IF path = None
            THEN /\ sess' = [sess EXCEPT ![s].pc = "ready", ![s].roots = roots]
                 /\ UNCHANGED engine
            ELSE /\ engine' = Ensured(path)[1]
                 /\ sess' = [sess EXCEPT ![s].pc = "ready", ![s].roots = roots]
  /\ UNCHANGED <<launch, disk, default, cache, inst, calls, daemon, bounds, history>>

\* initialize is answered first; the engine opens the project that rootUri or
\* the command line names.
Initialize(s) ==
  /\ Event /\ sess[s].pc = "connected"
  /\ \E roots \in BOOLEAN, uri \in {None, Root} :
       LET path == IF uri # None THEN uri ELSE launch.path
       IN IF path = None
            THEN /\ sess' = [sess EXCEPT ![s].pc = "ready", ![s].roots = roots]
                 /\ UNCHANGED engine
            ELSE /\ engine' = Ensured(path)[1]
                 /\ sess' = [sess EXCEPT ![s].pc = "ready", ![s].roots = roots,
                                         ![s].promise = "handshake", ![s].handshake = Ensured(path)[2]]
  /\ UNCHANGED <<launch, disk, default, cache, inst, calls, daemon, bounds, history>>

\* Requests are handled as they come, several at a time.
ToolsCall(c) ==
  /\ Event /\ calls[c].pc = "unsent"
  /\ \E s \in Sessions, p \in Paths \cup {None} :
       /\ sess[s].pc = "ready"
       /\ calls' = [calls EXCEPT ![c].pc = "waiting", ![c].session = s, ![c].project = p,
                                 ![c].awaits = sess[s].promise]
  /\ UNCHANGED <<launch, disk, engine, default, cache, inst, sess, daemon, bounds, history>>

\* The session goes on with target when its question is over.
Found(s, target) ==
  /\ sess[s].lookup = "roots"
  /\ engine' = Ensured(target)[1]
  /\ sess' = [sess EXCEPT ![s].lookup = Ensured(target)[2]]
  /\ UNCHANGED <<launch, disk, default, cache, inst, calls, daemon, bounds, raced>>

\* The client answers roots/list, with its root or with nothing of use.
RootsAnswer(s) ==
  /\ Event
  /\ \/ Found(s, Root) /\ named' = (named \/ Root \in disk)
     \/ Found(s, Cwd) /\ UNCHANGED named

RootsTimeout(s) == Event /\ Found(s, Cwd) /\ UNCHANGED named
-----------------------------------------------------------------------------
(* The life of a daemon.                                                   *)

\* handleConnection.
Connect(s) ==
  /\ Event /\ launch.daemon /\ ~daemon.stopping /\ sess[s].pc = "absent"
  /\ sess' = [sess EXCEPT ![s].pc = "connected"]
  /\ daemon' = [daemon EXCEPT !.timer = FALSE]
  /\ UNCHANGED <<launch, disk, engine, default, cache, inst, calls, bounds, history>>

Disconnect_Unarmed(s) ==
  /\ Event /\ launch.daemon /\ s \in Clients /\ ~daemon.stopping
  /\ sess' = [sess EXCEPT ![s].pc = "closed"]
  /\ UNCHANGED daemon
  /\ UNCHANGED <<launch, disk, engine, default, cache, inst, calls, bounds, history>>

\* The socket closes: dropClient.  A session may come back as a new one.
Disconnect(s) ==
  /\ Event /\ launch.daemon /\ s \in Clients /\ ~daemon.stopping
  /\ sess' = [sess EXCEPT ![s].pc = "closed"]
  /\ daemon' = [daemon EXCEPT !.timer = (Clients = {s})]
  /\ UNCHANGED <<launch, disk, engine, default, cache, inst, calls, bounds, history>>

\* Daemon.stop up to the wait for the server to close: the sessions end.
StopDaemon ==
  /\ daemon' = [daemon EXCEPT !.stopping = TRUE, !.timer = FALSE]
  /\ sess' = [s \in Sessions |-> IF s \in Clients THEN [sess[s] EXCEPT !.pc = "closed"] ELSE sess[s]]
  /\ UNCHANGED <<launch, disk, engine, default, cache, inst, calls, bounds, history>>

IdleTimeout ==
  /\ Event /\ daemon.timer
  /\ IF Clients # {} THEN UNCHANGED vars ELSE StopDaemon

Signal == Event /\ launch.daemon /\ ~daemon.stopping /\ StopDaemon

\* MCPEngine.stop: the projects of the cache, then the default one.
EngineStop ==
  /\ engine' = [engine EXCEPT !.closed = TRUE, !.cg = 0]
  /\ inst' = [i \in 1..Len(inst) |->
                IF i = engine.cg \/ \E p \in Paths : cache[p] = i
                  THEN [inst[i] EXCEPT !.open = FALSE, !.watched = FALSE] ELSE inst[i]]
  /\ cache' = [p \in Paths |-> 0]

\* A daemon stops its engine once the server is closed; stopping the session of
\* a direct server closes its input, whose close handler ends the process.
Exit ==
  /\ Event
  /\ \/ launch.daemon /\ daemon.stopping /\ EngineStop
     \/ ~launch.daemon /\ UNCHANGED <<engine, inst, cache>>
  /\ daemon' = [daemon EXCEPT !.exited = TRUE]
  /\ UNCHANGED <<launch, disk, default, sess, calls, bounds, history>>

\* codegraph init or uninit in another process.
Change(p) ==
  /\ Event /\ bounds.changes < MaxChanges
  /\ disk' = IF p \in disk THEN disk \ {p} ELSE disk \cup {p}
  /\ bounds' = [bounds EXCEPT !.changes = @ + 1]
  /\ UNCHANGED <<launch, engine, default, cache, inst, sess, calls, daemon, history>>

Opened == Event /\ OpenEnds

Next ==
  \/ Opened \/ IdleTimeout \/ Signal \/ Exit
  \/ \E c \in Calls : Resume(c) \/ Asked(c) \/ RunTool(c) \/ ToolsCall(c)
  \/ \E s \in Sessions : Initialize(s) \/ RootsAnswer(s) \/ RootsTimeout(s) \/ Connect(s) \/ Disconnect(s)
  \/ \E p \in Paths : Change(p)

Spec == Init /\ [][Next]_vars

\* Timers fire, opens and the closing of the server end, continuations run.
\* Nobody has to send anything, to stop a server or to answer.
FairSpec ==
  /\ Spec
  /\ WF_vars(Opened) /\ WF_vars(IdleTimeout) /\ WF_vars(launch.daemon /\ Exit)
  /\ \A c \in Calls : WF_vars(Resume(c)) /\ WF_vars(Asked(c)) /\ WF_vars(RunTool(c))
  /\ \A s \in Sessions : WF_vars(RootsTimeout(s))
-----------------------------------------------------------------------------
(* Properties.                                                             *)

Open(p) == {i \in 1..Len(inst) : inst[i].open /\ inst[i].project = p}

\* One connection to each project, however many sessions and calls there are
\* at once, "rather than opening a SECOND connection to the same DB"
\* (tools.ts:719), as long as no open fails and no index comes late.
OneConnection ==
  bounds.failures = 0 /\ bounds.changes = 0 => \A p \in Paths : Cardinality(Open(p)) <= 1

\* The default project is the one that is watched, also when it was opened
\* late, by a call; only the race of the two opens breaks this.
DefaultIsWatched == default # 0 /\ ~engine.closed /\ ~raced => inst[default].watched

\* An answer about the watched project shows the files the watcher holds as
\* pending, also when it was read through another connection to the project.
NoticeFromWatcher ==
  [][\A c \in Calls : calls[c].pc = "execute" /\ calls'[c].used # 0 /\ ~engine.closed =>
       \A i \in 1..Len(inst) :
         inst[i].watched /\ inst[i].project = inst'[calls'[c].used].project => calls'[c].notice = i \/ raced]_vars

\* Nothing is opened behind a question to the client, and a root that it names
\* wins over the directory of the server.
RootsFirst ==
  /\ (\E s \in Sessions : sess[s].lookup = "roots") => default = 0
  /\ named /\ bounds.failures = 0 /\ bounds.changes = 0 /\ default # 0 => inst[default].project = Root

\* A daemon that exits has closed every project it opened, the loser of the race
\* excepted.
ExitClosesAll == launch.daemon /\ daemon.exited /\ ~raced => \A i \in 1..Len(inst) : ~inst[i].open

\* Every call is answered while its client and the server stay: no question to
\* the client and no open is waited for without end.
EveryCallIsAnswered ==
  \A c \in Calls : calls[c].pc = "waiting" ~> calls[c].pc \in {"answered", "dropped"} \/ daemon.exited

\* A daemon that stays without clients stops.
IdleDaemonStops == <>[](launch.daemon /\ Clients = {}) => <>daemon.exited

\* Nothing waits for ever: neither a call, nor a daemon without clients.
NothingHangs == EveryCallIsAnswered /\ IdleDaemonStops

\* The connections of a server: one to a project, the default one watched and the
\* one that a client named, none left open by a daemon that exits.
ConnectionInv == TypeOK /\ OneConnection /\ DefaultIsWatched /\ RootsFirst /\ ExitClosesAll
=============================================================================

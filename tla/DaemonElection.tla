--------------------------- MODULE DaemonElection ---------------------------
(***************************************************************************)
(* How the processes of one project elect the shared MCP daemon            *)
(* (src/src/mcp/{daemon,index,proxy}.ts).  A launcher probes the daemon    *)
(* socket; when nobody answers it spawns a detached daemon candidate and   *)
(* keeps probing, and falls back to an in-process server in the end.       *)
(* Candidates arbitrate a pidfile that is hard-linked into place; one that *)
(* finds it taken exits if the recorded process is alive and otherwise     *)
(* clears the stale file and retries.  One action is one system call on    *)
(* the shared file system (pidfile, socket path) or on another process:    *)
(* that is where operating-system processes interleave.                    *)
(***************************************************************************)
EXTENDS Naturals, FiniteSets

CONSTANTS Procs,        \* daemon candidates; each element is one pid
          OtherVersion, \* the candidates of another package version
          Launchers,    \* MCP launcher processes, all of this version
          None,         \* no file, no record, no peer
          MaxAttempts,  \* bound for TAKEOVER_MAX_RETRIES (5 in the code)
          MaxProbes,    \* bound for DAEMON_CONNECT_MAX_RETRIES (60 in the code)
          MaxCrashes    \* bound on the candidates killed

ASSUME ElectionAssumption ==
  /\ None \notin Procs
  /\ OtherVersion \subseteq Procs
  /\ MaxAttempts \in Nat \ {0}
  /\ MaxProbes \in Nat
  /\ MaxCrashes \in Nat

VARIABLES
  pidfile,   \* the pid recorded in .codegraph/daemon.pid, or None
  sock,      \* the process that bound the file at the socket path, or None
  pc,        \* where each candidate is
  attempt,   \* takeover attempts each candidate has finished
  existing,  \* tryAcquireDaemonLock().existing of each candidate
  record,    \* the record its last read inside clear/cleanup returned
  lpc,       \* where each launcher is
  probes,    \* probes each launcher has failed
  peer,      \* the daemon a launcher's socket is connected to
  overtaken  \* history: a pid-verified unlink hit a record it had not read

procVars == <<pc, attempt, existing, record>>
launcherVars == <<lpc, probes, peer>>
vars == <<pidfile, sock, procVars, launcherVars, overtaken>>

PC == {"unborn", "acquire", "readExisting", "checkAlive", "clearRead",
       "clearAlive", "clearUnlink", "sleep", "unlinkSock", "listen",
       "serving", "closing", "cleanupRead", "cleanupUnlink", "lastUnlink",
       "exited", "crashed"}
LPC == {"probe", "hello", "failed", "attached", "direct", "done"}

TypeOK ==
  /\ pidfile \in Procs \cup {None}
  /\ sock \in Procs \cup {None}
  /\ pc \in [Procs -> PC]
  /\ attempt \in [Procs -> 0..MaxAttempts]
  /\ existing \in [Procs -> Procs \cup {None}]
  /\ record \in [Procs -> Procs \cup {None}]
  /\ lpc \in [Launchers -> LPC]
  /\ probes \in [Launchers -> 0..MaxProbes + 1]
  /\ peer \in [Launchers -> Procs \cup {None}]
  /\ overtaken \in BOOLEAN

Init ==
  /\ pidfile = None
  /\ sock = None
  /\ pc = [p \in Procs |-> "unborn"]
  /\ attempt = [p \in Procs |-> 0]
  /\ existing = [p \in Procs |-> None]
  /\ record = [p \in Procs |-> None]
  /\ lpc = [l \in Launchers |-> "probe"]
  /\ probes = [l \in Launchers |-> 0]
  /\ peer = [l \in Launchers |-> None]
  /\ overtaken = FALSE

\* The signal-0 probe, in a system that does not recycle the pid.
isProcessAlive(p) == pc[p] \notin {"unborn", "exited", "crashed"}

\* A candidate that linked the pidfile and has not yet removed it again.
Elected == {"unlinkSock", "listen", "serving", "closing", "cleanupRead",
            "cleanupUnlink"}
ElectedProcs == {p \in Procs : pc[p] \in Elected}

\* The sessions daemon d counts in `clients`.
ClientsOf(d) == {l \in Launchers : lpc[l] = "attached" /\ peer[l] = d}

Goto(p, label) == pc' = [pc EXCEPT ![p] = label]
-----------------------------------------------------------------------------
(* The candidate: MCPServer.startDaemonProcess and the two lock helpers.   *)

\* link(tmp, pidfile): atomic and exclusive, the record already complete.
TryLink(p) ==
  /\ pc[p] = "acquire"
  /\ \/ /\ pidfile = None
        /\ pidfile' = p
        /\ Goto(p, "unlinkSock")
     \/ /\ pidfile # None
        /\ Goto(p, "readExisting")
        /\ UNCHANGED pidfile
  /\ UNCHANGED <<sock, attempt, existing, record, launcherVars, overtaken>>

\* EEXIST: read the record of the holder; a vanished file reads as null.
ReadExisting(p) ==
  /\ pc[p] = "readExisting"
  /\ existing' = [existing EXCEPT ![p] = pidfile]
  /\ Goto(p, "checkAlive")
  /\ UNCHANGED <<pidfile, sock, attempt, record, launcherVars, overtaken>>

\* A live holder makes this candidate redundant; a dead one is cleared.
CheckHolder(p) ==
  /\ pc[p] = "checkAlive"
  /\ IF existing[p] # None /\ isProcessAlive(existing[p])
       THEN Goto(p, "exited")
       ELSE Goto(p, "clearRead")
  /\ UNCHANGED <<pidfile, sock, attempt, existing, record, launcherVars, overtaken>>

\* clearStaleDaemonLock, first step: re-read and compare with the expected pid.
ClearRead(p) ==
  /\ pc[p] = "clearRead"
  /\ record' = [record EXCEPT ![p] = pidfile]
  /\ IF pidfile = None \/ (existing[p] # None /\ pidfile # existing[p])
       THEN Goto(p, "sleep")
       ELSE Goto(p, "clearAlive")
  /\ UNCHANGED <<pidfile, sock, attempt, existing, launcherVars, overtaken>>

ClearCheckAlive_Dropped(p) ==
  /\ pc[p] = "clearAlive"
  /\ Goto(p, "clearUnlink")
  /\ UNCHANGED <<pidfile, sock, attempt, existing, record, launcherVars, overtaken>>

\* Second step: never clear the lock of a live process.
ClearCheckAlive(p) ==
  /\ pc[p] = "clearAlive"
  /\ IF isProcessAlive(record[p]) THEN Goto(p, "sleep") ELSE Goto(p, "clearUnlink")
  /\ UNCHANGED <<pidfile, sock, attempt, existing, record, launcherVars, overtaken>>

\* Third step: unlink whatever the path names now.
ClearUnlink(p) ==
  /\ pc[p] = "clearUnlink"
  /\ overtaken' = (overtaken \/ (pidfile # None /\ pidfile # record[p]))
  /\ pidfile' = None
  /\ Goto(p, "sleep")
  /\ UNCHANGED <<sock, attempt, existing, record, launcherVars>>

\* Sleep TAKEOVER_RETRY_DELAY_MS, then try again or give up.
SleepAndRetry(p) ==
  /\ pc[p] = "sleep"
  /\ attempt' = [attempt EXCEPT ![p] = @ + 1]
  /\ IF attempt[p] + 1 < MaxAttempts THEN Goto(p, "acquire") ELSE Goto(p, "exited")
  /\ UNCHANGED <<pidfile, sock, existing, record, launcherVars, overtaken>>
-----------------------------------------------------------------------------
(* The elected daemon: Daemon.start and Daemon.stop.                       *)

\* A socket file left by a killed predecessor would wedge listen().
UnlinkStaleSocket(p) ==
  /\ pc[p] = "unlinkSock"
  /\ sock' = None
  /\ Goto(p, "listen")
  /\ UNCHANGED <<pidfile, attempt, existing, record, launcherVars, overtaken>>

\* bind() on a path that exists is EADDRINUSE: start() rejects and the process
\* ends with its pidfile still in place.
Listen(p) ==
  /\ pc[p] = "listen"
  /\ \/ sock = None /\ sock' = p /\ Goto(p, "serving")
     \/ sock # None /\ UNCHANGED sock /\ Goto(p, "crashed")
  /\ UNCHANGED <<pidfile, attempt, existing, record, launcherVars, overtaken>>

\* The idle timer of a daemon without clients fires, or a signal arrives:
\* stop() ends every session and closes the server, and the runtime unlinks
\* the path the server was bound to.
BeginStop(p) ==
  /\ pc[p] = "serving"
  /\ sock' = None
  /\ Goto(p, "closing")
  /\ UNCHANGED <<pidfile, attempt, existing, record, launcherVars, overtaken>>

AwaitClosed_KeepsClients(p) ==
  /\ pc[p] = "closing"
  /\ Goto(p, "cleanupRead")
  /\ UNCHANGED <<pidfile, sock, attempt, existing, record, launcherVars, overtaken>>

\* await server.close() returns when the last connection has ended.
AwaitClosed(p) ==
  /\ pc[p] = "closing"
  /\ ClientsOf(p) = {}
  /\ Goto(p, "cleanupRead")
  /\ UNCHANGED <<pidfile, sock, attempt, existing, record, launcherVars, overtaken>>

\* cleanupLockfile, first step: is the record still ours?
CleanupRead(p) ==
  /\ pc[p] = "cleanupRead"
  /\ record' = [record EXCEPT ![p] = pidfile]
  /\ IF pidfile = p THEN Goto(p, "cleanupUnlink") ELSE Goto(p, "lastUnlink")
  /\ UNCHANGED <<pidfile, sock, attempt, existing, launcherVars, overtaken>>

\* Second step: remove it.
CleanupUnlink(p) ==
  /\ pc[p] = "cleanupUnlink"
  /\ overtaken' = (overtaken \/ (pidfile # None /\ pidfile # p))
  /\ pidfile' = None
  /\ Goto(p, "lastUnlink")
  /\ UNCHANGED <<sock, attempt, existing, record, launcherVars>>

\* The final unlink of the socket path, then process.exit(0).
UnlinkSocketAndExit(p) ==
  /\ pc[p] = "lastUnlink"
  /\ sock' = None
  /\ Goto(p, "exited")
  /\ UNCHANGED <<pidfile, attempt, existing, record, launcherVars, overtaken>>

\* SIGKILL: the process ends, its files stay.
Crash(p) ==
  /\ Cardinality({q \in Procs : pc[q] = "crashed"}) < MaxCrashes
  /\ isProcessAlive(p)
  /\ Goto(p, "crashed")
  /\ UNCHANGED <<pidfile, sock, attempt, existing, record, launcherVars, overtaken>>

\* A launcher of another version spawns its own candidate.
SpawnOther(p) ==
  /\ p \in OtherVersion
  /\ pc[p] = "unborn"
  /\ Goto(p, "acquire")
  /\ UNCHANGED <<pidfile, sock, attempt, existing, record, launcherVars, overtaken>>
-----------------------------------------------------------------------------
(* The launcher: MCPServer.connectOrSpawnDaemon and runProxy.              *)

\* The file at the socket path is bound by a process that still listens.
SocketAnswers == sock # None /\ pc[sock] = "serving"

\* existsSync + connect: a bound, listening socket accepts the connection.
Connect(l) ==
  /\ lpc[l] = "probe"
  /\ SocketAnswers
  /\ lpc' = [lpc EXCEPT ![l] = "hello"]
  /\ peer' = [peer EXCEPT ![l] = sock]
  /\ UNCHANGED <<pidfile, sock, procVars, probes, overtaken>>

\* No socket file, or a file nobody listens on (ECONNREFUSED).
ConnectFails(l) ==
  /\ lpc[l] = "probe"
  /\ ~SocketAnswers
  /\ lpc' = [lpc EXCEPT ![l] = "failed"]
  /\ UNCHANGED <<pidfile, sock, procVars, probes, peer, overtaken>>

\* The daemon accepts, sends its hello, and registers the session; a hello of
\* another version makes the launcher run in-process.
Hello(l) ==
  /\ lpc[l] = "hello"
  /\ pc[peer[l]] = "serving"
  /\ IF peer[l] \in OtherVersion
       THEN /\ lpc' = [lpc EXCEPT ![l] = "direct"]
            /\ peer' = [peer EXCEPT ![l] = None]
       ELSE /\ lpc' = [lpc EXCEPT ![l] = "attached"]
            /\ UNCHANGED peer
  /\ UNCHANGED <<pidfile, sock, procVars, probes, overtaken>>

\* The connection closes before the hello, or three seconds pass without one.
HelloFails(l) ==
  /\ lpc[l] = "hello"
  /\ lpc' = [lpc EXCEPT ![l] = "failed"]
  /\ peer' = [peer EXCEPT ![l] = None]
  /\ UNCHANGED <<pidfile, sock, procVars, probes, overtaken>>

AfterFailedProbe_Unbounded(l) ==
  /\ lpc[l] = "failed"
  /\ probes' = [probes EXCEPT ![l] = IF @ <= MaxProbes THEN @ + 1 ELSE @]
  /\ lpc' = [lpc EXCEPT ![l] = "probe"]
  /\ IF probes[l] = 0
       THEN \E p \in Procs \ OtherVersion : pc[p] = "unborn" /\ Goto(p, "acquire")
       ELSE UNCHANGED pc
  /\ UNCHANGED <<pidfile, sock, attempt, existing, record, peer, overtaken>>

\* After the first failed probe the launcher spawns a candidate; after the
\* last one it falls back to direct mode; in between it probes again.
AfterFailedProbe(l) ==
  /\ lpc[l] = "failed"
  /\ probes' = [probes EXCEPT ![l] = @ + 1]
  /\ lpc' = [lpc EXCEPT ![l] = IF probes[l] < MaxProbes THEN "probe" ELSE "direct"]
  /\ IF probes[l] = 0
       THEN \E p \in Procs \ OtherVersion : pc[p] = "unborn" /\ Goto(p, "acquire")
       ELSE UNCHANGED pc
  /\ UNCHANGED <<pidfile, sock, attempt, existing, record, peer, overtaken>>

\* The host closes stdin, or the daemon's end of the pipe closes: process.exit.
Disconnect(l) ==
  /\ lpc[l] = "attached"
  /\ lpc' = [lpc EXCEPT ![l] = "done"]
  /\ peer' = [peer EXCEPT ![l] = None]
  /\ UNCHANGED <<pidfile, sock, procVars, probes, overtaken>>
-----------------------------------------------------------------------------
Candidate(p) ==
  \/ TryLink(p) \/ ReadExisting(p) \/ CheckHolder(p)
  \/ ClearRead(p) \/ ClearCheckAlive(p) \/ ClearUnlink(p) \/ SleepAndRetry(p)
  \/ UnlinkStaleSocket(p) \/ Listen(p)
  \/ AwaitClosed(p) \/ CleanupRead(p) \/ CleanupUnlink(p) \/ UnlinkSocketAndExit(p)

Launcher(l) ==
  \/ Connect(l) \/ ConnectFails(l) \/ Hello(l) \/ HelloFails(l)
  \/ AfterFailedProbe(l)

\* Everything has ended: no process is left to take a step.
Finished ==
  /\ \A p \in Procs : pc[p] \in {"unborn", "exited", "crashed"}
  /\ \A l \in Launchers : lpc[l] \in {"direct", "done"}
  /\ UNCHANGED vars

Next ==
  \/ \E p \in Procs : Candidate(p) \/ BeginStop(p) \/ Crash(p) \/ SpawnOther(p)
  \/ \E l \in Launchers : Launcher(l) \/ Disconnect(l)
  \/ Finished

Spec == Init /\ [][Next]_vars

\* A running process takes its next step; nobody is obliged to stop a daemon,
\* to kill one or to hang up, except that a closing daemon ends its sessions.
Fairness ==
  /\ \A p \in Procs : WF_vars(Candidate(p))
  /\ \A l \in Launchers :
       /\ WF_vars(Launcher(l))
       /\ WF_vars(peer[l] # None /\ pc[peer[l]] # "serving" /\ Disconnect(l))

FairSpec == Spec /\ Fairness
-----------------------------------------------------------------------------
(* What the election promises.                                             *)

\* Two daemons are elected at once only after a compare-and-delete of the
\* pidfile was overtaken between its read and its unlink (clearStaleDaemonLock);
\* the hard link alone never elects two, whoever crashes when.
OneElected == ~overtaken => Cardinality(ElectedProcs) <= 1

\* The inductive invariant behind OneElected: an elected daemon is the one the
\* pidfile names, a clear about to unlink has read a dead process, and no file
\* names a process that never ran.
ElectionInv ==
  /\ ~overtaken => \A p \in ElectedProcs : pidfile = p
  /\ \A p \in Procs :
       /\ pc[p] = "clearAlive" => record[p] \in Procs
       /\ pc[p] = "clearUnlink" => record[p] \in Procs /\ ~isProcessAlive(record[p])
  /\ pidfile # None => pc[pidfile] # "unborn"
  /\ \A p \in Procs : record[p] # None => pc[record[p]] # "unborn"

\* Launchers whose daemon is running share one daemon: a stopping daemon gives
\* the lock up only after its last session has ended (Daemon.stop).
SingleWinner ==
  ~overtaken =>
    \A k, l \in Launchers :
      /\ lpc[k] = "attached" /\ lpc[l] = "attached"
      /\ isProcessAlive(peer[k]) /\ isProcessAlive(peer[l])
      => peer[k] = peer[l]

\* When nobody was killed and every process has ended, neither a pidfile nor a
\* socket file is left behind for the next launcher to trip over.
CleanShutdown ==
  (\A p \in Procs : pc[p] \in {"unborn", "exited"}) => pidfile = None /\ sock = None

\* A project has one daemon for its launchers, and nothing is left of it when
\* the last has gone.
DaemonIsShared == SingleWinner /\ CleanShutdown

\* A launcher is never blocked: it is attached or serves itself in the end
\* (connectOrSpawnDaemon, "so the user is never blocked").
LauncherServed ==
  \A l \in Launchers : lpc[l] = "probe" ~> lpc[l] \in {"attached", "direct", "done"}

\* A candidate that finds the pidfile of a dead process does not leave it
\* there: the file changes hands, or the candidate is itself killed.
StaleLockCleared ==
  \A p, q \in Procs :
    (pc[p] = "checkAlive" /\ existing[p] = q /\ pidfile = q /\ ~isProcessAlive(q))
      ~> (pidfile # q \/ pc[p] = "crashed")

\* The election ends well: no launcher waits for ever, and no pidfile of a dead
\* daemon stays in the way of the next.
ElectionSettles == LauncherServed /\ StaleLockCleared

\* The election is safe: everything is typed, an elected daemon is the one the
\* pidfile names, and there is one at a time, unless an unlink was overtaken.
ElectionSafe == TypeOK /\ ElectionInv /\ OneElected
-----------------------------------------------------------------------------
(* What comments of the code promise and the code does not keep.           *)

\* "The Daemon owns the socket, the engine, and the lockfile until stop() is
\* called or it exits on idle/signal" (class Daemon).
OwnsSocketWhileServing == \A p \in Procs : pc[p] = "serving" => sock = p
=============================================================================

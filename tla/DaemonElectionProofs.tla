------------------------ MODULE DaemonElectionProofs ------------------------
(* Proofs about DaemonElection, for every set of candidates and launchers, *)
(* every retry bound, and with or without crashes.                         *)
EXTENDS DaemonElection, FiniteSetTheorems, TLAPS

\* What keeps the counters in range: a process that may still count has not
\* used up its retries.
RetriesLeft ==
  /\ \A p \in Procs : pc[p] \notin {"exited", "crashed"} => attempt[p] < MaxAttempts
  /\ \A l \in Launchers :
       lpc[l] \in {"probe", "hello", "failed"} => probes[l] <= MaxProbes

\* Every step keeps the variables in their ranges: in particular no candidate
\* counts more takeover attempts, and no launcher more probes, than allowed.
THEOREM TypeCorrect == Spec => []TypeOK
<1> USE ElectionAssumption DEF ElectionAssumption
<1>1. Init => TypeOK /\ RetriesLeft
  <2>1. 0 \in 0..MaxAttempts /\ 0 \in 0..MaxProbes + 1 /\ 0 < MaxAttempts /\ 0 <= MaxProbes
    OBVIOUS
  <2>2. Init => TypeOK
    <3> SUFFICES ASSUME Init PROVE TypeOK
      OBVIOUS
    <3>1. pc \in [Procs -> PC] /\ lpc \in [Launchers -> LPC]
      BY DEF Init, PC, LPC
    <3>2. attempt \in [Procs -> 0..MaxAttempts]
      BY <2>1 DEF Init
    <3>3. probes \in [Launchers -> 0..MaxProbes + 1]
      BY <2>1 DEF Init
    <3> QED BY <3>1, <3>2, <3>3 DEF Init, TypeOK
  <2>3. Init => RetriesLeft
    BY <2>1 DEF Init, RetriesLeft
  <2> QED BY <2>2, <2>3
<1>2. TypeOK /\ RetriesLeft /\ [Next]_vars => TypeOK' /\ RetriesLeft'
  <2> SUFFICES ASSUME TypeOK, RetriesLeft, [Next]_vars PROVE TypeOK' /\ RetriesLeft'
    OBVIOUS
  <2> USE DEF TypeOK, RetriesLeft, PC, LPC, Goto, procVars, launcherVars
  <2>1. ASSUME NEW p \in Procs, Candidate(p) PROVE TypeOK' /\ RetriesLeft'
    <3>1. CASE TryLink(p) BY <3>1 DEF TryLink
    <3>2. CASE ReadExisting(p) BY <3>2 DEF ReadExisting
    <3>3. CASE CheckHolder(p) BY <3>3 DEF CheckHolder
    <3>4. CASE ClearRead(p) BY <3>4 DEF ClearRead
    <3>5. CASE ClearCheckAlive(p) BY <3>5 DEF ClearCheckAlive
    <3>6. CASE ClearUnlink(p) BY <3>6 DEF ClearUnlink
    <3>7. CASE SleepAndRetry(p) BY <3>7 DEF SleepAndRetry
    <3>8. CASE UnlinkStaleSocket(p) BY <3>8 DEF UnlinkStaleSocket
    <3>9. CASE Listen(p) BY <3>9 DEF Listen
    <3>10. CASE AwaitClosed(p) BY <3>10 DEF AwaitClosed
    <3>11. CASE CleanupRead(p) BY <3>11 DEF CleanupRead
    <3>12. CASE CleanupUnlink(p) BY <3>12 DEF CleanupUnlink
    <3>13. CASE UnlinkSocketAndExit(p) BY <3>13 DEF UnlinkSocketAndExit
    <3> QED BY <2>1, <3>1, <3>2, <3>3, <3>4, <3>5, <3>6, <3>7, <3>8, <3>9,
               <3>10, <3>11, <3>12, <3>13 DEF Candidate
  <2>2. ASSUME NEW p \in Procs, BeginStop(p) \/ Crash(p) \/ SpawnOther(p) PROVE TypeOK' /\ RetriesLeft'
    BY <2>2 DEF BeginStop, Crash, SpawnOther
  <2>3. ASSUME NEW l \in Launchers, Launcher(l) PROVE TypeOK' /\ RetriesLeft'
    <3>1. CASE Connect(l) BY <3>1 DEF Connect, SocketAnswers
    <3>2. CASE ConnectFails(l) BY <3>2 DEF ConnectFails
    <3>3. CASE Hello(l) BY <3>3 DEF Hello
    <3>4. CASE HelloFails(l) BY <3>4 DEF HelloFails
    <3>5. CASE AfterFailedProbe(l) BY <3>5 DEF AfterFailedProbe
    <3> QED BY <2>3, <3>1, <3>2, <3>3, <3>4, <3>5 DEF Launcher
  <2>4. ASSUME NEW l \in Launchers, Disconnect(l) PROVE TypeOK' /\ RetriesLeft'
    BY <2>4 DEF Disconnect
  <2>5. CASE UNCHANGED vars BY <2>5 DEF vars
  <2> QED BY <2>1, <2>2, <2>3, <2>4, <2>5 DEF Next, Finished
<1> QED BY <1>1, <1>2, PTL DEF Spec

\* A process that is not running has run before it, and never runs again: what
\* makes the verdict "the recorded pid is dead" stable.
LEMMA DeadStaysDead ==
  ASSUME TypeOK, [Next]_vars, NEW q \in Procs, pc[q] \in {"exited", "crashed"}
  PROVE  pc'[q] \in {"exited", "crashed"}
<1> USE DEF TypeOK, Goto
<1>1. ASSUME NEW p \in Procs, Candidate(p) PROVE pc'[q] \in {"exited", "crashed"}
  BY <1>1 DEF Candidate, TryLink, ReadExisting, CheckHolder, ClearRead,
     ClearCheckAlive, ClearUnlink, SleepAndRetry, UnlinkStaleSocket, Listen,
     AwaitClosed, CleanupRead, CleanupUnlink, UnlinkSocketAndExit
<1>2. ASSUME NEW p \in Procs, BeginStop(p) \/ Crash(p) \/ SpawnOther(p)
      PROVE pc'[q] \in {"exited", "crashed"}
  BY <1>2 DEF BeginStop, Crash, SpawnOther, isProcessAlive
<1>3. ASSUME NEW l \in Launchers, Launcher(l) \/ Disconnect(l)
      PROVE pc'[q] \in {"exited", "crashed"}
  BY <1>3 DEF Launcher, Connect, ConnectFails, Hello, HelloFails, AfterFailedProbe,
     Disconnect, procVars
<1>4. CASE UNCHANGED vars BY <1>4 DEF vars, procVars
<1> QED BY <1>1, <1>2, <1>3, <1>4 DEF Next, Finished

\* A process that was started stays started.
LEMMA BornStaysBorn ==
  ASSUME TypeOK, [Next]_vars, NEW q \in Procs, pc[q] # "unborn"
  PROVE  pc'[q] # "unborn"
<1> USE DEF TypeOK, Goto
<1>1. ASSUME NEW p \in Procs, Candidate(p) PROVE pc'[q] # "unborn"
  BY <1>1 DEF Candidate, TryLink, ReadExisting, CheckHolder, ClearRead,
     ClearCheckAlive, ClearUnlink, SleepAndRetry, UnlinkStaleSocket, Listen,
     AwaitClosed, CleanupRead, CleanupUnlink, UnlinkSocketAndExit
<1>2. ASSUME NEW p \in Procs, BeginStop(p) \/ Crash(p) \/ SpawnOther(p)
      PROVE pc'[q] # "unborn"
  BY <1>2 DEF BeginStop, Crash, SpawnOther, isProcessAlive
<1>3. ASSUME NEW l \in Launchers, Launcher(l) \/ Disconnect(l)
      PROVE pc'[q] # "unborn"
  BY <1>3 DEF Launcher, Connect, ConnectFails, Hello, HelloFails, AfterFailedProbe,
     Disconnect, procVars
<1>4. CASE UNCHANGED vars BY <1>4 DEF vars, procVars
<1> QED BY <1>1, <1>2, <1>3, <1>4 DEF Next, Finished

\* ElectionInv is inductive.
LEMMA ElectionInvStep == TypeOK /\ ElectionInv /\ [Next]_vars => ElectionInv'
<1> SUFFICES ASSUME TypeOK, ElectionInv, [Next]_vars PROVE ElectionInv'
  OBVIOUS
<1> USE ElectionAssumption DEF ElectionAssumption
<1>d. \A q \in Procs : pc[q] \in {"exited", "crashed"} => pc'[q] \in {"exited", "crashed"}
  BY DeadStaysDead
<1>b. \A q \in Procs : pc[q] # "unborn" => pc'[q] # "unborn"
  BY BornStaysBorn
<1> USE DEF TypeOK, ElectionInv, ElectedProcs, Elected, isProcessAlive, Goto
<1>1. ASSUME NEW p \in Procs, Candidate(p) PROVE ElectionInv'
  <2>1. CASE TryLink(p) BY <2>1, <1>b, <1>d DEF TryLink
  <2>2. CASE ReadExisting(p) BY <2>2, <1>b, <1>d DEF ReadExisting
  <2>3. CASE CheckHolder(p) BY <2>3, <1>b, <1>d DEF CheckHolder
  <2>4. CASE ClearRead(p) BY <2>4, <1>b, <1>d DEF ClearRead
  <2>5. CASE ClearCheckAlive(p) BY <2>5, <1>b, <1>d DEF ClearCheckAlive
  <2>6. CASE ClearUnlink(p) BY <2>6, <1>b, <1>d DEF ClearUnlink
  <2>7. CASE SleepAndRetry(p) BY <2>7, <1>b, <1>d DEF SleepAndRetry
  <2>8. CASE UnlinkStaleSocket(p) BY <2>8, <1>b, <1>d DEF UnlinkStaleSocket
  <2>9. CASE Listen(p) BY <2>9, <1>b, <1>d DEF Listen
  <2>10. CASE AwaitClosed(p) BY <2>10, <1>b, <1>d DEF AwaitClosed
  <2>11. CASE CleanupRead(p) BY <2>11, <1>b, <1>d DEF CleanupRead
  <2>12. CASE CleanupUnlink(p) BY <2>12, <1>b, <1>d DEF CleanupUnlink
  <2>13. CASE UnlinkSocketAndExit(p) BY <2>13, <1>b, <1>d DEF UnlinkSocketAndExit
  <2> QED BY <1>1, <2>1, <2>2, <2>3, <2>4, <2>5, <2>6, <2>7, <2>8, <2>9,
             <2>10, <2>11, <2>12, <2>13 DEF Candidate
<1>2. ASSUME NEW p \in Procs, BeginStop(p) PROVE ElectionInv'
  BY <1>2, <1>b, <1>d DEF BeginStop
<1>3. ASSUME NEW p \in Procs, Crash(p) \/ SpawnOther(p) PROVE ElectionInv'
  BY <1>3, <1>b, <1>d DEF Crash, SpawnOther
<1>4. ASSUME NEW l \in Launchers, Launcher(l) PROVE ElectionInv'
  <2>1. CASE AfterFailedProbe(l) BY <2>1, <1>b, <1>d DEF AfterFailedProbe
  <2>2. CASE Connect(l) \/ ConnectFails(l) \/ Hello(l) \/ HelloFails(l)
    BY <2>2 DEF Connect, ConnectFails, Hello, HelloFails, procVars
  <2> QED BY <1>4, <2>1, <2>2 DEF Launcher
<1>5. ASSUME NEW l \in Launchers, Disconnect(l) PROVE ElectionInv'
  BY <1>5 DEF Disconnect, procVars
<1>6. CASE UNCHANGED vars BY <1>6 DEF vars, procVars
<1> QED BY <1>1, <1>2, <1>3, <1>4, <1>5, <1>6 DEF Next, Finished

\* The pidfile names every elected daemon, unless an unlink was overtaken.
THEOREM PidfileNamesElected == Spec => []ElectionInv
<1>1. Init => ElectionInv
  BY DEF Init, ElectionInv, ElectedProcs, Elected
<1> QED BY <1>1, ElectionInvStep, TypeCorrect, PTL DEF Spec

\* At most one daemon is elected, for any number of candidates and crashes,
\* unless a pid-verified unlink was overtaken.
THEOREM AtMostOneElected == Spec => []OneElected
<1>1. ElectionInv => OneElected
  <2> SUFFICES ASSUME ElectionInv, ~overtaken PROVE Cardinality(ElectedProcs) <= 1
    BY DEF OneElected
  <2>1. CASE ElectedProcs = {}
    BY <2>1, FS_EmptySet
  <2>2. CASE ElectedProcs # {}
    <3>1. ElectedProcs = {pidfile}
      BY <2>2 DEF ElectionInv
    <3> QED BY <3>1, FS_Singleton
  <2> QED BY <2>1, <2>2
<1> QED BY <1>1, PidfileNamesElected, PTL

\* The election is safe for any number of candidates, kills and restarts.
THEOREM ElectionIsSafe == Spec => []ElectionSafe
<1>1. TypeOK /\ ElectionInv /\ OneElected => ElectionSafe
  BY DEF ElectionSafe
<1> QED BY <1>1, TypeCorrect, PidfileNamesElected, AtMostOneElected, PTL

\* A launcher that waits for a hello knows whom it asked; the daemon of an
\* attached launcher is running or was killed; the files name a process that
\* will remove them or was killed.
ShareInv ==
  /\ \A l \in Launchers :
       /\ lpc[l] = "hello" => peer[l] \in Procs
       /\ lpc[l] = "attached" => peer[l] \in Procs /\ pc[peer[l]] \in {"serving", "closing", "crashed"}
  /\ pidfile # None => pc[pidfile] \in Elected \cup {"crashed"}
  /\ sock # None => pc[sock] \in {"serving", "crashed"}

\* ShareInv is inductive: a daemon that stops closes its server first and then
\* waits for its last session before it touches the pidfile.
LEMMA ShareInvStep == TypeOK /\ ShareInv /\ [Next]_vars => ShareInv'
<1> SUFFICES ASSUME TypeOK, ShareInv, [Next]_vars PROVE ShareInv'
  OBVIOUS
<1> USE ElectionAssumption DEF ElectionAssumption
<1> USE DEF TypeOK, ShareInv, Elected, Goto, launcherVars
<1>1. ASSUME NEW p \in Procs, Candidate(p) PROVE ShareInv'
  <2>1. CASE TryLink(p) BY <2>1 DEF TryLink
  <2>2. CASE ReadExisting(p) BY <2>2 DEF ReadExisting
  <2>3. CASE CheckHolder(p) BY <2>3 DEF CheckHolder
  <2>4. CASE ClearRead(p) BY <2>4 DEF ClearRead
  <2>5. CASE ClearCheckAlive(p) BY <2>5 DEF ClearCheckAlive
  <2>6. CASE ClearUnlink(p) BY <2>6 DEF ClearUnlink
  <2>7. CASE SleepAndRetry(p) BY <2>7 DEF SleepAndRetry
  <2>8. CASE UnlinkStaleSocket(p) BY <2>8 DEF UnlinkStaleSocket
  <2>9. CASE Listen(p) BY <2>9 DEF Listen
  <2>10. CASE AwaitClosed(p) BY <2>10 DEF AwaitClosed, ClientsOf
  <2>11. CASE CleanupRead(p) BY <2>11 DEF CleanupRead
  <2>12. CASE CleanupUnlink(p) BY <2>12 DEF CleanupUnlink
  <2>13. CASE UnlinkSocketAndExit(p) BY <2>13 DEF UnlinkSocketAndExit
  <2> QED BY <1>1, <2>1, <2>2, <2>3, <2>4, <2>5, <2>6, <2>7, <2>8, <2>9,
             <2>10, <2>11, <2>12, <2>13 DEF Candidate
<1>2. ASSUME NEW p \in Procs, BeginStop(p) PROVE ShareInv'
  BY <1>2 DEF BeginStop
<1>3. ASSUME NEW p \in Procs, Crash(p) \/ SpawnOther(p) PROVE ShareInv'
  BY <1>3 DEF Crash, SpawnOther
<1>4. ASSUME NEW l \in Launchers, Launcher(l) PROVE ShareInv'
  <2>1. CASE AfterFailedProbe(l) BY <2>1 DEF AfterFailedProbe
  <2>2. CASE Connect(l) BY <2>2 DEF Connect, SocketAnswers, procVars
  <2>3. CASE Hello(l) BY <2>3 DEF Hello, procVars
  <2>4. CASE ConnectFails(l) \/ HelloFails(l) BY <2>4 DEF ConnectFails, HelloFails, procVars
  <2> QED BY <1>4, <2>1, <2>2, <2>3, <2>4 DEF Launcher
<1>5. ASSUME NEW l \in Launchers, Disconnect(l) PROVE ShareInv'
  BY <1>5 DEF Disconnect, procVars
<1>6. CASE UNCHANGED vars BY <1>6 DEF vars, procVars
<1> QED BY <1>1, <1>2, <1>3, <1>4, <1>5, <1>6 DEF Next, Finished

\* Launchers share one daemon, and nothing is left behind when all have ended,
\* for any number of launchers, candidates and probes.
THEOREM DaemonStaysShared == Spec => []DaemonIsShared
<1>1. Init => ShareInv
  BY DEF Init, ShareInv
<1>2. TypeOK /\ ElectionInv /\ ShareInv => DaemonIsShared
  <2> SUFFICES ASSUME TypeOK, ElectionInv, ShareInv PROVE SingleWinner /\ CleanShutdown
    BY DEF DaemonIsShared
  <2>1. SingleWinner
    BY DEF SingleWinner, ShareInv, ElectionInv, ElectedProcs, Elected, isProcessAlive
  <2>2. CleanShutdown
    BY DEF CleanShutdown, ShareInv, TypeOK, Elected
  <2>3. QED BY <2>1, <2>2
<1> QED BY <1>1, <1>2, ShareInvStep, TypeCorrect, PidfileNamesElected, PTL DEF Spec
=============================================================================

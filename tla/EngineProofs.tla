----------------------------- MODULE EngineProofs -----------------------------
(***************************************************************************)
(* Proofs about Engine, for any number of sessions, calls, failures and    *)
(* indexes that come and go.                                               *)
(***************************************************************************)
EXTENDS Engine, FiniteSetTheorems, TLAPS

\* What the command line decides: a daemon has its project, a direct server its
\* one session; and only a daemon that is gone has closed its engine.
ModeInv ==
  /\ launch.path \in {Root, None}
  /\ launch.daemon => launch.path = Root
  /\ ~launch.daemon => \A s, t \in Sessions : sess[s].pc # "absent" /\ sess[t].pc # "absent" => s = t
  /\ engine.closed <=> launch.daemon /\ daemon.exited
  /\ ~engine.closed => engine.cg = default
  /\ engine.watching <=> default # 0
  /\ launch.path = Root => engine.path = Root /\ engine.opening \in {None, Root}
  /\ engine.opening # None => engine.path # None

\* A session asks its client at most once, and only when nothing else names a
\* project; while a promise of it is pending, everyone who comes awaits that one.
SessInv == \A s \in Sessions :
  /\ sess[s].pc \in {"absent", "connected"} =>
       sess[s].promise = None /\ sess[s].handshake = "none" /\ sess[s].lookup = "none"
  /\ sess[s].pc = "connected" /\ launch.path = None => engine.path = None
  /\ sess[s].asked <=> sess[s].lookup # "none"
  /\ sess[s].asked => ~launch.daemon /\ launch.path = None /\ sess[s].handshake = "none"
  /\ sess[s].handshake # "none" /\ default = 0 => engine.path # None
  /\ sess[s].handshake # "roots"
  /\ sess[s].handshake = "opening" => sess[s].promise = "handshake" /\ engine.opening # None
  /\ sess[s].lookup \in {"roots", "opening"} => sess[s].promise = "lookup"
  /\ sess[s].lookup = "opening" => engine.opening # None
  /\ sess[s].lookup = "roots" => default = 0 /\ engine.opening = None
  /\ sess[s].lookup = "settled" /\ default = 0 => engine.path # None

\* A call awaits a promise of its session that exists; it waits for none only at
\* the moment it arrives, when nothing else is about to run.
CallInv == \A c \in Calls :
  /\ calls[c].pc # "unsent" =>
       calls[c].session \in Sessions /\ sess[calls[c].session].pc \in {"ready", "closed"}
  /\ calls[c].pc \in {"waiting", "asking"} =>
       /\ calls[c].awaits = "handshake" => sess[calls[c].session].handshake # "none"
       /\ calls[c].awaits = "lookup" => sess[calls[c].session].lookup # "none"
  /\ calls[c].pc = "waiting" /\ calls[c].awaits = None =>
       /\ sess[calls[c].session].pc = "ready"
       /\ sess[calls[c].session].handshake # "opening"
       /\ sess[calls[c].session].lookup \notin {"roots", "opening"}
       /\ \A d \in Calls : d # c => ~Ready(d)
  /\ calls[c].pc = "asking" =>
       /\ calls[c].awaits = "lookup"
       /\ \A d \in Calls : calls[d].pc = "asking" => d = c

\* Every instance that is open is the default or in the cache under its path, and
\* only the default is watched, unless the two opens raced.
InstInv ==
  /\ \A p \in Paths : cache[p] # 0 => inst[cache[p]].project = p
  /\ default # 0 /\ engine.opening # None => raced
  /\ ~raced /\ ~engine.closed =>
       /\ \A i \in 1..Len(inst) : inst[i].open => i = default \/ \E p \in Paths : cache[p] = i
       /\ \A i \in 1..Len(inst) : inst[i].watched => i = default
       /\ default # 0 => inst[default].watched

\* No open has failed and no index has come or gone.
Undisturbed == bounds.failures = 0 /\ bounds.changes = 0

\* There is nothing that could still become the default.
Hopeless ==
  /\ engine.opening = None
  /\ engine.path \in Paths \ disk
  /\ \A c \in Calls : calls[c].pc # "asking"
  /\ \A s \in Sessions : sess[s].lookup # "roots" /\ (~launch.daemon => sess[s].pc # "connected")

\* Before there is a default: an open in flight is one that all sessions wait
\* for, what has settled found no index, and no call has got past the search for
\* a default that may still come.
NoDefaultInv == default = 0 =>
  /\ engine.opening # None => \A s \in Sessions :
       /\ sess[s].pc = "ready" => sess[s].handshake = "opening" \/ sess[s].lookup = "opening"
       /\ sess[s].handshake \in {"none", "opening"} /\ sess[s].lookup \in {"none", "opening"}
  /\ engine.opening = None /\ launch.path = Root => Root \notin disk
  /\ \A s \in Sessions :
       /\ sess[s].handshake = "settled" => Root \notin disk
       /\ sess[s].lookup = "settled" => engine.path \notin disk
  /\ (\E c \in Calls : calls[c].pc \in {"execute", "answered", "dropped"}) => Hopeless
  /\ (\E p \in Paths : cache[p] # 0) => Hopeless

\* While nothing fails and no index comes late, the opens do not race, the
\* project that a client named becomes the default, and the default is not open
\* a second time.
QuietInv == Undisturbed =>
  /\ ~raced
  /\ engine.opening # None => engine.opening \in disk
  /\ NoDefaultInv
  /\ default # 0 => cache[inst[default].project] = 0
  /\ named => /\ Root \in disk
              /\ default = 0 => engine.opening = Root
              /\ default # 0 => inst[default].project = Root

IInv ==
  /\ TypeOK /\ ModeInv /\ SessInv /\ CallInv /\ InstInv /\ QuietInv /\ ExitClosesAll
-----------------------------------------------------------------------------
\* What a new default changes.
LEMMA MakeDefaultFacts ==
  ASSUME TypeOK, NEW p \in Paths, NEW o \in Paths \cup {None}, MakeDefault(p, o)
  PROVE  /\ inst' \in Seq(Instance) /\ Len(inst) \in Nat /\ Len(inst') = Len(inst) + 1
         /\ default' = Len(inst) + 1 /\ default' # 0 /\ default' \in 1..Len(inst')
         /\ \A i \in 1..Len(inst) : inst'[i] = inst[i]
         /\ inst'[default'].project = p /\ inst'[default'].open
         /\ inst'[default'].watched = ~engine.watching
         /\ engine' \in EngineStates(Len(inst'))
         /\ engine'.path = p /\ engine'.opening = o /\ engine'.cg = default'
         /\ engine'.watching = TRUE /\ engine'.closed = engine.closed
<1> DEFINE new == [project |-> p, open |-> TRUE, watched |-> ~engine.watching]
<1>1. new \in Instance
  BY DEF TypeOK, Instance, EngineStates
<1>2. /\ inst' = Append(inst, new) /\ default' = Len(inst) + 1
      /\ engine' = [engine EXCEPT !.path = p, !.cg = default', !.watching = TRUE, !.opening = o]
  BY DEF MakeDefault, Watching
<1> HIDE DEF new
<1>3. /\ inst' \in Seq(Instance) /\ Len(inst) \in Nat /\ Len(inst') = Len(inst) + 1
      /\ \A i \in 1..Len(inst) : inst'[i] = inst[i]
      /\ inst'[default'] = new
  BY <1>1, <1>2 DEF TypeOK
<1>4. /\ engine' \in EngineStates(Len(inst'))
      /\ engine'.path = p /\ engine'.opening = o /\ engine'.cg = default'
      /\ engine'.watching = TRUE /\ engine'.closed = engine.closed
  <2>1. engine \in EngineStates(Len(inst)) /\ default' \in 0..Len(inst')
    BY <1>2, <1>3 DEF TypeOK
  <2> HIDE DEF TypeOK
  <2> QED BY <1>2, <1>3, <2>1 DEF EngineStates
<1> QED BY <1>2, <1>3, <1>4 DEF new

\* The four things ensureInitialized may do.
LEMMA EnsuredFacts ==
  ASSUME TypeOK, NEW p \in Paths
  PROVE  \/ (engine.closed \/ default # 0) /\ Ensured(p) = <<engine, "settled">>
         \/ ~engine.closed /\ default = 0 /\ engine.opening # None /\ Ensured(p) = <<engine, "opening">>
         \/ /\ ~engine.closed /\ default = 0 /\ engine.opening = None /\ p \in disk
            /\ Ensured(p) = <<[engine EXCEPT !.path = p, !.opening = p], "opening">>
         \/ /\ ~engine.closed /\ default = 0 /\ engine.opening = None /\ p \notin disk
            /\ Ensured(p) = <<[engine EXCEPT !.path = p], "settled">>
BY DEF Ensured, TypeOK

\* An open that ends settles the promises that wait for it and no others.
LEMMA SettleFacts ==
  ASSUME TypeOK
  PROVE  /\ Settle \in [Sessions -> Session]
         /\ \A s \in Sessions :
              /\ Settle[s].pc = sess[s].pc /\ Settle[s].roots = sess[s].roots
              /\ Settle[s].asked = sess[s].asked /\ Settle[s].promise = sess[s].promise
              /\ Settle[s].handshake = IF sess[s].handshake = "opening" THEN "settled" ELSE sess[s].handshake
              /\ Settle[s].lookup = IF sess[s].lookup = "opening" THEN "settled" ELSE sess[s].lookup
<1> DEFINE New(s) == [sess[s] EXCEPT !.handshake = IF @ = "opening" THEN "settled" ELSE @,
                                     !.lookup = IF @ = "opening" THEN "settled" ELSE @]
<1>1. ASSUME NEW s \in Sessions
      PROVE  /\ New(s) \in Session
             /\ New(s).pc = sess[s].pc /\ New(s).roots = sess[s].roots
             /\ New(s).asked = sess[s].asked /\ New(s).promise = sess[s].promise
             /\ New(s).handshake = IF sess[s].handshake = "opening" THEN "settled" ELSE sess[s].handshake
             /\ New(s).lookup = IF sess[s].lookup = "opening" THEN "settled" ELSE sess[s].lookup
  <2>1. sess[s] \in Session
    BY DEF TypeOK
  <2> QED BY <2>1 DEF Session, PromiseState
<1>2. Settle = [s \in Sessions |-> New(s)]
  BY DEF Settle
<1> HIDE DEF New
<1>3. Settle \in [Sessions -> Session]
  BY <1>1, <1>2
<1> QED BY <1>1, <1>2, <1>3

\* What retryInitializeSync may do: nothing, since there is a default or no index;
\* nothing, since the open throws; or open the project and make it the default.
LEMMA RetryFacts ==
  ASSUME IInv, NEW path \in Paths, ~daemon.exited, RetryInitializeSync(path)
  PROVE  \/ UNCHANGED <<engine, inst, default, bounds, raced>> /\ (default # 0 \/ path \notin disk)
         \/ /\ UNCHANGED <<engine, inst, default, raced>> /\ ~Undisturbed'
            /\ bounds' \in [failures : 0..MaxFailures, changes : 0..MaxChanges]
         \/ /\ default = 0 /\ path \in disk /\ UNCHANGED bounds
            /\ MakeDefault(path, engine.opening) /\ raced' = (raced \/ engine.opening # None)
<1> USE EngineAssumption
<1>1. ~engine.closed
  BY DEF IInv, ModeInv
<1>2. ASSUME Throws
      PROVE  ~Undisturbed' /\ bounds' \in [failures : 0..MaxFailures, changes : 0..MaxChanges]
  <2>1. bounds \in [failures : 0..MaxFailures, changes : 0..MaxChanges]
    BY DEF IInv, TypeOK
  <2>2. bounds.failures < MaxFailures /\ bounds' = [bounds EXCEPT !.failures = bounds.failures + 1]
    BY <1>2 DEF Throws
  <2> QED BY <2>1, <2>2 DEF Undisturbed, EngineAssumption
<1> QED BY <1>1, <1>2 DEF RetryInitializeSync

\* Of what it may do, the invariants of modes and instances and the types notice
\* nothing.
LEMMA RetryKeeps ==
  ASSUME IInv, NEW path \in Paths, ~daemon.exited, RetryInitializeSync(path),
         launch.path = Root => path = Root,
         UNCHANGED <<launch, disk, cache, daemon, named>>,
         \A s \in Sessions : sess'[s].pc = sess[s].pc
  PROVE  /\ engine' \in EngineStates(Len(inst')) /\ default' \in 0..Len(inst')
         /\ inst' \in Seq(Instance) /\ cache' \in [Paths -> 0..Len(inst')]
         /\ bounds' \in [failures : 0..MaxFailures, changes : 0..MaxChanges] /\ raced' \in BOOLEAN
         /\ default' # 0 /\ ~engine'.closed => engine'.cg = default'
         /\ ModeInv' /\ InstInv'
         /\ engine'.opening = engine.opening
         /\ default' = 0 => default = 0 /\ engine' = engine
<1> USE EngineAssumption
<1>t. TypeOK /\ ModeInv /\ InstInv /\ Len(inst) \in Nat
  BY DEF IInv, TypeOK
<1>1. CASE UNCHANGED <<engine, inst, default, raced>>
  <2>1. bounds' \in [failures : 0..MaxFailures, changes : 0..MaxChanges]
    BY <1>t, RetryFacts DEF TypeOK
  <2>2. ModeInv'
    BY <1>t, <1>1 DEF ModeInv
  <2>3. InstInv'
    BY <1>t, <1>1 DEF InstInv
  <2> QED BY <1>t, <1>1, <2>1, <2>2, <2>3 DEF TypeOK
<1>2. CASE /\ default = 0 /\ path \in disk /\ UNCHANGED bounds
           /\ MakeDefault(path, engine.opening) /\ raced' = (raced \/ engine.opening # None)
  <2>0. engine.opening \in Paths \cup {None} /\ ~engine.closed
    BY <1>t DEF TypeOK, EngineStates, ModeInv
  <2>1. /\ inst' \in Seq(Instance) /\ Len(inst') = Len(inst) + 1
        /\ default' = Len(inst) + 1 /\ default' # 0 /\ default' \in 1..Len(inst')
        /\ \A i \in 1..Len(inst) : inst'[i] = inst[i]
        /\ inst'[default'].watched = ~engine.watching
        /\ engine' \in EngineStates(Len(inst'))
        /\ engine'.path = path /\ engine'.opening = engine.opening /\ engine'.cg = default'
        /\ engine'.watching = TRUE /\ engine'.closed = engine.closed
    BY <1>t, <1>2, <2>0, MakeDefaultFacts
  <2>2. cache' \in [Paths -> 0..Len(inst')]
    BY <1>t, <2>1 DEF TypeOK
  <2>3. ModeInv'
    <3>1. ~engine'.closed /\ ~daemon'.exited
      BY <2>0, <2>1
    <3> QED BY <1>t, <2>1, <3>1 DEF ModeInv
  <2>4. InstInv'
    <3>1. \A p \in Paths : cache[p] \in 0..Len(inst)
      BY <1>t DEF TypeOK
    <3>2. \A p \in Paths : cache'[p] # 0 => inst'[cache'[p]].project = p
      BY <1>t, <2>1, <3>1 DEF InstInv
    <3>3. ASSUME ~raced, NEW i \in 1..Len(inst')
          PROVE  /\ inst'[i].open => i = default' \/ \E p \in Paths : cache[p] = i
                 /\ inst'[i].watched => i = default'
      BY <1>t, <1>2, <2>0, <2>1, <3>3 DEF InstInv
    <3>4. inst'[default'].watched
      BY <1>t, <1>2, <2>1 DEF ModeInv
    <3> QED BY <1>2, <2>1, <3>2, <3>3, <3>4 DEF InstInv
  <2> QED BY <1>t, <1>2, <2>1, <2>2, <2>3, <2>4 DEF TypeOK
<1> QED BY <1>1, <1>2, RetryFacts

\* A call whose wait is over belongs to a session that waits for nothing; while
\* nothing fails and no index comes late, no open is in flight behind it that
\* could still give a default.
LEMMA NothingPending ==
  ASSUME IInv, NEW c \in Calls, calls[c].pc \in {"waiting", "asking"}, Settled(c)
  PROVE  /\ calls[c].session \in Sessions /\ sess[calls[c].session].pc \in {"ready", "closed"}
         /\ sess[calls[c].session].handshake \in {"none", "settled"}
         /\ sess[calls[c].session].lookup \in {"none", "settled"}
         /\ \A t \in Sessions :
              /\ sess[t].lookup # "roots"
              /\ ~launch.daemon => sess[t].pc # "connected"
         /\ Undisturbed /\ default = 0 => engine.opening = None
<1> DEFINE s == calls[c].session
<1>1. calls[c] \in Call
  BY DEF IInv, TypeOK
<1>2. s \in Sessions /\ sess[s].pc \in {"ready", "closed"} /\ calls[c].awaits \in {None, "handshake", "lookup"}
  BY <1>1 DEF IInv, CallInv, Call, Promises
<1>3. sess[s] \in Session
  BY <1>2 DEF IInv, TypeOK
<1>7. ASSUME sess[s].lookup # "roots", NEW t \in Sessions
      PROVE  sess[t].lookup # "roots" /\ (~launch.daemon => sess[t].pc # "connected")
  <2>1. CASE t = s
    BY <1>2, <1>7, <2>1
  <2>2. CASE t # s
    <3>1. launch.daemon \/ sess[t].pc = "absent"
      BY <1>2, <2>2 DEF IInv, ModeInv
    <3> QED BY <3>1 DEF IInv, SessInv
  <2> QED BY <2>1, <2>2
<1>4. CASE calls[c].awaits = None
  <2>1. calls[c].pc = "waiting"
    BY <1>4, EngineAssumption DEF IInv, CallInv, Promises
  <2>2. /\ sess[s].pc = "ready" /\ sess[s].handshake \in {"none", "settled"}
        /\ sess[s].lookup \in {"none", "settled"}
    BY <1>2, <1>3, <1>4, <2>1 DEF IInv, CallInv, SessInv, Session, PromiseState
  <2>3. Undisturbed /\ default = 0 => engine.opening = None
    BY <1>2, <2>2 DEF IInv, QuietInv, NoDefaultInv
  <2> QED BY <1>2, <1>7, <2>2, <2>3
<1>5. CASE calls[c].awaits = "handshake"
  <2>1. sess[s].handshake = "settled"
    BY <1>5, EngineAssumption DEF Settled, Promises
  <2>2. sess[s].lookup = "none"
    BY <1>2, <2>1 DEF IInv, SessInv
  <2>3. Undisturbed /\ default = 0 => engine.opening = None
    BY <1>2, <2>1, <2>2 DEF IInv, QuietInv, NoDefaultInv
  <2> QED BY <1>2, <1>7, <2>1, <2>2, <2>3
<1>6. CASE calls[c].awaits = "lookup"
  <2>1. sess[s].lookup = "settled"
    BY <1>6, EngineAssumption DEF Settled, Promises
  <2>2. sess[s].handshake = "none"
    BY <1>2, <2>1 DEF IInv, SessInv
  <2>3. Undisturbed /\ default = 0 => engine.opening = None
    BY <1>2, <2>1, <2>2 DEF IInv, QuietInv, NoDefaultInv
  <2> QED BY <1>2, <1>7, <2>1, <2>2, <2>3
<1> QED BY <1>2, <1>4, <1>5, <1>6, <1>7

\* Whoever asks its client is alone with it: nobody else waits, nothing is opened,
\* and no call has got any further.
LEMMA AskingIsFirst ==
  ASSUME IInv, NEW c \in Calls, calls[c].pc = "waiting", Settled(c), default = 0,
         launch.path = None, engine.path = None, ~sess[calls[c].session].asked
  PROVE  /\ ~launch.daemon /\ engine.opening = None
         /\ \A t \in Sessions : t # calls[c].session => sess[t].pc = "absent"
         /\ \A t \in Sessions : sess[t].handshake = "none" /\ sess[t].lookup = "none"
         /\ \A d \in Calls : d # c => calls[d].pc \notin {"waiting", "asking"}
<1> DEFINE s == calls[c].session
<1>1. ~launch.daemon /\ engine.opening = None
  BY EngineAssumption DEF IInv, ModeInv, Paths
<1>2. s \in Sessions /\ sess[s].pc \in {"ready", "closed"}
  BY NothingPending
<1>3. \A t \in Sessions : t # s => sess[t].pc = "absent"
  BY <1>1, <1>2 DEF IInv, ModeInv
<1>4. \A t \in Sessions : sess[t].handshake = "none" /\ sess[t].lookup = "none"
  BY <1>2, <1>3 DEF IInv, SessInv
<1>5. \A d \in Calls : calls[d].pc \in {"waiting", "asking"} => calls[d].session = s
  BY <1>2, <1>3 DEF IInv, CallInv
<1>6. \A d \in Calls : calls[d].pc \in {"waiting", "asking"} => calls[d].pc = "waiting" /\ calls[d].awaits = None
  <2> SUFFICES ASSUME NEW d \in Calls, calls[d].pc \in {"waiting", "asking"}
               PROVE  calls[d].pc = "waiting" /\ calls[d].awaits = None
    OBVIOUS
  <2>1. calls[d].awaits \in {None, "handshake", "lookup"}
    BY DEF IInv, TypeOK, Call, Promises
  <2> QED BY <1>2, <1>4, <1>5, <2>1, EngineAssumption DEF IInv, CallInv, Promises
<1>7. ASSUME NEW d \in Calls, d # c, calls[d].pc \in {"waiting", "asking"} PROVE FALSE
  <2>1. Ready(d)
    BY <1>6, <1>7 DEF Ready, Settled
  <2> QED BY <1>6, <1>7, <2>1 DEF IInv, CallInv
<1> QED BY <1>1, <1>3, <1>4, <1>7

\* A call that goes on, and the promise its session forgets, leave sessions and
\* calls in order.
LEMMA GoesOn ==
  ASSUME IInv, NEW c \in Calls, calls[c].pc \in {"waiting", "asking"}, Settled(c),
         NEW p \in {None, sess[calls[c].session].promise},
         sess' = [sess EXCEPT ![calls[c].session].promise = p], Execute(c), launch' = launch,
         engine'.opening = engine.opening, default' = 0 => default = 0 /\ engine' = engine
  PROVE  /\ sess' \in [Sessions -> Session] /\ calls' \in [Calls -> Call]
         /\ \A t \in Sessions : sess'[t].promise # None => sess'[t][sess'[t].promise] # "none"
         /\ \A t \in Sessions :
              /\ sess'[t].pc = sess[t].pc /\ sess'[t].handshake = sess[t].handshake
              /\ sess'[t].lookup = sess[t].lookup
         /\ calls'[c].pc = "execute" /\ \A d \in Calls : d # c => calls'[d] = calls[d]
         /\ SessInv' /\ CallInv'
<1> USE EngineAssumption
<1> DEFINE s == calls[c].session
<1>t. TypeOK /\ ModeInv /\ SessInv /\ CallInv
  BY DEF IInv
<1>1. /\ s \in Sessions /\ sess[s].pc \in {"ready", "closed"}
      /\ sess[s].handshake \in {"none", "settled"} /\ sess[s].lookup \in {"none", "settled"}
  BY NothingPending
<1>2. sess[s].promise \in Promises \cup {None} /\ sess[s] \in Session /\ calls[c] \in Call
  BY <1>t, <1>1 DEF TypeOK, Session
<1>3. /\ sess' \in [Sessions -> Session]
      /\ sess'[s] = [sess[s] EXCEPT !.promise = p]
      /\ \A t \in Sessions : t # s => sess'[t] = sess[t]
  BY <1>t, <1>1, <1>2 DEF TypeOK, Session
<1>4. /\ sess'[s].pc = sess[s].pc /\ sess'[s].asked = sess[s].asked
      /\ sess'[s].handshake = sess[s].handshake /\ sess'[s].lookup = sess[s].lookup
      /\ sess'[s].promise # None => sess'[s] = sess[s]
  BY <1>2, <1>3 DEF Session
<1>5. /\ calls' \in [Calls -> Call]
      /\ calls'[c].pc = "execute" /\ calls'[c].session = s
      /\ \A d \in Calls : d # c => calls'[d] = calls[d]
  BY <1>t, <1>2 DEF TypeOK, Execute, Call
<1>6. \A t \in Sessions : sess'[t].promise # None => sess'[t][sess'[t].promise] # "none"
  BY <1>t, <1>3, <1>4 DEF TypeOK
<1>7. \A t \in Sessions : sess[t].lookup # "roots" /\ (launch.path = None => sess[t].pc # "connected")
  <2>1. launch.path = None => ~launch.daemon
    BY <1>t DEF ModeInv, Paths
  <2> QED BY <2>1, NothingPending
<1>8. SessInv'
  <2> SUFFICES ASSUME NEW t \in Sessions
               PROVE  /\ sess'[t].pc \in {"absent", "connected"} =>
                           sess'[t].promise = None /\ sess'[t].handshake = "none" /\ sess'[t].lookup = "none"
                      /\ sess'[t].pc = "connected" /\ launch'.path = None => engine'.path = None
                      /\ sess'[t].asked <=> sess'[t].lookup # "none"
                      /\ sess'[t].asked => ~launch'.daemon /\ launch'.path = None /\ sess'[t].handshake = "none"
                      /\ sess'[t].handshake # "none" /\ default' = 0 => engine'.path # None
                      /\ sess'[t].handshake # "roots"
                      /\ sess'[t].handshake = "opening" => sess'[t].promise = "handshake" /\ engine'.opening # None
                      /\ sess'[t].lookup \in {"roots", "opening"} => sess'[t].promise = "lookup"
                      /\ sess'[t].lookup = "opening" => engine'.opening # None
                      /\ sess'[t].lookup = "roots" => default' = 0 /\ engine'.opening = None
                      /\ sess'[t].lookup = "settled" /\ default' = 0 => engine'.path # None
    BY DEF SessInv
  <2>1. CASE t = s
    BY <1>t, <1>1, <1>4, <1>7, <2>1 DEF SessInv
  <2>2. CASE t # s
    BY <1>t, <1>3, <1>7, <2>2 DEF SessInv
  <2> QED BY <2>1, <2>2
<1>9. CallInv'
  <2>1. \A d \in Calls : ~(calls[d].pc = "waiting" /\ calls[d].awaits = None /\ d # c)
    BY <1>t DEF CallInv, Ready
  <2>2. \A d \in Calls : calls'[d].pc = "waiting" => calls'[d].awaits # None
    BY <1>5, <2>1
  <2> QED BY <1>t, <1>1, <1>3, <1>4, <1>5, <2>2 DEF CallInv
<1> QED BY <1>3, <1>4, <1>5, <1>6, <1>8, <1>9

\* A call that goes on: no promise changes, no other call, and no other asks.
PromisesKept == \A t \in Sessions :
  sess'[t].pc = sess[t].pc /\ sess'[t].handshake = sess[t].handshake /\ sess'[t].lookup = sess[t].lookup
Executed(c) == calls'[c].pc = "execute" /\ \A d \in Calls : d # c => calls'[d] = calls[d]
AsksAlone(c) == \A d \in Calls : d # c => calls[d].pc # "asking"

\* It tries the path the engine was told last, or that one has no index.
LastChance(c, path) == Undisturbed /\ default = 0 =>
  engine.path \in Paths /\ (engine.path = path \/ (calls[c].pc = "asking" /\ engine.path \notin disk))

\* A call that retries the initialisation and goes on disturbs nothing.
LEMMA RetryQuiet ==
  ASSUME IInv, NEW c \in Calls, calls[c].pc \in {"waiting", "asking"}, Settled(c), ~daemon.exited,
         NEW path \in Paths, RetryInitializeSync(path),
         UNCHANGED <<launch, disk, cache, daemon, named>>,
         PromisesKept, Executed(c), AsksAlone(c), LastChance(c, path)
  PROVE  QuietInv'
<1> USE DEF PromisesKept, Executed, AsksAlone, LastChance
<1> SUFFICES ASSUME Undisturbed' PROVE QuietInv'
  BY DEF QuietInv
<1>1. /\ \A t \in Sessions : sess[t].lookup # "roots" /\ (~launch.daemon => sess[t].pc # "connected")
      /\ Undisturbed /\ default = 0 => engine.opening = None
  BY NothingPending
<1>2. CASE UNCHANGED <<engine, inst, default, bounds, raced>> /\ (default # 0 \/ path \notin disk)
  <2>1. Undisturbed
    BY <1>2 DEF Undisturbed
  <2>2. QuietInv
    BY DEF IInv
  <2>3. NoDefaultInv'
    <3> SUFFICES ASSUME default = 0 PROVE NoDefaultInv'
      BY <1>2 DEF NoDefaultInv
    <3>1. Hopeless'
      BY <1>1, <1>2, <2>1 DEF Hopeless
    <3> QED BY <1>2, <2>1, <2>2, <3>1 DEF NoDefaultInv, QuietInv
  <2> QED BY <1>2, <2>1, <2>2, <2>3 DEF QuietInv
<1>3. CASE /\ default = 0 /\ path \in disk /\ UNCHANGED bounds
           /\ MakeDefault(path, engine.opening) /\ raced' = (raced \/ engine.opening # None)
  <2>1. Undisturbed /\ QuietInv /\ TypeOK
    BY <1>3 DEF Undisturbed, IInv
  <2>2. engine.opening = None
    BY <1>1, <1>3, <2>1
  <2>3. default' # 0 /\ inst'[default'].project = path /\ engine'.opening = None
    BY <1>3, <2>1, <2>2, MakeDefaultFacts
  <2>4. ~raced'
    BY <1>3, <2>1, <2>2 DEF QuietInv
  <2>5. ~Hopeless
    BY <1>3, <2>1 DEF Hopeless
  <2>6. \A p \in Paths : cache[p] = 0
    BY <1>3, <2>1, <2>5 DEF QuietInv, NoDefaultInv
  <2>7. ~named
    BY <1>3, <2>1, <2>2, EngineAssumption DEF QuietInv, Paths
  <2> QED BY <2>3, <2>4, <2>6, <2>7 DEF QuietInv, NoDefaultInv
<1>4. CASE ~Undisturbed'
  BY <1>4
<1> QED BY <1>2, <1>3, <1>4, RetryFacts

\* An open that ends gives a default, or leaves its waiters to their last chance.
LEMMA OpenedInv == ASSUME IInv, Opened PROVE IInv'
<1> USE EngineAssumption
<1>t. TypeOK /\ ModeInv /\ SessInv /\ CallInv /\ InstInv /\ QuietInv /\ ExitClosesAll
  BY DEF IInv
<1>f. /\ engine.opening \in Paths /\ engine.path \in Paths /\ Len(inst) \in Nat /\ ~engine.closed
      /\ ~daemon.exited
      /\ sess' = Settle /\ UNCHANGED <<launch, disk, cache, calls, daemon, raced, named>>
  BY <1>t DEF Opened, OpenEnds, Event, history, TypeOK, EngineStates, ModeInv
<1>s. /\ sess' \in [Sessions -> Session]
      /\ \A s \in Sessions :
           /\ sess'[s].pc = sess[s].pc /\ sess'[s].roots = sess[s].roots
           /\ sess'[s].asked = sess[s].asked /\ sess'[s].promise = sess[s].promise
           /\ sess'[s].handshake = IF sess[s].handshake = "opening" THEN "settled" ELSE sess[s].handshake
           /\ sess'[s].lookup = IF sess[s].lookup = "opening" THEN "settled" ELSE sess[s].lookup
  BY <1>t, <1>f, SettleFacts
<1>p. \A s \in Sessions : sess'[s].promise # None => sess'[s][sess'[s].promise] # "none"
  <2> SUFFICES ASSUME NEW s \in Sessions, sess'[s].promise # None PROVE sess'[s][sess'[s].promise] # "none"
    OBVIOUS
  <2>1. sess[s].promise \in {"handshake", "lookup"} /\ sess[s][sess[s].promise] # "none"
    BY <1>t, <1>s DEF TypeOK, Session, Promises
  <2> QED BY <1>s, <2>1
<1>1. CallInv'
  <2>1. \A c \in Calls : ~Ready(c)
    BY DEF Opened, Event
  <2> QED BY <1>t, <1>f, <1>s, <2>1 DEF CallInv, Ready, Settled
<1>2. CASE MakeDefault(engine.opening, None) /\ engine.opening \in disk /\ UNCHANGED bounds
  <2>1. /\ inst' \in Seq(Instance) /\ Len(inst') = Len(inst) + 1
        /\ default' = Len(inst) + 1 /\ default' # 0 /\ default' \in 1..Len(inst')
        /\ \A i \in 1..Len(inst) : inst'[i] = inst[i]
        /\ inst'[default'].project = engine.opening /\ inst'[default'].watched = ~engine.watching
        /\ engine' \in EngineStates(Len(inst'))
        /\ engine'.path = engine.opening /\ engine'.opening = None /\ engine'.cg = default'
        /\ engine'.watching = TRUE /\ engine'.closed = engine.closed
    BY <1>t, <1>f, <1>2, MakeDefaultFacts
  <2>2. TypeOK'
    <3>2. cache' \in [Paths -> 0..Len(inst')]
      BY <1>t, <1>f, <2>1 DEF TypeOK
    <3> QED BY <1>t, <1>f, <1>s, <1>p, <1>2, <2>1, <3>2 DEF TypeOK, EngineStates
  <2>3. ModeInv'
    <3>1. engine' \in EngineStates(Len(inst')) /\ engine \in EngineStates(Len(inst))
      BY <1>t, <2>1 DEF TypeOK
    <3>2. launch.path = Root => engine'.path = Root
      BY <1>t, <1>f, <2>1 DEF ModeInv
    <3>3. ~engine'.closed /\ ~daemon'.exited
      BY <1>f, <2>1
    <3>4. ~launch.daemon => \A s, t \in Sessions : sess'[s].pc # "absent" /\ sess'[t].pc # "absent" => s = t
      BY <1>t, <1>s DEF ModeInv
    <3> QED BY <1>t, <1>f, <2>1, <3>2, <3>3, <3>4 DEF ModeInv
  <2>4. SessInv'
    BY <1>t, <1>f, <1>s, <2>1 DEF SessInv, TypeOK, Session, PromiseState
  <2>5. InstInv'
    <3>1. \A p \in Paths : cache[p] \in 0..Len(inst)
      BY <1>t DEF TypeOK
    <3>2. \A p \in Paths : cache'[p] # 0 => inst'[cache'[p]].project = p
      BY <1>t, <1>f, <2>1, <3>1 DEF InstInv
    <3>3. default = 0 \/ raced
      BY <1>t, <1>f DEF InstInv
    <3>4. ASSUME default = 0, ~raced, NEW i \in 1..Len(inst')
          PROVE  /\ inst'[i].open => i = default' \/ \E p \in Paths : cache[p] = i
                 /\ inst'[i].watched => i = default'
      BY <1>t, <1>f, <2>1, <3>4 DEF InstInv
    <3>5. default = 0 => inst'[default'].watched
      BY <1>t, <2>1 DEF ModeInv
    <3> QED BY <1>f, <2>1, <3>2, <3>3, <3>4, <3>5 DEF InstInv
  <2>6. QuietInv'
    BY <1>t, <1>f, <1>2, <2>1 DEF QuietInv, Undisturbed, NoDefaultInv, InstInv, TypeOK, Hopeless
  <2>7. ExitClosesAll'
    BY <1>f DEF ExitClosesAll
  <2> QED BY <1>1, <2>2, <2>3, <2>4, <2>5, <2>6, <2>7 DEF IInv
<1>3. CASE /\ IF engine.opening \in disk THEN Throws ELSE UNCHANGED bounds
           /\ engine' = [engine EXCEPT !.opening = None]
           /\ UNCHANGED <<inst, default>>
  <2>2. TypeOK'
    <3>1. /\ engine' \in EngineStates(Len(inst'))
          /\ default' # 0 /\ ~engine'.closed => engine'.cg = default'
      BY <1>t, <1>f, <1>3 DEF TypeOK, EngineStates
    <3>2. bounds' \in [failures : 0..MaxFailures, changes : 0..MaxChanges]
      BY <1>t, <1>3 DEF TypeOK, Throws
    <3> QED BY <1>t, <1>f, <1>s, <1>p, <1>3, <3>1, <3>2 DEF TypeOK, EngineStates
  <2>3. ModeInv'
    <3>1. /\ engine'.path = engine.path /\ engine'.opening = None /\ engine'.cg = engine.cg
          /\ engine'.watching = engine.watching /\ engine'.closed = engine.closed
      BY <1>t, <1>3 DEF TypeOK, EngineStates
    <3>2. ~launch.daemon => \A s, t \in Sessions : sess'[s].pc # "absent" /\ sess'[t].pc # "absent" => s = t
      BY <1>t, <1>s DEF ModeInv
    <3> QED BY <1>t, <1>f, <1>3, <3>1, <3>2 DEF ModeInv
  <2>4. SessInv'
    BY <1>t, <1>f, <1>s, <1>3 DEF SessInv, TypeOK, Session, PromiseState
  <2>5. InstInv'
    BY <1>t, <1>f, <1>3 DEF InstInv, TypeOK, ModeInv
  <2>6. QuietInv'
    <3>1. ~Undisturbed'
      BY <1>t, <1>f, <1>3 DEF QuietInv, Undisturbed, Throws, TypeOK
    <3> QED BY <3>1 DEF QuietInv
  <2>7. ExitClosesAll'
    BY <1>f DEF ExitClosesAll
  <2> QED BY <1>1, <2>2, <2>3, <2>4, <2>5, <2>6, <2>7 DEF IInv
<1> QED BY <1>2, <1>3 DEF Opened, OpenEnds

\* After the question to its client a call tries the directory of the server.
LEMMA AskedInv == ASSUME IInv, NEW c \in Calls, Asked(c) PROVE IInv'
<1> USE EngineAssumption
<1> DEFINE s == calls[c].session
<1>t. TypeOK /\ ModeInv /\ SessInv /\ CallInv /\ InstInv /\ QuietInv /\ ExitClosesAll
  BY DEF IInv
<1>0. /\ calls[c].pc = "asking" /\ Settled(c) /\ ~daemon.exited
      /\ UNCHANGED <<launch, disk, cache, daemon, named>>
      /\ sess' = [sess EXCEPT ![s].promise = None] /\ Execute(c)
  BY DEF Asked
<1>1. ~engine.closed /\ Cwd \in Paths /\ s \in Sessions
  BY <1>t, <1>0, NothingPending DEF ModeInv, Paths
<1>2. RetryInitializeSync(Cwd)
  BY <1>0 DEF Asked, RetryInitializeSync
<1>3. sess[s].lookup = "settled" /\ launch.path = None
  BY <1>t, <1>0, <1>1 DEF CallInv, SessInv, Settled, Promises
<1>4. \A t \in Sessions : sess'[t].pc = sess[t].pc
  BY <1>t, <1>0, <1>1 DEF TypeOK, Session
<1>5. /\ engine' \in EngineStates(Len(inst')) /\ default' \in 0..Len(inst')
      /\ inst' \in Seq(Instance) /\ cache' \in [Paths -> 0..Len(inst')]
      /\ bounds' \in [failures : 0..MaxFailures, changes : 0..MaxChanges] /\ raced' \in BOOLEAN
      /\ default' # 0 /\ ~engine'.closed => engine'.cg = default'
      /\ ModeInv' /\ InstInv' /\ engine'.opening = engine.opening
      /\ default' = 0 => default = 0 /\ engine' = engine
  <2>1. launch.path # Root
    BY <1>3 DEF Paths
  <2> QED BY <1>0, <1>1, <1>2, <1>4, <2>1, RetryKeeps
<1>7. /\ sess' \in [Sessions -> Session] /\ calls' \in [Calls -> Call]
      /\ \A t \in Sessions : sess'[t].promise # None => sess'[t][sess'[t].promise] # "none"
      /\ \A t \in Sessions :
           /\ sess'[t].pc = sess[t].pc /\ sess'[t].handshake = sess[t].handshake
           /\ sess'[t].lookup = sess[t].lookup
      /\ calls'[c].pc = "execute" /\ \A d \in Calls : d # c => calls'[d] = calls[d]
      /\ SessInv' /\ CallInv'
  BY <1>0, <1>5, GoesOn
<1>8. QuietInv'
  <2>1. AsksAlone(c)
    BY <1>t, <1>0 DEF CallInv, AsksAlone
  <2>2. LastChance(c, Cwd)
    BY <1>t, <1>0, <1>1, <1>3 DEF SessInv, QuietInv, NoDefaultInv, TypeOK, EngineStates, LastChance
  <2>3. PromisesKept /\ Executed(c)
    BY <1>7 DEF PromisesKept, Executed
  <2> QED BY <1>0, <1>1, <1>2, <2>1, <2>2, <2>3, RetryQuiet
<1>9. TypeOK'
  BY <1>t, <1>0, <1>5, <1>7 DEF TypeOK
<1>10. ExitClosesAll'
  BY <1>0 DEF ExitClosesAll
<1> QED BY <1>5, <1>7, <1>8, <1>9, <1>10 DEF IInv

\* A call that retries the initialisation with the path of the engine goes on.
LEMMA RetriesInv ==
  ASSUME IInv, NEW c \in Calls, calls[c].pc = "waiting", Settled(c), ~daemon.exited,
         \A d \in Calls : ~(calls[d].pc = "asking" /\ Settled(d)),
         UNCHANGED <<launch, disk, cache, daemon, named>>,
         NEW p \in {None, sess[calls[c].session].promise},
         sess' = [sess EXCEPT ![calls[c].session].promise = p], Execute(c),
         NEW path \in Paths, RetryInitializeSync(path),
         default = 0 => engine.path = path, launch.path = Root => path = Root
  PROVE  IInv'
<1> DEFINE s == calls[c].session
<1>t. TypeOK /\ ModeInv /\ SessInv /\ CallInv /\ InstInv /\ QuietInv /\ ExitClosesAll
  BY DEF IInv
<1>0. calls[c].pc \in {"waiting", "asking"}
  OBVIOUS
<1>1. /\ s \in Sessions /\ sess[s].pc \in {"ready", "closed"}
      /\ sess[s].lookup \in {"none", "settled"}
  BY <1>0, NothingPending
<1>2. \A t \in Sessions : sess'[t].pc = sess[t].pc
  BY <1>t, <1>1 DEF TypeOK, Session
<1>3. /\ engine' \in EngineStates(Len(inst')) /\ default' \in 0..Len(inst')
      /\ inst' \in Seq(Instance) /\ cache' \in [Paths -> 0..Len(inst')]
      /\ bounds' \in [failures : 0..MaxFailures, changes : 0..MaxChanges] /\ raced' \in BOOLEAN
      /\ default' # 0 /\ ~engine'.closed => engine'.cg = default'
      /\ ModeInv' /\ InstInv' /\ engine'.opening = engine.opening
      /\ default' = 0 => default = 0 /\ engine' = engine
  BY <1>2, RetryKeeps
<1>4. /\ sess' \in [Sessions -> Session] /\ calls' \in [Calls -> Call]
      /\ \A t \in Sessions : sess'[t].promise # None => sess'[t][sess'[t].promise] # "none"
      /\ \A t \in Sessions :
           /\ sess'[t].pc = sess[t].pc /\ sess'[t].handshake = sess[t].handshake
           /\ sess'[t].lookup = sess[t].lookup
      /\ calls'[c].pc = "execute" /\ \A d \in Calls : d # c => calls'[d] = calls[d]
      /\ SessInv' /\ CallInv'
  BY <1>0, <1>3, GoesOn
<1>5. ASSUME NEW d \in Calls, calls[d].pc = "asking" PROVE FALSE
  <2>1. /\ calls[d].session \in Sessions /\ calls[d].awaits = "lookup"
        /\ sess[calls[d].session].lookup # "none"
    BY <1>t, <1>5 DEF CallInv
  <2>2. calls[d].session = s
    BY <1>t, <1>1, <2>1 DEF ModeInv, SessInv
  <2>3. Settled(d)
    BY <1>1, <2>1, <2>2 DEF Settled
  <2> QED BY <1>5, <2>3
<1>6. QuietInv'
  <2>1. LastChance(c, path)
    BY DEF LastChance
  <2>2. AsksAlone(c)
    BY <1>5 DEF AsksAlone
  <2>3. PromisesKept /\ Executed(c)
    BY <1>4 DEF PromisesKept, Executed
  <2> HIDE DEF s
  <2> QED BY <1>0, <2>1, <2>2, <2>3, RetryQuiet
<1>7. TypeOK'
  BY <1>t, <1>3, <1>4 DEF TypeOK
<1>8. ExitClosesAll'
  BY DEF ExitClosesAll
<1> QED BY <1>3, <1>4, <1>6, <1>7, <1>8 DEF IInv
\* A call that asks for the root of its client, or goes on at once without one.
LEMMA AsksInv ==
  ASSUME IInv, NEW c \in Calls, calls[c].pc = "waiting", Settled(c), ~daemon.exited, default = 0,
         launch.path = None, engine.path = None, ~sess[calls[c].session].asked,
         UNCHANGED <<launch, disk, cache, daemon, named, inst, default, bounds, raced>>,
         NEW look \in {"roots", "opening", "settled"},
         sess' = [sess EXCEPT ![calls[c].session].asked = TRUE, ![calls[c].session].promise = "lookup",
                              ![calls[c].session].lookup = look],
         calls' = [calls EXCEPT ![c].pc = "asking", ![c].awaits = "lookup"],
         \/ look = "roots" /\ engine' = engine
         \/ look = "opening" /\ Cwd \in disk /\ engine' = [engine EXCEPT !.path = Cwd, !.opening = Cwd]
         \/ look = "settled" /\ Cwd \notin disk /\ engine' = [engine EXCEPT !.path = Cwd]
  PROVE  IInv'
<1> DEFINE s == calls[c].session
<1>t. TypeOK /\ ModeInv /\ SessInv /\ CallInv /\ InstInv /\ QuietInv /\ ExitClosesAll
  BY DEF IInv
<1>0. calls[c].pc \in {"waiting", "asking"} /\ Cwd \in Paths /\ Cwd # None
  BY EngineAssumption DEF Paths
<1>1. s \in Sessions /\ sess[s].pc \in {"ready", "closed"} /\ sess[s] \in Session /\ calls[c] \in Call
  BY <1>t, <1>0, NothingPending DEF TypeOK
<1>2. /\ ~launch.daemon /\ engine.opening = None
      /\ \A t \in Sessions : t # s => sess[t].pc = "absent"
      /\ \A t \in Sessions : sess[t].handshake = "none" /\ sess[t].lookup = "none"
      /\ \A d \in Calls : d # c => calls[d].pc \notin {"waiting", "asking"}
  BY AskingIsFirst
<1>3. /\ sess' \in [Sessions -> Session]
      /\ sess'[s].pc = sess[s].pc /\ sess'[s].handshake = "none" /\ sess'[s].asked
      /\ sess'[s].promise = "lookup" /\ sess'[s].lookup = look /\ look # "none"
      /\ \A t \in Sessions : t # s => sess'[t] = sess[t]
  <2> DEFINE new == [sess[s] EXCEPT !.asked = TRUE, !.promise = "lookup", !.lookup = look]
  <2>1. /\ new \in Session /\ new.pc = sess[s].pc /\ new.handshake = "none" /\ new.asked
        /\ new.promise = "lookup" /\ new.lookup = look
    BY <1>1, <1>2 DEF Session, Promises, PromiseState
  <2>2. sess' = [sess EXCEPT ![s] = new]
    BY <1>t, <1>1 DEF TypeOK
  <2>3. sess \in [Sessions -> Session]
    BY <1>t DEF TypeOK
  <2> HIDE DEF new, s
  <2> QED BY <1>1, <2>1, <2>2, <2>3
<1>4. /\ calls' \in [Calls -> Call]
      /\ calls'[c].pc = "asking" /\ calls'[c].session = s /\ calls'[c].awaits = "lookup"
      /\ \A d \in Calls : d # c => calls'[d] = calls[d]
  BY <1>t, <1>1 DEF TypeOK, Call, Promises
<1>5. /\ engine' \in EngineStates(Len(inst'))
      /\ engine'.cg = engine.cg /\ engine'.watching = engine.watching /\ engine'.closed = engine.closed
      /\ look = "opening" <=> engine'.opening # None
      /\ engine'.opening # None => engine'.opening = Cwd /\ Cwd \in disk
      /\ look # "roots" => engine'.path = Cwd
      /\ look = "settled" => Cwd \notin disk
  <2>1. engine \in EngineStates(Len(inst))
    BY <1>t DEF TypeOK
  <2>2. CASE look = "roots" /\ engine' = engine
    BY <1>2, <2>1, <2>2
  <2>3. CASE look = "opening" /\ Cwd \in disk /\ engine' = [engine EXCEPT !.path = Cwd, !.opening = Cwd]
    BY <1>0, <1>2, <2>1, <2>3 DEF EngineStates
  <2>4. CASE look = "settled" /\ Cwd \notin disk /\ engine' = [engine EXCEPT !.path = Cwd]
    BY <1>0, <1>2, <2>1, <2>4 DEF EngineStates
  <2> QED BY <2>2, <2>3, <2>4
<1> HIDE DEF s
<1>6. TypeOK'
  <2>1. \A t \in Sessions : sess'[t].promise # None => sess'[t][sess'[t].promise] # "none"
    <3> SUFFICES ASSUME NEW t \in Sessions, sess'[t].promise # None
                 PROVE  sess'[t][sess'[t].promise] # "none"
      OBVIOUS
    <3>1. CASE t = s
      BY <1>3, <3>1
    <3>2. CASE t # s
      BY <1>t, <1>3, <3>2 DEF TypeOK
    <3> QED BY <3>1, <3>2
  <2> QED BY <1>t, <1>3, <1>4, <1>5, <2>1 DEF TypeOK
<1>7. ModeInv'
  <2>1. \A t \in Sessions : sess'[t].pc = sess[t].pc
    BY <1>3
  <2>2. ~launch.daemon => \A t, u \in Sessions : sess'[t].pc # "absent" /\ sess'[u].pc # "absent" => t = u
    BY <1>t, <2>1 DEF ModeInv
  <2>3. ~engine'.closed
    BY <1>t, <1>5 DEF ModeInv
  <2>4. engine'.opening # None => engine'.path # None
    BY <1>0, <1>5
  <2>5. launch.path # Root
    BY EngineAssumption DEF Paths
  <2>6. engine'.cg = default' /\ (engine'.watching <=> default' # 0)
    BY <1>t, <1>5 DEF ModeInv
  <2> QED BY <1>2, <2>2, <2>3, <2>4, <2>5, <2>6 DEF ModeInv
<1>8. SessInv'
  <2> SUFFICES ASSUME NEW t \in Sessions
               PROVE  /\ sess'[t].pc \in {"absent", "connected"} =>
                           sess'[t].promise = None /\ sess'[t].handshake = "none" /\ sess'[t].lookup = "none"
                      /\ sess'[t].pc # "connected"
                      /\ sess'[t].asked <=> sess'[t].lookup # "none"
                      /\ sess'[t].asked => ~launch'.daemon /\ launch'.path = None /\ sess'[t].handshake = "none"
                      /\ sess'[t].handshake = "none"
                      /\ sess'[t].lookup \in {"roots", "opening"} => sess'[t].promise = "lookup"
                      /\ sess'[t].lookup = "opening" => engine'.opening # None
                      /\ sess'[t].lookup = "roots" => default' = 0 /\ engine'.opening = None
                      /\ sess'[t].lookup = "settled" /\ default' = 0 => engine'.path # None
    BY DEF SessInv
  <2>1. CASE t = s
    BY <1>0, <1>1, <1>2, <1>3, <1>5, <2>1
  <2>2. CASE t # s
    <3>1. sess'[t] = sess[t] /\ sess[t].pc = "absent" /\ sess[t].handshake = "none" /\ sess[t].lookup = "none"
      BY <1>2, <1>3, <2>2
    <3>2. sess[t].promise = None /\ ~sess[t].asked
      BY <1>t, <3>1 DEF SessInv
    <3> QED BY <3>1, <3>2
  <2> QED BY <2>1, <2>2
<1>9. CallInv'
  <2> SUFFICES ASSUME NEW d \in Calls
               PROVE  /\ calls'[d].pc # "unsent" =>
                           calls'[d].session \in Sessions /\ sess'[calls'[d].session].pc \in {"ready", "closed"}
                      /\ calls'[d].pc = "waiting" => FALSE
                      /\ calls'[d].pc = "asking" => d = c
    <3>1. calls'[c].awaits = "lookup" /\ sess'[calls'[c].session].lookup # "none" /\ "lookup" # "handshake"
      BY <1>3, <1>4
    <3> QED BY <1>4, <3>1 DEF CallInv
  <2>1. CASE d = c
    BY <1>1, <1>3, <1>4, <2>1
  <2>2. CASE d # c
    <3>1. calls'[d] = calls[d] /\ calls[d].pc \notin {"waiting", "asking"}
      BY <1>2, <1>4, <2>2
    <3>2. calls[d].pc # "unsent" => calls[d].session \in Sessions /\ sess[calls[d].session].pc \in {"ready", "closed"}
      BY <1>t DEF CallInv
    <3>3. \A t \in Sessions : sess'[t].pc = sess[t].pc
      BY <1>3
    <3> QED BY <3>1, <3>2, <3>3
  <2> QED BY <2>1, <2>2
<1>10. InstInv'
  BY <1>t, <1>5 DEF InstInv
<1>11. QuietInv'
  <2> SUFFICES ASSUME Undisturbed PROVE QuietInv'
    BY DEF QuietInv, Undisturbed
  <2>1. ~raced /\ ~named
    BY <1>t, <1>2, EngineAssumption DEF QuietInv, Paths
  <2>2. ~Hopeless
    BY EngineAssumption DEF Hopeless
  <2>3. /\ \A d \in Calls : calls[d].pc \notin {"execute", "answered", "dropped"}
        /\ \A p \in Paths : cache[p] = 0
    BY <1>t, <2>2 DEF QuietInv, NoDefaultInv
  <2>4. \A d \in Calls : calls'[d].pc \notin {"execute", "answered", "dropped"}
    BY <1>4, <2>3
  <2>5. engine'.opening # None => \A t \in Sessions :
          /\ sess'[t].pc = "ready" => sess'[t].handshake = "opening" \/ sess'[t].lookup = "opening"
          /\ sess'[t].handshake \in {"none", "opening"} /\ sess'[t].lookup \in {"none", "opening"}
    BY <1>1, <1>2, <1>3, <1>5
  <2>6. \A t \in Sessions :
          /\ sess'[t].handshake = "settled" => Root \notin disk'
          /\ sess'[t].lookup = "settled" => engine'.path \notin disk'
    BY <1>1, <1>2, <1>3, <1>5
  <2>7. NoDefaultInv'
    BY <2>3, <2>4, <2>5, <2>6, EngineAssumption DEF NoDefaultInv, Paths
  <2> QED BY <1>5, <2>1, <2>7 DEF QuietInv
<1>12. ExitClosesAll'
  BY DEF ExitClosesAll
<1> QED BY <1>6, <1>7, <1>8, <1>9, <1>10, <1>11, <1>12 DEF IInv

\* What a call does when its wait is over.
LEMMA ResumeInv == ASSUME IInv, NEW c \in Calls, Resume(c) PROVE IInv'
<1> DEFINE s == calls[c].session
           forgotten == IF calls[c].awaits = None THEN sess[s].promise ELSE None
           hint == IF launch.path # None THEN launch.path ELSE engine.path
<1>t. TypeOK /\ ModeInv /\ SessInv
  BY DEF IInv
<1>0. /\ calls[c].pc = "waiting" /\ Settled(c) /\ ~daemon.exited
      /\ UNCHANGED <<launch, disk, cache, daemon, named>>
      /\ \A d \in Calls : ~(calls[d].pc = "asking" /\ Settled(d))
  BY DEF Resume
<1>1. /\ s \in Sessions /\ ~engine.closed /\ sess[s].lookup \in {"none", "settled"} /\ Cwd \in Paths
      /\ Root \in Paths
  BY <1>t, <1>0, NothingPending DEF ModeInv, Paths
<1>2. hint = engine.path /\ (launch.path = Root => engine.path = Root)
  BY <1>t, EngineAssumption DEF ModeInv, Paths
<1>3. forgotten \in {None, sess[s].promise}
  OBVIOUS
<1>4. CASE default # 0
  <2>1. RetryInitializeSync(Root) /\ Execute(c) /\ sess' = [sess EXCEPT ![s].promise = forgotten]
    BY <1>4 DEF Resume, RetryInitializeSync
  <2> HIDE DEF forgotten
  <2> QED BY <1>0, <1>1, <1>3, <1>4, <2>1, RetriesInv
<1>5. CASE default = 0 /\ (hint # None \/ sess[s].asked)
  <2>1. /\ RetryInitializeSync(IF hint = None THEN Cwd ELSE hint) /\ Execute(c)
        /\ sess' = [sess EXCEPT ![s].promise = forgotten]
    BY <1>5 DEF Resume
  <2>2. engine.path # None
    BY <1>t, <1>1, <1>2, <1>5 DEF SessInv
  <2>3. engine.path \in Paths /\ RetryInitializeSync(engine.path)
    BY <1>t, <1>2, <2>1, <2>2 DEF TypeOK, EngineStates
  <2> HIDE DEF forgotten, hint
  <2> QED BY <1>0, <1>2, <1>3, <2>1, <2>3, RetriesInv
<1>6. CASE default = 0 /\ hint = None /\ ~sess[s].asked
  <2> DEFINE ensured == Ensured(Cwd)
             look == IF sess[s].roots THEN "roots" ELSE ensured[2]
  <2>1. /\ sess' = [sess EXCEPT ![s].asked = TRUE, ![s].promise = "lookup", ![s].lookup = look]
        /\ engine' = IF sess[s].roots THEN engine ELSE ensured[1]
        /\ calls' = [calls EXCEPT ![c].pc = "asking", ![c].awaits = "lookup"]
        /\ UNCHANGED <<inst, default, bounds, raced>>
    BY <1>6 DEF Resume
  <2>2. launch.path = None /\ engine.path = None
    BY <1>2, <1>6
  <2>3. engine.opening = None
    BY <1>0, <1>6, <2>2, AskingIsFirst
  <2>4. \/ Cwd \in disk /\ ensured = <<[engine EXCEPT !.path = Cwd, !.opening = Cwd], "opening">>
        \/ Cwd \notin disk /\ ensured = <<[engine EXCEPT !.path = Cwd], "settled">>
    BY <1>t, <1>1, <1>6, <2>3, EnsuredFacts
  <2> HIDE DEF ensured
  <2>5. /\ look \in {"roots", "opening", "settled"}
        /\ \/ look = "roots" /\ engine' = engine
           \/ look = "opening" /\ Cwd \in disk /\ engine' = [engine EXCEPT !.path = Cwd, !.opening = Cwd]
           \/ look = "settled" /\ Cwd \notin disk /\ engine' = [engine EXCEPT !.path = Cwd]
    BY <2>1, <2>4
  <2> HIDE DEF look
  <2> QED BY <1>0, <1>6, <2>1, <2>2, <2>5, AsksInv
<1> QED BY <1>4, <1>5, <1>6
\* An answer changes the call that gets it and no other.
LEMMA AnswerFacts ==
  ASSUME TypeOK, NEW c \in Calls, NEW used \in Nat, Answer(c, used)
  PROVE  /\ calls' \in [Calls -> Call]
         /\ calls'[c].pc \in {"answered", "dropped"} /\ calls'[c].session = calls[c].session
         /\ calls'[c].used = used
         /\ calls'[c].notice = IF used # 0 /\ IsDefault(inst'[used].project) THEN default ELSE used
         /\ \A d \in Calls : d # c => calls'[d] = calls[d]
<1> DEFINE notice == IF used # 0 /\ IsDefault(inst'[used].project) THEN default ELSE used
           pc == IF calls[c].session \in Clients THEN "answered" ELSE "dropped"
           new == [calls[c] EXCEPT !.pc = pc, !.used = used, !.notice = notice]
<1>1. calls' = [calls EXCEPT ![c] = new]
  BY DEF Answer, Notice, TypeOK
<1>2. notice \in Nat /\ pc \in {"answered", "dropped"}
  BY DEF TypeOK
<1>3. calls[c] \in Call /\ calls \in [Calls -> Call]
  BY DEF TypeOK
<1> HIDE DEF notice, pc
<1>4. /\ new \in Call /\ new.pc = pc /\ new.session = calls[c].session /\ new.used = used
      /\ new.notice = notice
  BY <1>2, <1>3 DEF Call
<1> HIDE DEF new
<1>5. calls' \in [Calls -> Call] /\ calls'[c] = new /\ \A d \in Calls : d # c => calls'[d] = calls[d]
  BY <1>1, <1>3, <1>4
<1> QED BY <1>2, <1>4, <1>5 DEF notice

\* What a tool may do: answer from an instance there is or without one; open a
\* project that is neither in the cache nor the default; or fail.
LEMMA RunToolFacts ==
  ASSUME TypeOK, NEW c \in Calls, RunTool(c)
  PROVE  \/ \E known \in 0..Len(inst) : UNCHANGED <<inst, cache, bounds>> /\ Answer(c, known)
         \/ \E p \in Paths : /\ cache[p] = 0 /\ ~IsDefault(p) /\ UNCHANGED bounds
                             /\ inst' = Append(inst, [project |-> p, open |-> TRUE, watched |-> FALSE])
                             /\ cache' = [cache EXCEPT ![p] = Len(inst) + 1]
                             /\ Answer(c, Len(inst) + 1)
         \/ UNCHANGED <<inst, cache>> /\ Throws /\ Answer(c, 0)
<1> DEFINE p == calls[c].project
           known == CASE p = None -> default
                      [] p # None /\ cache[p] # 0 -> cache[p]
                      [] p # None /\ cache[p] = 0 /\ p \in disk /\ IsDefault(p) -> default
                      [] OTHER -> 0
<1>1. p \in Paths \cup {None} /\ default \in 0..Len(inst) /\ \A q \in Paths : cache[q] \in 0..Len(inst)
  BY DEF TypeOK, Call
<1>2. Len(inst) \in Nat
  BY DEF TypeOK
<1>3. known \in 0..Len(inst)
  BY <1>1, <1>2
<1>4. known = 0 /\ p # None /\ p \in disk => p \in Paths /\ cache[p] = 0 /\ ~IsDefault(p)
  BY <1>1 DEF IsDefault
<1>5. \/ UNCHANGED <<inst, cache, bounds>> /\ Answer(c, known)
      \/ /\ known = 0 /\ p # None /\ p \in disk
         /\ inst' = Append(inst, [project |-> p, open |-> TRUE, watched |-> FALSE])
         /\ cache' = [cache EXCEPT ![p] = Len(inst) + 1]
         /\ UNCHANGED bounds /\ Answer(c, Len(inst) + 1)
      \/ UNCHANGED <<inst, cache>> /\ Throws /\ Answer(c, 0)
  BY DEF RunTool
<1> HIDE DEF known, p
<1> QED BY <1>3, <1>4, <1>5

\* Whatever it does, the call is answered.
LEMMA RunToolAnswers == ASSUME TypeOK, NEW c \in Calls, RunTool(c) PROVE \E used \in Nat : Answer(c, used)
<1>0. Len(inst) \in Nat
  BY DEF TypeOK
<1>1. CASE \E known \in 0..Len(inst) : Answer(c, known)
  <2>1. PICK known \in 0..Len(inst) : Answer(c, known)
    BY <1>1
  <2>2. known \in Nat
    BY <1>0
  <2> QED BY <2>1, <2>2
<1>2. CASE Answer(c, Len(inst) + 1)
  <2>1. Len(inst) + 1 \in Nat
    BY <1>0
  <2> QED BY <1>2, <2>1
<1>3. CASE Answer(c, 0)
  BY <1>3
<1> QED BY <1>1, <1>2, <1>3, RunToolFacts

\* A tool that opens a project opens one that is neither the default nor kept.
LEMMA RunToolInv == ASSUME IInv, NEW c \in Calls, RunTool(c) PROVE IInv'
<1>t. TypeOK /\ ModeInv /\ SessInv /\ CallInv /\ InstInv /\ QuietInv /\ ExitClosesAll
  BY DEF IInv
<1>0. /\ calls[c].pc = "execute" /\ ~daemon.exited /\ ~engine.closed
      /\ UNCHANGED <<launch, disk, engine, default, sess, daemon, raced, named>>
      /\ Len(inst) \in Nat
  BY <1>t DEF RunTool, history, ModeInv, TypeOK
<1>1. ModeInv' /\ SessInv' /\ ExitClosesAll'
  BY <1>t, <1>0 DEF ModeInv, SessInv, ExitClosesAll
<1>2. ASSUME calls' \in [Calls -> Call], calls'[c].pc \in {"answered", "dropped"},
             calls'[c].session = calls[c].session, \A d \in Calls : d # c => calls'[d] = calls[d]
      PROVE  /\ CallInv'
             /\ default = 0 /\ Undisturbed => Hopeless'
  <2>1. \A d \in Calls : ~(calls[d].pc = "waiting" /\ calls[d].awaits = None)
    BY <1>t, <1>0 DEF CallInv, Ready
  <2>2. \A d \in Calls : calls'[d].pc \in {"waiting", "asking"} => calls'[d] = calls[d]
    BY <1>2
  <2>3. CallInv'
    BY <1>t, <1>0, <1>2, <2>1, <2>2 DEF CallInv
  <2>4. default = 0 /\ Undisturbed => Hopeless
    BY <1>t, <1>0 DEF QuietInv, NoDefaultInv
  <2>5. Hopeless => Hopeless'
    BY <1>0, <2>2 DEF Hopeless
  <2> QED BY <2>3, <2>4, <2>5
<1>3. CASE \E known \in 0..Len(inst) : UNCHANGED <<inst, cache, bounds>> /\ Answer(c, known)
  <2>1. /\ calls' \in [Calls -> Call] /\ calls'[c].pc \in {"answered", "dropped"}
        /\ calls'[c].session = calls[c].session /\ \A d \in Calls : d # c => calls'[d] = calls[d]
    BY <1>t, <1>0, <1>3, AnswerFacts
  <2>2. CallInv' /\ (default = 0 /\ Undisturbed => Hopeless')
    BY <1>2, <2>1
  <2>3. TypeOK'
    BY <1>t, <1>0, <1>3, <2>1 DEF TypeOK
  <2>4. InstInv'
    BY <1>t, <1>0, <1>3 DEF InstInv
  <2>5. QuietInv'
    BY <1>t, <1>0, <1>3, <2>2 DEF QuietInv, NoDefaultInv, Undisturbed
  <2> QED BY <1>1, <2>2, <2>3, <2>4, <2>5 DEF IInv
<1>4. ASSUME NEW p \in Paths, cache[p] = 0, ~IsDefault(p), UNCHANGED bounds,
             inst' = Append(inst, [project |-> p, open |-> TRUE, watched |-> FALSE]),
             cache' = [cache EXCEPT ![p] = Len(inst) + 1], Answer(c, Len(inst) + 1)
      PROVE  IInv'
  <2>1. /\ calls' \in [Calls -> Call] /\ calls'[c].pc \in {"answered", "dropped"}
        /\ calls'[c].session = calls[c].session /\ \A d \in Calls : d # c => calls'[d] = calls[d]
    BY <1>t, <1>0, <1>4, AnswerFacts
  <2>2. CallInv' /\ (default = 0 /\ Undisturbed => Hopeless')
    BY <1>2, <2>1
  <2>3. /\ inst' \in Seq(Instance) /\ Len(inst') = Len(inst) + 1
        /\ \A i \in 1..Len(inst) : inst'[i] = inst[i]
        /\ inst'[Len(inst) + 1].project = p /\ ~inst'[Len(inst) + 1].watched
    BY <1>t, <1>4 DEF TypeOK, Instance
  <2>4. /\ cache' \in [Paths -> 0..Len(inst')] /\ cache'[p] = Len(inst) + 1
        /\ \A q \in Paths : q # p => cache'[q] = cache[q]
    BY <1>t, <1>0, <1>4, <2>3 DEF TypeOK
  <2>5. TypeOK'
    <3>1. engine' \in EngineStates(Len(inst')) /\ default' \in 0..Len(inst')
      BY <1>t, <1>0, <2>3 DEF TypeOK, EngineStates
    <3> QED BY <1>t, <1>0, <1>4, <2>1, <2>3, <2>4, <3>1 DEF TypeOK
  <2>d. default # 0 => default \in 1..Len(inst) /\ inst'[default] = inst[default]
    BY <1>t, <1>0, <2>3 DEF TypeOK
  <2>6. InstInv'
    <3>1. \A q \in Paths : cache'[q] # 0 => inst'[cache'[q]].project = q
      BY <1>t, <1>0, <2>3, <2>4 DEF InstInv, TypeOK
    <3>2. ASSUME ~raced, NEW i \in 1..Len(inst')
          PROVE  /\ inst'[i].open => i = default \/ \E q \in Paths : cache'[q] = i
                 /\ inst'[i].watched => i = default
      <4>1. CASE i = Len(inst) + 1
        BY <2>3, <2>4, <4>1
      <4>2. CASE i \in 1..Len(inst)
        <5>1. inst'[i] = inst[i] /\ \A q \in Paths : cache[q] = i => cache'[q] = i
          BY <1>4, <2>3, <2>4, <4>2
        <5> QED BY <1>t, <1>0, <3>2, <4>2, <5>1 DEF InstInv
      <4> QED BY <1>0, <2>3, <4>1, <4>2
    <3> QED BY <1>t, <1>0, <2>3, <2>d, <3>1, <3>2 DEF InstInv
  <2>7. QuietInv'
    <3>1. default # 0 => inst[default].project # p /\ inst[default].project \in Paths
      <4> SUFFICES ASSUME default # 0 PROVE inst[default].project # p /\ inst[default].project \in Paths
        OBVIOUS
      <4>1. default \in 1..Len(inst) /\ inst \in Seq(Instance)
        BY <1>t, <2>d DEF TypeOK
      <4>2. inst[default] \in Instance
        BY <4>1
      <4> QED BY <1>4, <4>2 DEF IsDefault, Instance
    <3> QED BY <1>t, <1>0, <1>4, <2>2, <2>4, <2>d, <3>1 DEF QuietInv, NoDefaultInv, Undisturbed
  <2> QED BY <1>1, <2>2, <2>5, <2>6, <2>7 DEF IInv
<1>5. CASE UNCHANGED <<inst, cache>> /\ Throws /\ Answer(c, 0)
  <2>1. /\ calls' \in [Calls -> Call] /\ calls'[c].pc \in {"answered", "dropped"}
        /\ calls'[c].session = calls[c].session /\ \A d \in Calls : d # c => calls'[d] = calls[d]
    BY <1>t, <1>0, <1>5, AnswerFacts
  <2>2. CallInv'
    BY <1>2, <2>1
  <2>3. ~Undisturbed' /\ bounds' \in [failures : 0..MaxFailures, changes : 0..MaxChanges]
    BY <1>t, <1>5, EngineAssumption DEF TypeOK, Throws, Undisturbed
  <2>4. TypeOK'
    BY <1>t, <1>0, <1>5, <2>1, <2>3 DEF TypeOK
  <2>5. InstInv'
    BY <1>t, <1>0, <1>5 DEF InstInv
  <2>6. QuietInv'
    BY <2>3 DEF QuietInv
  <2> QED BY <1>1, <2>2, <2>4, <2>5, <2>6 DEF IInv
<1> QED BY <1>t, <1>3, <1>4, <1>5, RunToolFacts
\* While nothing is about to run, no call waits for nothing, and what happens to
\* the sessions leaves the calls in order.
LEMMA CallsStand ==
  ASSUME CallInv, Event, calls' = calls,
         \A t \in Sessions :
           /\ sess[t].pc \in {"ready", "closed"} => sess'[t].pc \in {"ready", "closed"}
           /\ sess[t].handshake # "none" => sess'[t].handshake # "none"
           /\ sess[t].lookup # "none" => sess'[t].lookup # "none"
  PROVE  CallInv'
<1>1. \A c \in Calls : ~(calls[c].pc = "waiting" /\ calls[c].awaits = None)
  BY DEF Event, Ready, Settled
<1> QED BY <1>1 DEF CallInv

\* A call that arrives awaits the promise of its session.
LEMMA ToolsCallInv == ASSUME IInv, NEW c \in Calls, ToolsCall(c) PROVE IInv'
<1>t. TypeOK /\ ModeInv /\ SessInv /\ CallInv /\ InstInv /\ QuietInv /\ ExitClosesAll
  BY DEF IInv
<1>0. /\ Event /\ calls[c].pc = "unsent"
      /\ UNCHANGED <<launch, disk, engine, default, cache, inst, sess, daemon, bounds, raced, named>>
  BY DEF ToolsCall, history
<1>1. PICK s \in Sessions, p \in Paths \cup {None} :
        /\ sess[s].pc = "ready"
        /\ calls' = [calls EXCEPT ![c].pc = "waiting", ![c].session = s, ![c].project = p,
                                  ![c].awaits = sess[s].promise]
  BY DEF ToolsCall
<1>2. sess[s] \in Session /\ calls[c] \in Call /\ calls \in [Calls -> Call]
  BY <1>t DEF TypeOK
<1>3. /\ calls' \in [Calls -> Call]
      /\ calls'[c].pc = "waiting" /\ calls'[c].session = s /\ calls'[c].awaits = sess[s].promise
      /\ \A d \in Calls : d # c => calls'[d] = calls[d]
  <2> DEFINE new == [calls[c] EXCEPT !.pc = "waiting", !.session = s, !.project = p, !.awaits = sess[s].promise]
  <2>1. calls' = [calls EXCEPT ![c] = new]
    BY <1>1, <1>2
  <2>2. new \in Call /\ new.pc = "waiting" /\ new.session = s /\ new.awaits = sess[s].promise
    BY <1>2 DEF Call, Session
  <2> HIDE DEF new
  <2> QED BY <1>2, <2>1, <2>2
<1>4. TypeOK' /\ ModeInv' /\ SessInv' /\ InstInv' /\ ExitClosesAll'
  <2>1. TypeOK'
    BY <1>t, <1>0, <1>3 DEF TypeOK
  <2>2. ModeInv'
    BY <1>t, <1>0 DEF ModeInv
  <2>3. SessInv'
    BY <1>t, <1>0 DEF SessInv
  <2>4. InstInv' /\ ExitClosesAll'
    BY <1>t, <1>0 DEF InstInv, ExitClosesAll
  <2> QED BY <2>1, <2>2, <2>3, <2>4
<1>5. CallInv'
  <2>1. \A d \in Calls : ~Ready(d)
    BY <1>0 DEF Event
  <2>2. \A d \in Calls : d # c => ~Ready(d)'
    BY <1>0, <1>3, <2>1 DEF Ready, Settled
  <2>3. \A d \in Calls : ~(calls[d].pc = "waiting" /\ calls[d].awaits = None)
    BY <2>1 DEF Ready, Settled
  <2> SUFFICES ASSUME NEW d \in Calls
               PROVE  /\ calls'[d].pc # "unsent" =>
                           calls'[d].session \in Sessions /\ sess'[calls'[d].session].pc \in {"ready", "closed"}
                      /\ calls'[d].pc \in {"waiting", "asking"} =>
                           /\ calls'[d].awaits = "handshake" => sess'[calls'[d].session].handshake # "none"
                           /\ calls'[d].awaits = "lookup" => sess'[calls'[d].session].lookup # "none"
                      /\ calls'[d].pc = "waiting" /\ calls'[d].awaits = None =>
                           /\ sess'[calls'[d].session].pc = "ready"
                           /\ sess'[calls'[d].session].handshake # "opening"
                           /\ sess'[calls'[d].session].lookup \notin {"roots", "opening"}
                           /\ d = c
                      /\ calls'[d].pc = "asking" =>
                           /\ calls'[d].awaits = "lookup"
                           /\ \A e \in Calls : calls'[e].pc = "asking" => e = d
    BY <2>2 DEF CallInv
  <2>4. CASE d # c
    BY <1>t, <1>0, <1>3, <2>3, <2>4 DEF CallInv
  <2>5. CASE d = c
    <3>1. sess[s].promise # None => sess[s][sess[s].promise] # "none"
      BY <1>t DEF TypeOK
    <3>2. sess[s].promise = None =>
            sess[s].handshake # "opening" /\ sess[s].lookup \notin {"roots", "opening"}
      BY <1>t, EngineAssumption DEF SessInv, Promises
    <3>3. None \notin Promises
      BY EngineAssumption
    <3>4. sess'[s].pc = "ready"
      BY <1>0, <1>1
    <3> QED BY <1>0, <1>3, <2>5, <3>1, <3>2, <3>3, <3>4 DEF Promises
  <2> QED BY <2>4, <2>5
<1>6. QuietInv'
  <2>1. \A d \in Calls : calls'[d].pc \in {"execute", "answered", "dropped", "asking"} => calls'[d].pc = calls[d].pc
    BY <1>3
  <2>2. Hopeless => Hopeless'
    BY <1>0, <2>1 DEF Hopeless
  <2>3. NoDefaultInv => NoDefaultInv'
    BY <1>0, <2>1, <2>2 DEF NoDefaultInv
  <2> QED BY <1>t, <1>0, <2>3 DEF QuietInv, Undisturbed
<1> QED BY <1>4, <1>5, <1>6 DEF IInv

\* An index that comes or goes: the quiet part of the invariant has no more to say.
LEMMA ChangeInv == ASSUME IInv, NEW p \in Paths, Change(p) PROVE IInv'
<1>t. TypeOK /\ ModeInv /\ SessInv /\ CallInv /\ InstInv /\ QuietInv /\ ExitClosesAll
  BY DEF IInv
<1>0. /\ bounds.changes < MaxChanges /\ disk' \subseteq Paths
      /\ bounds' = [bounds EXCEPT !.changes = bounds.changes + 1]
      /\ UNCHANGED <<launch, engine, default, cache, inst, sess, calls, daemon, raced, named>>
  BY <1>t DEF Change, history, TypeOK
<1>1. bounds' \in [failures : 0..MaxFailures, changes : 0..MaxChanges] /\ ~Undisturbed'
  <2>1. bounds \in [failures : 0..MaxFailures, changes : 0..MaxChanges]
    BY <1>t DEF TypeOK
  <2> QED BY <1>0, <2>1, EngineAssumption DEF Undisturbed
<1>2. TypeOK'
  BY <1>t, <1>0, <1>1 DEF TypeOK
<1>3. ModeInv' /\ SessInv'
  BY <1>t, <1>0 DEF ModeInv, SessInv
<1>4. CallInv'
  BY <1>t, <1>0 DEF CallInv, Ready, Settled
<1>5. InstInv' /\ ExitClosesAll' /\ QuietInv'
  BY <1>t, <1>0, <1>1 DEF InstInv, ExitClosesAll, QuietInv
<1> QED BY <1>2, <1>3, <1>4, <1>5 DEF IInv

\* Clients come and go: only the sessions' places and the idle timer change.
LEMMA ClientsInv ==
  ASSUME IInv, Event, launch.daemon \/ sess' = sess,
         UNCHANGED <<launch, disk, engine, default, cache, inst, calls, bounds, raced, named>>,
         sess' \in [Sessions -> Session], daemon' \in [timer : BOOLEAN, stopping : BOOLEAN, exited : BOOLEAN],
         ~daemon'.exited,
         \A t \in Sessions :
           /\ sess'[t].asked = sess[t].asked /\ sess'[t].promise = sess[t].promise
           /\ sess'[t].handshake = sess[t].handshake /\ sess'[t].lookup = sess[t].lookup
           /\ \/ sess'[t].pc = sess[t].pc \/ sess'[t].pc = "closed"
              \/ sess[t].pc = "absent" /\ sess'[t].pc = "connected"
  PROVE  IInv'
<1>t. TypeOK /\ ModeInv /\ SessInv /\ CallInv /\ InstInv /\ QuietInv /\ ExitClosesAll
  BY DEF IInv
<1>1. TypeOK'
  <2>1. \A t \in Sessions : sess'[t].promise # None => sess'[t][sess'[t].promise] # "none"
    <3> SUFFICES ASSUME NEW t \in Sessions, sess'[t].promise # None
                 PROVE  sess'[t][sess'[t].promise] # "none"
      OBVIOUS
    <3>1. sess[t].promise \in {"handshake", "lookup"} /\ sess[t][sess[t].promise] # "none"
      BY <1>t DEF TypeOK, Session, Promises
    <3> QED BY <3>1
  <2> QED BY <1>t, <2>1 DEF TypeOK
<1>2. ModeInv'
  <2>1. ~engine'.closed /\ (~launch.daemon => sess' = sess)
    BY <1>t DEF ModeInv, Event
  <2> QED BY <1>t, <2>1 DEF ModeInv
<1>3. SessInv'
  <2>1. launch.daemon \/ sess' = sess
    OBVIOUS
  <2>2. launch.daemon => launch.path # None
    BY <1>t, EngineAssumption DEF ModeInv, Paths
  <2> QED BY <1>t, <2>1, <2>2 DEF SessInv
<1>4. CallInv'
  BY <1>t, CallsStand
<1>5. InstInv' /\ ExitClosesAll'
  BY <1>t DEF InstInv, ExitClosesAll
<1>6. QuietInv'
  <2>1. Hopeless => Hopeless'
    BY DEF Hopeless
  <2>2. NoDefaultInv => NoDefaultInv'
    BY <2>1 DEF NoDefaultInv
  <2> QED BY <1>t, <2>2 DEF QuietInv, Undisturbed
<1> QED BY <1>1, <1>2, <1>3, <1>4, <1>5, <1>6 DEF IInv

\* A client that connects, or goes.
LEMMA ConnectInv == ASSUME IInv, NEW s \in Sessions, Connect(s) \/ Disconnect(s) PROVE IInv'
<1>t. sess \in [Sessions -> Session] /\ daemon \in [timer : BOOLEAN, stopping : BOOLEAN, exited : BOOLEAN]
  BY DEF IInv, TypeOK
<1>0. /\ Event /\ launch.daemon /\ ~daemon.exited
      /\ UNCHANGED <<launch, disk, engine, default, cache, inst, calls, bounds, raced, named>>
  BY DEF Connect, Disconnect, history, Event
<1>1. PICK pc \in {"connected", "closed"} :
        sess' = [sess EXCEPT ![s].pc = pc] /\ (pc = "connected" => sess[s].pc = "absent")
  BY DEF Connect, Disconnect
<1>2. daemon' \in [timer : BOOLEAN, stopping : BOOLEAN, exited : BOOLEAN] /\ ~daemon'.exited
  BY <1>t, <1>0 DEF Connect, Disconnect
<1>3. /\ sess' \in [Sessions -> Session]
      /\ \A t \in Sessions :
           /\ sess'[t].asked = sess[t].asked /\ sess'[t].promise = sess[t].promise
           /\ sess'[t].handshake = sess[t].handshake /\ sess'[t].lookup = sess[t].lookup
           /\ \/ sess'[t].pc = sess[t].pc \/ sess'[t].pc = "closed"
              \/ sess[t].pc = "absent" /\ sess'[t].pc = "connected"
  BY <1>t, <1>1 DEF Session
<1> QED BY <1>0, <1>2, <1>3, ClientsInv

\* A daemon that begins to stop.
LEMMA StopDaemonInv == ASSUME IInv, Event, StopDaemon, launch.daemon \/ Clients = {} PROVE IInv'
<1>t. sess \in [Sessions -> Session] /\ daemon \in [timer : BOOLEAN, stopping : BOOLEAN, exited : BOOLEAN]
  BY DEF IInv, TypeOK
<1>0. ~daemon.exited /\ UNCHANGED <<launch, disk, engine, default, cache, inst, calls, bounds, raced, named>>
  BY DEF StopDaemon, history, Event
<1>1. daemon' \in [timer : BOOLEAN, stopping : BOOLEAN, exited : BOOLEAN] /\ ~daemon'.exited
  BY <1>t, <1>0 DEF StopDaemon
<1>2. sess' = [s \in Sessions |-> IF s \in Clients THEN [sess[s] EXCEPT !.pc = "closed"] ELSE sess[s]]
  BY DEF StopDaemon
<1>3. \A s \in Sessions : sess[s] \in Session
  BY <1>t
<1>4. /\ sess' \in [Sessions -> Session]
      /\ \A t \in Sessions :
           /\ sess'[t].asked = sess[t].asked /\ sess'[t].promise = sess[t].promise
           /\ sess'[t].handshake = sess[t].handshake /\ sess'[t].lookup = sess[t].lookup
           /\ \/ sess'[t].pc = sess[t].pc \/ sess'[t].pc = "closed"
              \/ sess[t].pc = "absent" /\ sess'[t].pc = "connected"
  BY <1>2, <1>3 DEF Session
<1>5. launch.daemon \/ sess' = sess
  BY <1>t, <1>2
<1> QED BY <1>0, <1>1, <1>4, <1>5, ClientsInv

\* The engine of a daemon closes the default and the cache, hence all there is.
LEMMA ExitInv == ASSUME IInv, Exit PROVE IInv'
<1>t. TypeOK /\ ModeInv /\ SessInv /\ CallInv /\ InstInv /\ QuietInv /\ ExitClosesAll
  BY DEF IInv
<1>0. /\ Event /\ ~engine.closed /\ Len(inst) \in Nat
      /\ UNCHANGED <<launch, disk, default, sess, calls, bounds, raced, named>>
      /\ daemon' = [daemon EXCEPT !.exited = TRUE]
  BY <1>t DEF Exit, history, Event, ModeInv, TypeOK
<1>1. /\ daemon' \in [timer : BOOLEAN, stopping : BOOLEAN, exited : BOOLEAN] /\ daemon'.exited
      /\ CallInv'
  BY <1>t, <1>0, CallsStand DEF TypeOK
<1>2. CASE launch.daemon /\ EngineStop
  <2>1. /\ engine' \in EngineStates(Len(inst)) /\ engine'.closed
        /\ engine'.path = engine.path /\ engine'.opening = engine.opening
        /\ engine'.watching = engine.watching
    <3>1. engine \in EngineStates(Len(inst)) /\ engine' = [engine EXCEPT !.closed = TRUE, !.cg = 0]
      BY <1>t, <1>2 DEF TypeOK, EngineStop
    <3>2. 0 \in 0..Len(inst)
      BY <1>0
    <3> QED BY <3>1, <3>2 DEF EngineStates
  <2>2. /\ inst' \in Seq(Instance) /\ Len(inst') = Len(inst)
        /\ \A i \in 1..Len(inst) :
             inst'[i] = IF i = engine.cg \/ \E p \in Paths : cache[p] = i
                          THEN [inst[i] EXCEPT !.open = FALSE, !.watched = FALSE] ELSE inst[i]
    <3> DEFINE New(i) == IF i = engine.cg \/ \E p \in Paths : cache[p] = i
                           THEN [inst[i] EXCEPT !.open = FALSE, !.watched = FALSE] ELSE inst[i]
    <3>1. \A i \in 1..Len(inst) : inst[i] \in Instance
      BY <1>t DEF TypeOK
    <3>2. \A i \in 1..Len(inst) : New(i) \in Instance
      BY <3>1 DEF Instance
    <3>3. inst' = [i \in 1..Len(inst) |-> New(i)]
      BY <1>2 DEF EngineStop
    <3> HIDE DEF New
    <3>4. inst' \in Seq(Instance) /\ Len(inst') = Len(inst) /\ \A i \in 1..Len(inst) : inst'[i] = New(i)
      BY <1>0, <3>2, <3>3
    <3> QED BY <3>4 DEF New
  <2>b. inst' \in Seq(Instance) /\ Len(inst') = Len(inst)
    BY <2>2
  <2>3. cache' = [p \in Paths |-> 0]
    BY <1>2 DEF EngineStop
  <2>4. TypeOK'
    <3>1. cache' \in [Paths -> 0..Len(inst')] /\ default' \in 0..Len(inst') /\ engine' \in EngineStates(Len(inst'))
      <4>1. Len(inst') = Len(inst) /\ 0 \in 0..Len(inst) /\ default \in 0..Len(inst)
        BY <1>t, <1>0, <2>b DEF TypeOK
      <4> QED BY <1>0, <2>1, <2>3, <4>1
    <3> QED BY <1>t, <1>0, <1>1, <2>1, <2>2, <3>1 DEF TypeOK
  <2>5. ModeInv' /\ SessInv'
    BY <1>t, <1>0, <1>1, <1>2, <2>1 DEF ModeInv, SessInv
  <2>6. InstInv'
    BY <1>t, <1>0, <2>1, <2>3 DEF InstInv
  <2>7. QuietInv'
    <3>1. Hopeless => Hopeless'
      BY <1>0, <2>1 DEF Hopeless
    <3>2. NoDefaultInv => NoDefaultInv'
      BY <1>0, <2>1, <2>3, <3>1 DEF NoDefaultInv
    <3>3. default # 0 => cache'[inst'[default].project] = 0 /\ inst'[default].project = inst[default].project
      <4> SUFFICES ASSUME default # 0
                   PROVE  cache'[inst'[default].project] = 0 /\ inst'[default].project = inst[default].project
        OBVIOUS
      <4>1. default \in 1..Len(inst) /\ inst'[default] \in Instance /\ inst[default] \in Instance
        <5>1. default \in 1..Len(inst) /\ inst \in Seq(Instance)
          BY <1>t DEF TypeOK
        <5>2. inst[default] \in Instance /\ inst' \in Seq(Instance) /\ default \in 1..Len(inst')
          BY <2>b, <5>1
        <5> QED BY <5>1, <5>2
      <4>2. inst'[default].project = inst[default].project /\ inst[default].project \in Paths
        BY <2>2, <4>1 DEF Instance
      <4> QED BY <2>3, <4>2
    <3> QED BY <1>t, <1>0, <2>1, <2>3, <3>2, <3>3 DEF QuietInv, Undisturbed
  <2>8. ExitClosesAll'
    <3> SUFFICES ASSUME ~raced, NEW i \in 1..Len(inst) PROVE ~inst'[i].open
      BY <1>0, <2>2 DEF ExitClosesAll
    <3>1. inst[i].open => i = engine.cg \/ \E p \in Paths : cache[p] = i
      BY <1>t, <1>0 DEF InstInv, ModeInv
    <3>2. inst[i] \in Instance
      <4>1. inst \in Seq(Instance)
        BY <1>t DEF TypeOK
      <4> QED BY <4>1
    <3>3. CASE i = engine.cg \/ \E p \in Paths : cache[p] = i
      <4>1. inst'[i] = [inst[i] EXCEPT !.open = FALSE, !.watched = FALSE]
        BY <2>2, <3>3
      <4> QED BY <3>2, <4>1 DEF Instance
    <3>4. CASE ~(i = engine.cg \/ \E p \in Paths : cache[p] = i)
      <4>1. inst'[i] = inst[i]
        BY <2>2, <3>4
      <4> QED BY <3>1, <3>4, <4>1
    <3> QED BY <3>3, <3>4
  <2> QED BY <1>1, <2>4, <2>5, <2>6, <2>7, <2>8 DEF IInv
<1>3. CASE ~launch.daemon /\ UNCHANGED <<engine, inst, cache>>
  <2>1. TypeOK' /\ ModeInv'
    BY <1>t, <1>0, <1>1, <1>3 DEF TypeOK, ModeInv
  <2>2. SessInv' /\ InstInv' /\ ExitClosesAll'
    BY <1>t, <1>0, <1>3 DEF SessInv, InstInv, ExitClosesAll
  <2>3. QuietInv'
    BY <1>t, <1>0, <1>3 DEF QuietInv, NoDefaultInv, Hopeless, Undisturbed
  <2> QED BY <1>1, <2>1, <2>2, <2>3 DEF IInv
<1> QED BY <1>2, <1>3 DEF Exit
\* initialize opens the project that the client or the command line names.
LEMMA InitializeInv == ASSUME IInv, NEW s \in Sessions, Initialize(s) PROVE IInv'
<1>t. TypeOK /\ ModeInv /\ SessInv /\ CallInv /\ InstInv /\ QuietInv /\ ExitClosesAll
  BY DEF IInv
<1>0. /\ Event /\ ~daemon.exited /\ ~engine.closed /\ sess[s].pc = "connected"
      /\ UNCHANGED <<launch, disk, default, cache, inst, calls, daemon, bounds, raced, named>>
      /\ Root \in Paths /\ Root # None
  BY <1>t, EngineAssumption DEF Initialize, history, Event, ModeInv, Paths
<1>1. /\ sess[s] \in Session /\ sess \in [Sessions -> Session] /\ engine \in EngineStates(Len(inst))
      /\ sess[s].promise = None /\ sess[s].handshake = "none" /\ sess[s].lookup = "none" /\ ~sess[s].asked
  BY <1>t, <1>0 DEF TypeOK, SessInv
<1>2. \A t \in Sessions : t # s => launch.daemon \/ sess[t].pc = "absent"
  BY <1>t, <1>0 DEF ModeInv
<1>3. \A t \in Sessions : sess[t].lookup = "none" /\ ~sess[t].asked
  BY <1>t, <1>1, <1>2 DEF SessInv
<1>4. PICK roots \in BOOLEAN, uri \in {None, Root} :
        LET path == IF uri # None THEN uri ELSE launch.path
        IN IF path = None
             THEN /\ sess' = [sess EXCEPT ![s].pc = "ready", ![s].roots = roots]
                  /\ UNCHANGED engine
             ELSE /\ engine' = Ensured(path)[1]
                  /\ sess' = [sess EXCEPT ![s].pc = "ready", ![s].roots = roots,
                                          ![s].promise = "handshake", ![s].handshake = Ensured(path)[2]]
  BY DEF Initialize
\* What follows from the shape of the step.
<1>5. ASSUME NEW hand \in {"none", "opening", "settled"}, NEW promise \in {None, "handshake"},
             promise = "handshake" <=> hand # "none",
             sess' \in [Sessions -> Session],
             /\ sess'[s].pc = "ready" /\ sess'[s].asked = sess[s].asked /\ sess'[s].promise = promise
             /\ sess'[s].handshake = hand /\ sess'[s].lookup = "none",
             \A t \in Sessions : t # s => sess'[t] = sess[t],
             engine' \in EngineStates(Len(inst)),
             engine'.closed = engine.closed, engine'.cg = engine.cg, engine'.watching = engine.watching,
             \/ engine' = engine
             \/ /\ default = 0 /\ engine.opening = None /\ engine'.path = Root
                /\ engine'.opening = IF Root \in disk THEN Root ELSE None,
             hand = "none" => engine' = engine /\ launch.path = None,
             hand = "opening" => default = 0 /\ engine'.opening # None,
             hand = "settled" => \/ default # 0
                                 \/ default = 0 /\ engine'.opening = None /\ engine'.path = Root /\ Root \notin disk
      PROVE  IInv'
  <2>1. TypeOK'
    <3>1. \A t \in Sessions : sess'[t].promise # None => sess'[t][sess'[t].promise] # "none"
      <4> SUFFICES ASSUME NEW t \in Sessions, sess'[t].promise # None
                   PROVE  sess'[t][sess'[t].promise] # "none"
        OBVIOUS
      <4>1. CASE t = s
        BY <1>5, <4>1
      <4>2. CASE t # s
        BY <1>t, <1>5, <4>2 DEF TypeOK
      <4> QED BY <4>1, <4>2
    <3>2. default' # 0 /\ ~engine'.closed => engine'.cg = default'
      BY <1>t, <1>0, <1>5 DEF TypeOK
    <3> QED BY <1>t, <1>0, <1>5, <3>1, <3>2 DEF TypeOK
  <2>2. ModeInv'
    <3>1. ~launch.daemon => \A t, u \in Sessions : sess'[t].pc # "absent" /\ sess'[u].pc # "absent" => t = u
      BY <1>2, <1>5
    <3>2. /\ launch.path = Root => engine'.path = Root /\ engine'.opening \in {None, Root}
          /\ engine'.opening # None => engine'.path # None
      BY <1>t, <1>0, <1>5 DEF ModeInv
    <3>3. engine'.cg = default /\ (engine'.watching <=> default # 0) /\ ~engine'.closed
      BY <1>t, <1>0, <1>5 DEF ModeInv
    <3> QED BY <1>t, <1>0, <3>1, <3>2, <3>3 DEF ModeInv
  <2>3. engine'.path # engine.path => engine'.path = Root
    BY <1>5
  <2>4. engine.opening # None => engine' = engine
    BY <1>5
  <2>5. SessInv'
    <3> SUFFICES ASSUME NEW t \in Sessions
                 PROVE  /\ sess'[t].pc \in {"absent", "connected"} =>
                             sess'[t].promise = None /\ sess'[t].handshake = "none" /\ sess'[t].lookup = "none"
                        /\ sess'[t].pc = "connected" /\ launch'.path = None => engine'.path = None
                        /\ sess'[t].lookup = "none" /\ ~sess'[t].asked
                        /\ sess'[t].handshake # "none" /\ default' = 0 => engine'.path # None
                        /\ sess'[t].handshake # "roots"
                        /\ sess'[t].handshake = "opening" => sess'[t].promise = "handshake" /\ engine'.opening # None
      BY DEF SessInv
    <3>1. CASE t = s
      <4>1. hand = "opening" => engine'.path # None
        BY <1>t, <1>0, <1>5 DEF ModeInv
      <4> QED BY <1>0, <1>1, <1>5, <3>1, <4>1
    <3>2. CASE t # s
      <4>1. launch.daemon => launch.path # None
        BY <1>t, <1>0 DEF ModeInv
      <4>2. sess'[t] = sess[t]
        BY <1>5, <3>2
      <4> QED BY <1>t, <1>0, <1>2, <1>3, <2>3, <2>4, <3>2, <4>1, <4>2 DEF SessInv
    <3> QED BY <3>1, <3>2
  <2>6. CallInv'
    BY <1>t, <1>0, <1>1, <1>5, CallsStand
  <2>7. InstInv'
    BY <1>t, <1>0, <1>5 DEF InstInv
  <2>8. QuietInv'
    <3> SUFFICES ASSUME Undisturbed PROVE QuietInv'
      BY <1>0 DEF QuietInv, Undisturbed
    <3>1. QuietInv /\ ~raced /\ NoDefaultInv
      BY <1>t DEF QuietInv
    <3>2. engine'.opening # None => engine'.opening \in disk
      BY <1>5, <3>1 DEF QuietInv
    <3>3. named => Root \in disk /\ (default = 0 => engine'.opening = Root)
      BY <1>0, <1>5, <2>4, <3>1 DEF QuietInv
    <3>4. NoDefaultInv'
      <4> SUFFICES ASSUME default = 0 PROVE NoDefaultInv'
        BY <1>0 DEF NoDefaultInv
      <4>1. ASSUME engine'.opening # None, NEW t \in Sessions
            PROVE  /\ sess'[t].pc = "ready" => sess'[t].handshake = "opening"
                   /\ sess'[t].handshake \in {"none", "opening"} /\ sess'[t].lookup = "none"
        <5>1. CASE t = s
          <6>1. hand # "settled"
            BY <1>5, <4>1
          <6>2. hand # "none"
            BY <1>t, <1>0, <1>5, <4>1 DEF ModeInv, SessInv
          <6> QED BY <1>5, <5>1, <6>1, <6>2
        <5>2. CASE t # s
          <6>1. sess'[t] = sess[t] /\ sess[t].lookup = "none"
            BY <1>3, <1>5, <5>2
          <6>2. CASE engine.opening # None
            BY <3>1, <6>1, <6>2 DEF NoDefaultInv
          <6>3. CASE engine.opening = None
            <7>1. Root \in disk
              BY <1>5, <4>1, <6>3
            <7>2. sess[t].pc = "absent"
              BY <1>t, <1>2, <3>1, <5>2, <6>3, <7>1 DEF NoDefaultInv, ModeInv
            <7>3. sess[t].handshake = "none"
              BY <1>t, <7>2 DEF SessInv
            <7> QED BY <6>1, <7>2, <7>3
          <6> QED BY <6>2, <6>3
        <5> QED BY <5>1, <5>2
      <4>2. \A t \in Sessions :
              /\ sess'[t].handshake = "settled" => Root \notin disk
              /\ sess'[t].lookup # "settled"
        BY <1>3, <1>5, <3>1 DEF NoDefaultInv
      <4>3. engine'.opening = None /\ launch.path = Root => Root \notin disk
        BY <1>5, <3>1 DEF NoDefaultInv
      <4>4. Hopeless => Hopeless'
        <5> SUFFICES ASSUME Hopeless PROVE Hopeless'
          OBVIOUS
        <5>1. launch.daemon
          BY <1>0 DEF Hopeless
        <5>2. engine.path = Root /\ Root \notin disk
          BY <1>t, <5>1 DEF ModeInv, Hopeless
        <5>3. engine'.opening = None /\ engine'.path = Root
          BY <1>5, <5>2 DEF Hopeless
        <5>4. \A t \in Sessions : sess'[t].lookup = "none"
          BY <1>3, <1>5
        <5> QED BY <1>0, <5>1, <5>2, <5>3, <5>4 DEF Hopeless
      <4> QED BY <1>0, <3>1, <4>1, <4>2, <4>3, <4>4 DEF NoDefaultInv
    <3> QED BY <1>0, <3>1, <3>2, <3>3, <3>4 DEF QuietInv
  <2>9. ExitClosesAll'
    BY <1>0 DEF ExitClosesAll
  <2> QED BY <2>1, <2>2, <2>5, <2>6, <2>7, <2>8, <2>9 DEF IInv
<1>6. CASE (IF uri # None THEN uri ELSE launch.path) = None
  <2>1. sess' = [sess EXCEPT ![s].pc = "ready", ![s].roots = roots] /\ engine' = engine /\ launch.path = None
    BY <1>4, <1>6
  <2>2. /\ sess' \in [Sessions -> Session]
        /\ sess'[s].pc = "ready" /\ sess'[s].asked = sess[s].asked /\ sess'[s].promise = None
        /\ sess'[s].handshake = "none" /\ sess'[s].lookup = "none"
        /\ \A t \in Sessions : t # s => sess'[t] = sess[t]
    BY <1>1, <2>1 DEF Session
  <2>3. None # "handshake"
    BY EngineAssumption DEF Promises
  <2>4. "none" \in {"none", "opening", "settled"} /\ None \in {None, "handshake"} /\ "none" # "opening" /\ "none" # "settled"
    OBVIOUS
  <2>5. engine' \in EngineStates(Len(inst))
    BY <1>1, <2>1
  <2> QED BY <1>5, <2>1, <2>2, <2>3, <2>4, <2>5
<1>7. CASE (IF uri # None THEN uri ELSE launch.path) # None
  <2>1. (IF uri # None THEN uri ELSE launch.path) = Root
    BY <1>t, <1>7 DEF ModeInv
  <2>2. /\ engine' = Ensured(Root)[1]
        /\ sess' = [sess EXCEPT ![s].pc = "ready", ![s].roots = roots,
                                ![s].promise = "handshake", ![s].handshake = Ensured(Root)[2]]
    BY <1>0, <1>4, <2>1
  <2>3. /\ engine' \in EngineStates(Len(inst))
        /\ engine'.closed = engine.closed /\ engine'.cg = engine.cg /\ engine'.watching = engine.watching
        /\ Ensured(Root)[2] \in {"opening", "settled"}
        /\ \/ engine' = engine
           \/ /\ default = 0 /\ engine.opening = None /\ engine'.path = Root
              /\ engine'.opening = IF Root \in disk THEN Root ELSE None
        /\ Ensured(Root)[2] = "opening" => default = 0 /\ engine'.opening # None
        /\ Ensured(Root)[2] = "settled" =>
             \/ default # 0
             \/ default = 0 /\ engine'.opening = None /\ engine'.path = Root /\ Root \notin disk
    <3>1. CASE (engine.closed \/ default # 0) /\ Ensured(Root) = <<engine, "settled">>
      BY <1>0, <1>1, <2>2, <3>1
    <3>2. CASE ~engine.closed /\ default = 0 /\ engine.opening # None /\ Ensured(Root) = <<engine, "opening">>
      BY <1>1, <2>2, <3>2
    <3>3. CASE /\ ~engine.closed /\ default = 0 /\ engine.opening = None /\ Root \in disk
               /\ Ensured(Root) = <<[engine EXCEPT !.path = Root, !.opening = Root], "opening">>
      <4>1. engine' = [engine EXCEPT !.path = Root, !.opening = Root] /\ Ensured(Root)[2] = "opening"
        BY <2>2, <3>3
      <4>2. /\ engine' \in EngineStates(Len(inst)) /\ engine'.path = Root /\ engine'.opening = Root
            /\ engine'.closed = engine.closed /\ engine'.cg = engine.cg /\ engine'.watching = engine.watching
        BY <1>0, <1>1, <4>1 DEF EngineStates
      <4> QED BY <1>0, <3>3, <4>1, <4>2
    <3>4. CASE /\ ~engine.closed /\ default = 0 /\ engine.opening = None /\ Root \notin disk
               /\ Ensured(Root) = <<[engine EXCEPT !.path = Root], "settled">>
      BY <1>0, <1>1, <2>2, <3>4 DEF EngineStates
    <3> QED BY <1>t, <1>0, <3>1, <3>2, <3>3, <3>4, EnsuredFacts
  <2> DEFINE hand == Ensured(Root)[2]
  <2> HIDE DEF hand
  <2>4. /\ sess' \in [Sessions -> Session]
        /\ sess'[s].pc = "ready" /\ sess'[s].asked = sess[s].asked /\ sess'[s].promise = "handshake"
        /\ sess'[s].handshake = Ensured(Root)[2] /\ sess'[s].lookup = "none"
        /\ \A t \in Sessions : t # s => sess'[t] = sess[t]
    <3> DEFINE new == [sess[s] EXCEPT !.pc = "ready", !.roots = roots, !.promise = "handshake",
                                      !.handshake = hand]
    <3>1. hand \in {"opening", "settled"}
      BY <2>3 DEF hand
    <3>2. /\ new \in Session /\ new.pc = "ready" /\ new.asked = sess[s].asked
          /\ new.promise = "handshake" /\ new.handshake = hand /\ new.lookup = "none"
      BY <1>1, <3>1 DEF Session, Promises, PromiseState
    <3>3. sess' = [sess EXCEPT ![s] = new]
      BY <1>1, <2>2 DEF hand
    <3> HIDE DEF new
    <3>4. /\ sess' \in [Sessions -> Session] /\ sess'[s] = new
          /\ \A t \in Sessions : t # s => sess'[t] = sess[t]
      BY <1>1, <3>2, <3>3
    <3> QED BY <3>2, <3>4 DEF hand
  <2> QED BY <1>0, <1>1, <1>5, <2>3, <2>4
<1> QED BY <1>6, <1>7
\* The question of session s is over, and it goes on with target.
LEMMA FoundInv ==
  ASSUME IInv, Event, NEW s \in Sessions, NEW target \in Paths, Found(s, target),
         \/ named' = named
         \/ target = Root /\ named' = (named \/ Root \in disk)
  PROVE  IInv'
<1>t. TypeOK /\ ModeInv /\ SessInv /\ CallInv /\ InstInv /\ QuietInv /\ ExitClosesAll
  BY DEF IInv
<1>0. /\ ~daemon.exited /\ ~engine.closed /\ sess[s].lookup = "roots" /\ target # None
      /\ UNCHANGED <<launch, disk, default, cache, inst, calls, daemon, bounds, raced>>
      /\ named' \in BOOLEAN
  BY <1>t, EngineAssumption DEF Found, Event, ModeInv, TypeOK
<1>1. /\ sess[s] \in Session /\ sess \in [Sessions -> Session] /\ engine \in EngineStates(Len(inst))
  BY <1>t DEF TypeOK
<1>2. /\ default = 0 /\ engine.opening = None /\ sess[s].promise = "lookup" /\ sess[s].asked
      /\ ~launch.daemon /\ launch.path = None /\ sess[s].pc \notin {"absent", "connected"}
  BY <1>t, <1>0 DEF SessInv
<1>3. \A t \in Sessions : t # s => sess[t].pc = "absent"
  BY <1>t, <1>2 DEF ModeInv
<1>4. \A t \in Sessions : sess[t].handshake = "none" /\ (t # s => sess[t].lookup = "none" /\ sess[t].promise = None)
  BY <1>t, <1>2, <1>3 DEF SessInv
<1>5. /\ engine' = Ensured(target)[1]
      /\ sess' = [sess EXCEPT ![s].lookup = Ensured(target)[2]]
  BY DEF Found
<1>6. \/ /\ target \in disk /\ Ensured(target)[2] = "opening"
         /\ engine' = [engine EXCEPT !.path = target, !.opening = target]
      \/ /\ target \notin disk /\ Ensured(target)[2] = "settled"
         /\ engine' = [engine EXCEPT !.path = target]
  <2> DEFINE ensured == Ensured(target)
  <2>1. engine' = ensured[1]
    BY <1>5
  <2>2. \/ target \in disk /\ ensured = <<[engine EXCEPT !.path = target, !.opening = target], "opening">>
        \/ target \notin disk /\ ensured = <<[engine EXCEPT !.path = target], "settled">>
    BY <1>t, <1>0, <1>2, EnsuredFacts
  <2> HIDE DEF ensured
  <2>3. \/ target \in disk /\ ensured[2] = "opening" /\ engine' = [engine EXCEPT !.path = target, !.opening = target]
        \/ target \notin disk /\ ensured[2] = "settled" /\ engine' = [engine EXCEPT !.path = target]
    BY <2>1, <2>2
  <2> QED BY <2>3 DEF ensured
<1> DEFINE look == Ensured(target)[2]
<1> HIDE DEF look
<1>7. /\ look \in {"opening", "settled"}
      /\ engine' \in EngineStates(Len(inst)) /\ engine'.path = target
      /\ engine'.closed = engine.closed /\ engine'.cg = engine.cg /\ engine'.watching = engine.watching
      /\ look = "opening" => target \in disk /\ engine'.opening = target
      /\ look = "settled" => target \notin disk /\ engine'.opening = None
  BY <1>1, <1>2, <1>6 DEF EngineStates, look
<1>8. /\ sess' \in [Sessions -> Session]
      /\ sess'[s].pc = sess[s].pc /\ sess'[s].handshake = "none" /\ sess'[s].asked
      /\ sess'[s].promise = "lookup" /\ sess'[s].lookup = look
      /\ \A t \in Sessions : t # s => sess'[t] = sess[t]
  <2> DEFINE new == [sess[s] EXCEPT !.lookup = look]
  <2>1. sess' = [sess EXCEPT ![s] = new]
    BY <1>1, <1>5 DEF look
  <2>2. /\ new \in Session /\ new.pc = sess[s].pc /\ new.handshake = "none" /\ new.asked
        /\ new.promise = "lookup" /\ new.lookup = look
    BY <1>1, <1>2, <1>4, <1>7 DEF Session, PromiseState
  <2> HIDE DEF new
  <2> QED BY <1>1, <2>1, <2>2
<1>9. TypeOK'
  <2>1. \A t \in Sessions : sess'[t].promise # None => sess'[t][sess'[t].promise] # "none"
    BY <1>4, <1>7, <1>8
  <2>2. default' = 0
    BY <1>0, <1>2
  <2> QED BY <1>t, <1>0, <1>7, <1>8, <2>1, <2>2 DEF TypeOK
<1>10. ModeInv'
  <2>1. ~launch.daemon => \A t, u \in Sessions : sess'[t].pc # "absent" /\ sess'[u].pc # "absent" => t = u
    BY <1>3, <1>8
  <2>2. launch.path # Root
    BY <1>2, EngineAssumption DEF Paths
  <2>3. engine'.cg = default /\ (engine'.watching <=> default # 0) /\ ~engine'.closed
    BY <1>t, <1>0, <1>7 DEF ModeInv
  <2> QED BY <1>t, <1>0, <1>2, <1>7, <2>1, <2>2, <2>3 DEF ModeInv
<1>11. SessInv'
  <2> SUFFICES ASSUME NEW t \in Sessions
               PROVE  /\ sess'[t].pc \in {"absent", "connected"} =>
                           sess'[t].promise = None /\ sess'[t].handshake = "none" /\ sess'[t].lookup = "none"
                      /\ sess'[t].pc # "connected" /\ sess'[t].handshake = "none"
                      /\ sess'[t].asked <=> sess'[t].lookup # "none"
                      /\ sess'[t].asked => ~launch'.daemon /\ launch'.path = None
                      /\ sess'[t].lookup \in {"roots", "opening"} => sess'[t].promise = "lookup"
                      /\ sess'[t].lookup = "opening" => engine'.opening # None
                      /\ sess'[t].lookup # "roots"
                      /\ sess'[t].lookup = "settled" => engine'.path # None
    BY DEF SessInv
  <2>1. CASE t = s
    BY <1>0, <1>2, <1>7, <1>8, <2>1
  <2>2. CASE t # s
    <3>1. sess'[t] = sess[t] /\ ~sess[t].asked
      BY <1>t, <1>4, <1>8, <2>2 DEF SessInv
    <3> QED BY <1>3, <1>4, <2>2, <3>1
  <2> QED BY <2>1, <2>2
<1>12. CallInv'
  <2>1. \A t \in Sessions :
          /\ sess[t].pc \in {"ready", "closed"} => sess'[t].pc \in {"ready", "closed"}
          /\ sess[t].handshake # "none" => sess'[t].handshake # "none"
          /\ sess[t].lookup # "none" => sess'[t].lookup # "none"
    BY <1>4, <1>7, <1>8
  <2> QED BY <1>t, <1>0, <2>1, CallsStand
<1>13. InstInv'
  BY <1>t, <1>0, <1>2, <1>7 DEF InstInv
<1>14. QuietInv'
  <2> SUFFICES ASSUME Undisturbed PROVE QuietInv'
    BY <1>0 DEF QuietInv, Undisturbed
  <2>1. ~raced /\ ~named
    BY <1>t, <1>2, EngineAssumption DEF QuietInv, Paths
  <2>2. ~Hopeless
    BY <1>0 DEF Hopeless
  <2>3. /\ \A d \in Calls : calls[d].pc \notin {"execute", "answered", "dropped"}
        /\ \A p \in Paths : cache[p] = 0
    BY <1>t, <1>2, <2>2 DEF QuietInv, NoDefaultInv
  <2>4. \A t \in Sessions :
          /\ sess'[t].handshake = "none"
          /\ sess'[t].pc = "ready" => sess'[t].lookup = look
          /\ sess'[t].lookup \in {"none", look}
    BY <1>3, <1>4, <1>8
  <2>5. launch.path # Root
    BY <1>2, EngineAssumption DEF Paths
  <2>6. NoDefaultInv'
    BY <1>0, <1>7, <2>3, <2>4, <2>5 DEF NoDefaultInv
  <2>7. named' => Root \in disk /\ engine'.opening = Root
    BY <1>7, <2>1
  <2>8. engine'.opening # None => engine'.opening \in disk
    BY <1>7
  <2> QED BY <1>0, <1>2, <2>1, <2>6, <2>7, <2>8 DEF QuietInv
<1>15. ExitClosesAll'
  BY <1>0 DEF ExitClosesAll
<1> QED BY <1>9, <1>10, <1>11, <1>12, <1>13, <1>14, <1>15 DEF IInv

\* The invariant holds at first.
LEMMA InitInv == ASSUME Init PROVE IInv
<1>0. /\ launch \in [daemon : BOOLEAN, path : Paths \cup {None}]
      /\ launch.daemon => launch.path = Root
      /\ launch.path \in {Root, None} /\ disk \subseteq Paths
      /\ engine = [path |-> launch.path, opening |-> IF launch.path \in disk THEN launch.path ELSE None,
                   cg |-> 0, watching |-> FALSE, closed |-> FALSE]
      /\ default = 0 /\ cache = [p \in Paths |-> 0] /\ inst = <<>>
      /\ calls = [c \in Calls |-> [pc |-> "unsent", session |-> None, project |-> None,
                                   awaits |-> None, used |-> 0, notice |-> 0]]
      /\ daemon = [timer |-> launch.daemon, stopping |-> FALSE, exited |-> FALSE]
      /\ bounds = [failures |-> 0, changes |-> 0] /\ raced = FALSE /\ named = FALSE
  BY DEF Init
<1>1. /\ engine.path = launch.path /\ engine.opening = IF launch.path \in disk THEN launch.path ELSE None
      /\ engine.cg = 0 /\ ~engine.watching /\ ~engine.closed /\ ~daemon.exited
      /\ engine \in EngineStates(0) /\ Len(inst) = 0 /\ inst \in Seq(Instance) /\ None \notin disk
  <2>1. None \notin disk
    BY <1>0, EngineAssumption
  <2>2. inst \in Seq(Instance) /\ Len(inst) = 0
    BY <1>0
  <2>3. launch.path \in Paths \cup {None} /\ (IF launch.path \in disk THEN launch.path ELSE None) \in Paths \cup {None}
    BY <1>0
  <2> DEFINE opening == IF launch.path \in disk THEN launch.path ELSE None
  <2>4. engine = [path |-> launch.path, opening |-> opening, cg |-> 0, watching |-> FALSE, closed |-> FALSE]
    BY <1>0
  <2>5. opening \in Paths \cup {None}
    BY <2>3
  <2> HIDE DEF opening
  <2>6. engine \in EngineStates(0) /\ engine.path = launch.path /\ engine.opening = opening
    BY <2>3, <2>4, <2>5 DEF EngineStates
  <2> QED BY <1>0, <2>1, <2>2, <2>4, <2>6 DEF opening
<1>2. /\ sess \in [Sessions -> Session]
      /\ \A s \in Sessions :
           /\ sess[s].pc \in {"absent", "connected"} /\ (sess[s].pc = "connected" => ~launch.daemon)
           /\ ~sess[s].asked /\ sess[s].promise = None
           /\ sess[s].handshake = "none" /\ sess[s].lookup = "none"
      /\ \A s, t \in Sessions : sess[s].pc # "absent" /\ sess[t].pc # "absent" => s = t
  <2>1. ASSUME NEW pc \in {"absent", "connected"}
        PROVE  /\ NewSession(pc) \in Session /\ NewSession(pc).pc = pc /\ ~NewSession(pc).asked
               /\ NewSession(pc).promise = None /\ NewSession(pc).handshake = "none"
               /\ NewSession(pc).lookup = "none"
    BY <2>1 DEF NewSession, Session, PromiseState
  <2>2. CASE launch.daemon
    <3>1. sess = [s \in Sessions |-> NewSession("absent")]
      BY <2>2 DEF Init
    <3> QED BY <2>1, <3>1
  <2>3. CASE ~launch.daemon
    <3>1. PICK one \in Sessions :
            sess = [s \in Sessions |-> NewSession(IF s = one THEN "connected" ELSE "absent")]
      BY <2>3 DEF Init
    <3>2. \A s \in Sessions : sess[s] = NewSession(IF s = one THEN "connected" ELSE "absent")
      BY <3>1
    <3>3. \A s \in Sessions : (IF s = one THEN "connected" ELSE "absent") \in {"absent", "connected"}
      OBVIOUS
    <3>4. sess \in [Sessions -> Session]
      BY <2>1, <3>1, <3>3
    <3>5. \A s \in Sessions :
            /\ sess[s].pc = IF s = one THEN "connected" ELSE "absent"
            /\ ~sess[s].asked /\ sess[s].promise = None
            /\ sess[s].handshake = "none" /\ sess[s].lookup = "none"
      BY <2>1, <3>2, <3>3
    <3> QED BY <2>3, <3>4, <3>5
  <2> QED BY <2>2, <2>3
<1>3. calls \in [Calls -> Call] /\ \A c \in Calls : calls[c].pc = "unsent"
  BY <1>0 DEF Call
<1>4. /\ bounds \in [failures : 0..MaxFailures, changes : 0..MaxChanges]
      /\ daemon \in [timer : BOOLEAN, stopping : BOOLEAN, exited : BOOLEAN]
      /\ cache \in [Paths -> 0..Len(inst)] /\ default \in 0..Len(inst)
      /\ engine \in EngineStates(Len(inst))
  <2>1. launch.daemon \in BOOLEAN
    BY <1>0
  <2>2. 0 \in 0..MaxFailures /\ 0 \in 0..MaxChanges
    BY EngineAssumption
  <2> QED BY <1>0, <1>1, <2>1, <2>2
<1>5. TypeOK
  BY <1>0, <1>1, <1>2, <1>3, <1>4 DEF TypeOK
<1>6. ModeInv
  <2>1. launch.path = Root => engine.path = Root /\ engine.opening \in {None, Root}
    BY <1>1
  <2>2. engine.opening # None => engine.path # None
    BY <1>1
  <2>3. engine.watching <=> default # 0
    BY <1>0, <1>1
  <2>4. engine.closed <=> launch.daemon /\ daemon.exited
    BY <1>1
  <2> QED BY <1>0, <1>1, <1>2, <2>1, <2>2, <2>3, <2>4 DEF ModeInv
<1>7. SessInv
  BY <1>1, <1>2 DEF SessInv
<1>8. CallInv
  BY <1>3 DEF CallInv
<1>9. InstInv
  BY <1>0, <1>1 DEF InstInv
<1>10. QuietInv
  <2>1. NoDefaultInv
    <3>1. engine.opening = None /\ launch.path = Root => Root \notin disk
      BY <1>1, EngineAssumption DEF Paths
    <3> QED BY <1>0, <1>2, <1>3, <3>1 DEF NoDefaultInv
  <2> QED BY <1>0, <1>1, <2>1 DEF QuietInv
<1>11. ExitClosesAll
  BY <1>1 DEF ExitClosesAll
<1> QED BY <1>5, <1>6, <1>7, <1>8, <1>9, <1>10, <1>11 DEF IInv

\* The inductive invariant.
LEMMA NextInv == ASSUME IInv, [Next]_vars PROVE IInv'
<1>1. CASE UNCHANGED vars
  <2>1. UNCHANGED <<launch, disk, engine, default, cache, inst, sess, calls, daemon, bounds, raced, named>>
    BY <1>1 DEF vars
  <2>2. TypeOK /\ ModeInv /\ SessInv /\ CallInv /\ InstInv /\ QuietInv /\ ExitClosesAll
    BY DEF IInv
  <2>3. TypeOK' /\ ModeInv' /\ SessInv'
    BY <2>1, <2>2 DEF TypeOK, ModeInv, SessInv
  <2>4. CallInv' /\ InstInv' /\ ExitClosesAll'
    BY <2>1, <2>2 DEF CallInv, Ready, Settled, InstInv, ExitClosesAll
  <2>5. QuietInv'
    BY <2>1, <2>2 DEF QuietInv, Undisturbed, NoDefaultInv, Hopeless
  <2> QED BY <2>3, <2>4, <2>5 DEF IInv
<1>2. CASE Opened
  BY <1>2, OpenedInv
<1>3. ASSUME NEW c \in Calls, Resume(c) \/ Asked(c) \/ RunTool(c) \/ ToolsCall(c) PROVE IInv'
  BY <1>3, ResumeInv, AskedInv, RunToolInv, ToolsCallInv
<1>4. ASSUME NEW s \in Sessions, Initialize(s) \/ Connect(s) \/ Disconnect(s) PROVE IInv'
  BY <1>4, InitializeInv, ConnectInv
<1>5. ASSUME NEW s \in Sessions, RootsAnswer(s) \/ RootsTimeout(s) PROVE IInv'
  <2>1. Event /\ Root \in Paths /\ Cwd \in Paths
    BY <1>5 DEF RootsAnswer, RootsTimeout, Paths
  <2>2. PICK target \in Paths :
          Found(s, target) /\ (named' = named \/ (target = Root /\ named' = (named \/ Root \in disk)))
    BY <1>5, <2>1 DEF RootsAnswer, RootsTimeout
  <2> QED BY <2>1, <2>2, FoundInv
<1>6. CASE IdleTimeout \/ Signal
  <2>1. CASE UNCHANGED vars
    BY <1>1, <2>1
  <2>2. CASE Event /\ StopDaemon /\ (launch.daemon \/ Clients = {})
    BY <2>2, StopDaemonInv
  <2> QED BY <1>6, <2>1, <2>2 DEF IdleTimeout, Signal
<1>7. CASE Exit
  BY <1>7, ExitInv
<1>8. ASSUME NEW p \in Paths, Change(p) PROVE IInv'
  BY <1>8, ChangeInv
<1> QED BY <1>1, <1>2, <1>3, <1>4, <1>5, <1>6, <1>7, <1>8 DEF Next

\* The inductive invariant says what a reader of the code wants to know: while
\* nothing fails, an instance of a project that is open is the default, and then
\* the cache has none, or the one in the cache.
LEMMA InvHolds == ASSUME IInv PROVE ConnectionInv
<1>t. TypeOK /\ ModeInv /\ SessInv /\ InstInv /\ QuietInv /\ ExitClosesAll /\ Len(inst) \in Nat
  BY DEF IInv, TypeOK
<1>1. OneConnection
  <2> SUFFICES ASSUME Undisturbed, NEW p \in Paths PROVE Cardinality(Open(p)) <= 1
    BY DEF OneConnection, Undisturbed
  <2>1. ASSUME NEW i \in Open(p), NEW j \in Open(p) PROVE i = j
    <3>1. /\ i \in 1..Len(inst) /\ inst[i].open /\ inst[i].project = p
          /\ j \in 1..Len(inst) /\ inst[j].open /\ inst[j].project = p
      BY DEF Open
    <3>2. ~raced
      BY <1>t DEF QuietInv
    <3>3. ~engine.closed
      BY <1>t, <3>1, <3>2 DEF ModeInv, ExitClosesAll
    <3>4. /\ i = default \/ \E q \in Paths : cache[q] = i
          /\ j = default \/ \E q \in Paths : cache[q] = j
      BY <1>t, <3>1, <3>2, <3>3 DEF InstInv
    <3>5. ASSUME NEW k \in 1..Len(inst), inst[k].project = p, NEW q \in Paths, cache[q] = k PROVE cache[p] = k
      BY <1>t, <3>5 DEF InstInv
    <3>6. i # 0 /\ j # 0
      BY <3>1
    <3>7. default # 0 => cache[inst[default].project] = 0
      BY <1>t DEF QuietInv
    <3> QED BY <3>1, <3>4, <3>5, <3>6, <3>7
  <2>2. CASE Open(p) = {}
    BY <2>2, FS_EmptySet
  <2>3. CASE Open(p) # {}
    <3>1. PICK i \in Open(p) : TRUE
      BY <2>3
    <3>2. Open(p) = {i}
      BY <2>1, <3>1
    <3>3. Cardinality(Open(p)) = 1
      BY <3>2, FS_Singleton
    <3> QED BY <3>3
  <2> QED BY <2>2, <2>3
<1>2. DefaultIsWatched
  BY <1>t DEF DefaultIsWatched, InstInv
<1>3. RootsFirst
  BY <1>t DEF RootsFirst, SessInv, QuietInv, Undisturbed
<1> QED BY <1>t, <1>1, <1>2, <1>3 DEF ConnectionInv

\* Every server keeps its connections in order: one to a project while no open
\* fails and no index comes late, the default one watched, and none left open by a
\* daemon that exits; no open goes on behind a question to the client.
THEOREM ConnectionsHold == Spec => []ConnectionInv
<1>1. Init => IInv
  BY InitInv
<1>2. IInv /\ [Next]_vars => IInv'
  BY NextInv
<1>3. IInv => ConnectionInv
  BY InvHolds
<1> QED BY <1>1, <1>2, <1>3, PTL DEF Spec

\* A call that has no answer has used no instance.
Unused == \A c \in Calls : calls[c].pc \notin {"answered", "dropped"} => calls[c].used = 0

\* Only a tool that runs changes what the call used.
LEMMA OnlyToolsUse ==
  ASSUME IInv, [Next]_vars, NEW c \in Calls, ~RunTool(c)
  PROVE  /\ calls'[c].used = calls[c].used
         /\ calls'[c].pc \notin {"answered", "dropped"} => calls[c].pc \notin {"answered", "dropped"}
<1> DEFINE Same(d) == /\ calls'[d].used = calls[d].used
                      /\ calls'[d].pc \notin {"answered", "dropped"} => calls[d].pc \notin {"answered", "dropped"}
<1>t. TypeOK /\ calls \in [Calls -> Call] /\ \A d \in Calls : calls[d] \in Call
  BY DEF IInv, TypeOK
<1>1. CASE calls' = calls
  BY <1>1
<1>2. ASSUME NEW d \in Calls, Execute(d), calls[d].pc \in {"waiting", "asking"} PROVE Same(c)
  <2>1. CASE c = d
    BY <1>t, <1>2, <2>1 DEF Execute, Call
  <2>2. CASE c # d
    BY <1>t, <1>2, <2>2 DEF Execute
  <2> QED BY <2>1, <2>2
<1>3. ASSUME NEW d \in Calls, calls[d].pc = "waiting",
             calls' = [calls EXCEPT ![d].pc = "asking", ![d].awaits = "lookup"]
      PROVE  Same(c)
  <2>1. CASE c = d
    BY <1>t, <1>3, <2>1 DEF Call
  <2>2. CASE c # d
    BY <1>t, <1>3, <2>2
  <2> QED BY <2>1, <2>2
<1>4. ASSUME NEW d \in Calls, ToolsCall(d) PROVE Same(c)
  <2>1. PICK s \in Sessions, p \in Paths \cup {None} :
          calls' = [calls EXCEPT ![d].pc = "waiting", ![d].session = s, ![d].project = p,
                                 ![d].awaits = sess[s].promise]
    BY <1>4 DEF ToolsCall
  <2>2. calls[d].pc = "unsent"
    BY <1>4 DEF ToolsCall
  <2>3. CASE c = d
    BY <1>t, <2>1, <2>2, <2>3 DEF Call
  <2>4. CASE c # d
    BY <1>t, <2>1, <2>4
  <2> QED BY <2>3, <2>4
<1>5. ASSUME NEW d \in Calls, RunTool(d) PROVE Same(c)
  <2>1. c # d
    BY <1>5
  <2>3. \E used \in Nat : Answer(d, used)
    BY <1>t, <1>5, RunToolAnswers
  <2>4. calls'[c] = calls[c]
    BY <1>t, <2>1, <2>3, AnswerFacts
  <2> QED BY <2>4
<1>6. ASSUME NEW d \in Calls, Resume(d) PROVE Same(c)
  BY <1>2, <1>3, <1>6 DEF Resume
<1>7. ASSUME NEW d \in Calls, Asked(d) PROVE Same(c)
  BY <1>2, <1>7 DEF Asked
<1>8. CASE \E s \in Sessions : Initialize(s) \/ RootsAnswer(s) \/ RootsTimeout(s) \/ Connect(s) \/ Disconnect(s)
  BY <1>1, <1>8 DEF Initialize, RootsAnswer, RootsTimeout, Found, Connect, Disconnect
<1>9. CASE Opened \/ IdleTimeout \/ Signal \/ Exit \/ \E p \in Paths : Change(p)
  BY <1>1, <1>9 DEF Opened, OpenEnds, IdleTimeout, Signal, StopDaemon, Exit, Change, vars
<1> HIDE DEF Same
<1>10. CASE UNCHANGED vars
  BY <1>1, <1>10 DEF vars, Same
<1>11. Same(c)
  BY <1>4, <1>5, <1>6, <1>7, <1>8, <1>9, <1>10 DEF Next, Same
<1> QED BY <1>11 DEF Same

\* A step that gives a call an answer is its own tool, and the notice is that of
\* the default instance when the answer is about the project it watches.
THEOREM NoticesHold == Spec => NoticeFromWatcher
<1> DEFINE Shown(c) ==
             calls[c].pc = "execute" /\ calls'[c].used # 0 /\ ~engine.closed =>
               \A i \in 1..Len(inst) :
                 inst[i].watched /\ inst[i].project = inst'[calls'[c].used].project => calls'[c].notice = i \/ raced
<1>1. ASSUME IInv, Unused, [Next]_vars PROVE \A c \in Calls : Shown(c)
  <2> SUFFICES ASSUME NEW c \in Calls, calls[c].pc = "execute", calls'[c].used # 0, ~engine.closed,
                      NEW i \in 1..Len(inst), inst[i].watched, ~raced,
                      inst[i].project = inst'[calls'[c].used].project
               PROVE  calls'[c].notice = i
    OBVIOUS
  <2>1. calls[c].used = 0
    BY <1>1 DEF Unused
  <2>2. RunTool(c)
    BY <1>1, <2>1, OnlyToolsUse
  <2>3. TypeOK /\ Len(inst) \in Nat
    BY <1>1 DEF IInv, TypeOK
  <2>4. PICK used \in Nat : Answer(c, used)
    BY <2>2, <2>3, RunToolAnswers
  <2>5. calls'[c].used = used /\ calls'[c].notice = IF used # 0 /\ IsDefault(inst'[used].project) THEN default ELSE used
    BY <2>3, <2>4, AnswerFacts
  <2>6. i = default
    BY <1>1 DEF IInv, InstInv
  <2>7. i # 0
    OBVIOUS
  <2> QED BY <2>5, <2>6, <2>7 DEF IsDefault
<1>2. ASSUME IInv, Unused, [Next]_vars PROVE Unused'
  <2> SUFFICES ASSUME NEW c \in Calls, calls'[c].pc \notin {"answered", "dropped"} PROVE calls'[c].used = 0
    BY DEF Unused
  <2>1. ~RunTool(c)
    <3> SUFFICES ASSUME RunTool(c) PROVE FALSE
      OBVIOUS
    <3>1. TypeOK /\ Len(inst) \in Nat
      BY <1>2 DEF IInv, TypeOK
    <3>2. \E used \in Nat : Answer(c, used)
      BY <3>1, RunToolAnswers
    <3> QED BY <3>1, <3>2, AnswerFacts
  <2> QED BY <1>2, <2>1, OnlyToolsUse DEF Unused
<1>3. ASSUME Init PROVE Unused
  <2>1. calls = [c \in Calls |-> [pc |-> "unsent", session |-> None, project |-> None,
                                  awaits |-> None, used |-> 0, notice |-> 0]]
    BY <1>3 DEF Init
  <2> QED BY <2>1 DEF Unused
<1>4. IInv /\ Unused /\ [Next]_vars => [\A c \in Calls : Shown(c)]_vars
  BY <1>1
<1>5. Init => IInv /\ Unused
  BY <1>3, InitInv
<1>6. IInv /\ Unused /\ [Next]_vars => (IInv /\ Unused)'
  BY <1>2, NextInv
<1>7. NoticeFromWatcher <=> [][\A c \in Calls : Shown(c)]_vars
  BY DEF NoticeFromWatcher
<1> HIDE DEF Shown
<1> QED BY <1>4, <1>5, <1>6, <1>7, PTL DEF Spec

=============================================================================

--------------------------- MODULE ParseWorkerProofs ---------------------------
(***************************************************************************)
(* Proofs about ParseWorker: for any number of files of any kinds and any  *)
(* recycling interval, with every order of events of any number of         *)
(* workers.                                                                *)
(***************************************************************************)
EXTENDS ParseWorker, SequenceTheorems, FiniteSetTheorems, TLAPS

Parsed == [file : Files, stripped : BOOLEAN]
Rejections == {"exit", "timeout", "error"}

KindType == kind \in [Files -> Kinds]
LoopType == pass \in 1..3 /\ todo \in Seq(Files) /\ still \in Seq(Files) /\ cur \in Files \cup {None}
PoolType ==
  /\ workers \in Seq(Worker) /\ parseWorker \in DOMAIN workers \cup {None}
  /\ count \in Nat /\ nextId \in Nat
  /\ pending \in [job : Job, worker : DOMAIN workers] \cup {None}
ResultType ==
  /\ stored \in [Files -> Parsed \cup {None}]
  /\ failed \in [Files -> Reasons \cup {None}]
  /\ tally \in [indexed : Nat, skipped : Nat, errored : Nat]
  /\ hits \in [Files -> Seq(Rejections)]
ControlType ==
  /\ pc \in {"spawning", "next", "reading", "parsing", "done", "aborted"}
  /\ aborted \in BOOLEAN /\ foreign \in BOOLEAN

\* Where indexAll is, and what it waits for.
PcInv ==
  /\ pc \in {"next", "done", "aborted"} => cur = None
  /\ pc \in {"reading", "parsing"} => cur # None
  /\ pc = "parsing" <=> pending # None
  /\ pc = "parsing" => /\ pending.job.file = cur /\ pending.job.stripped = (pass = 3)
                       /\ pending.worker = parseWorker
  /\ pc = "reading" => pass > 1 /\ parseWorker = None
  /\ pc = "done" => todo = <<>> /\ still = <<>>

\* The first pass: the files that are left are the last ones of the scan.
Taken == N - Len(todo)
Waits(f) == pass = 1 /\ (f > Taken \/ f = cur)
WaitInv == \A f \in Files : Waits(f) => stored[f] = None /\ failed[f] = None /\ hits[f] = <<>>
SweepInv == pass = 1 =>
  /\ Len(todo) <= N
  /\ \A i \in 1..Len(todo) : todo[i] = Taken + i
  /\ cur # None => cur = Taken
  /\ \A f \in Files : Len(hits[f]) <= 1

\* Every file that has had its turn is stored or failed, and is counted.
Errs == {f \in Files : failed[f] \notin {None, "size"}}
Handled == IF pass > 1 THEN N ELSE IF cur = None THEN Taken ELSE Taken - 1
CountInv ==
  /\ \A f \in Files : ~Waits(f) => (stored[f] = None <=> failed[f] # None)
  /\ \A f \in Files : failed[f] \in Rejections => hits[f] # <<>> /\ hits[f][1] = failed[f]
  /\ tally.errored = Cardinality(Errs)
  /\ tally.indexed + tally.skipped + tally.errored = Handled

\* The retries take files whose workers have exited, each once, in every pass.
Due(f) == pass > 1 /\ (f = cur \/ \E i \in 1..Len(todo) : todo[i] = f)
Again(f) == \E i \in 1..Len(still) : still[i] = f
RetryInv ==
  /\ \A f \in Files : Due(f) => failed[f] = "exit" /\ Len(hits[f]) = pass - 1
  /\ \A f \in Files : Again(f) => pass < 3 /\ failed[f] = "exit" /\ Len(hits[f]) = pass /\ ~Due(f)
  /\ pass > 1 => \A i, j \in 1..Len(todo) : todo[i] = todo[j] => i = j
  /\ pass > 1 => \A i \in 1..Len(todo) : todo[i] # cur
  /\ \A i, j \in 1..Len(still) : still[i] = still[j] => i = j

\* A healthy file that failed has a retry to come, unless it has had them all.
Healthy(f) == kind[f] \in {"good", "empty", "comments"}
LossInv == \A f \in Files : Healthy(f) =>
  /\ failed[f] \notin {"read", "size", "result"}
  /\ failed[f] = "exit" /\ ~aborted => Due(f) \/ Again(f) \/ Len(hits[f]) = 3

StoredInv == \A f \in Files : stored[f] # None =>
  stored[f].file = f /\ (stored[f].stripped => Len(hits[f]) >= 2)

\* A request in a queue that has the id of the pending one is that one.
Known(w, job) ==
  /\ job \in Job /\ job.id < nextId
  /\ pending # None /\ job.id = pending.job.id => job = pending.job /\ w = pending.worker

\* A worker: its queues, and that it parses no more than it may.
Sound(w, x) ==
  /\ \A i \in 1..Len(x.inbox) : Known(w, x.inbox[i])
  /\ \A i \in 1..Len(x.outbox) : x.outbox[i].type = "result" => Known(w, x.outbox[i].job)
  /\ \A i \in 1..Len(x.outbox) : x.outbox[i].type = "exit" => x.thread = "ended"
  /\ x.taken <= Interval
Runs(x) == x.thread # "ended" /\ ~x.killed

\* As long as no exit has rejected the request of another worker: where the
\* worker in use stands, and what the others may still send.
Exit == Event1("exit")
ResultOf(job) == [type |-> "result", job |-> job]

Loading(x) ==
  /\ x.inbox = <<>>
  /\ \/ x.thread = "loading" /\ x.outbox = <<>>
     \/ x.thread = "up" /\ x.outbox = <<Event1("loaded")>>
     \/ x.thread = "ended" /\ x.outbox \in {<<Event1("error"), Exit>>, <<Exit>>}
Unused(x) ==
  /\ x.inbox = <<>>
  /\ \/ x.thread = "up" /\ x.outbox = <<>>
     \/ x.thread = "ended" /\ x.outbox = <<Exit>>
At(x, job) ==
  \/ x.thread = "up" /\ x.inbox = <<job>> /\ x.outbox = <<>>
  \/ x.thread = "up" /\ x.inbox = <<>> /\ x.outbox = <<ResultOf(job)>>
  \/ x.thread = "ended" /\ x.inbox = <<>> /\ x.outbox = <<Exit>> /\ Crashes(job)
  \/ x.thread = "ended" /\ x.inbox = <<>> /\ x.outbox = <<Event1("error"), Exit>> /\ kind[job.file] = "heap"
  \/ x.thread = "ended" /\ x.inbox = <<job>> /\ x.outbox = <<Exit>> /\ pass = 1
Spent(x) ==
  /\ \/ x.thread = "ended"
     \/ x.thread = "up" /\ \A i \in 1..Len(x.inbox) : kind[x.inbox[i].file] # "heap"
  /\ \A i \in 1..Len(x.outbox) : x.outbox[i].type \in {"result", "exit"}

InUse(x) ==
  /\ pc = "spawning" => Loading(x) /\ ~x.killed
  /\ pc \in {"next", "done", "aborted"} => Unused(x)
  /\ pc = "next" => ~x.killed
  /\ pc = "parsing" => At(x, pending.job) /\ ~x.killed

Good(w) ==
  /\ Sound(w, workers[w])
  /\ Runs(workers[w]) => w = parseWorker
  /\ ~foreign /\ w # parseWorker => Spent(workers[w])

\* The worker in use has parsed count files since the pool was recycled.
UseInv == parseWorker # None =>
  /\ workers[parseWorker].taken = count
  /\ ~foreign => InUse(workers[parseWorker])
PoolInv ==
  /\ PoolType /\ ControlType
  /\ \A w \in DOMAIN workers : Good(w)
  /\ UseInv
  /\ pending # None => pending.job.id < nextId
  /\ parseWorker = None \/ pc = "spawning" => count = 0
  /\ count <= Interval

\* As long as no exit was foreign, a healthy file fails by its own doing only.
Fine(f) == Healthy(f) => /\ failed[f] \in {None, "exit"} /\ Len(hits[f]) <= 2
                         /\ kind[f] # "comments" => Len(hits[f]) <= 1
OwnFiles == ~foreign => \A f \in Files : Fine(f)

FileInv ==
  /\ KindType /\ LoopType /\ ResultType
  /\ WaitInv /\ SweepInv /\ CountInv /\ RetryInv /\ LossInv /\ StoredInv

IInv == FileInv /\ PcInv /\ PoolInv /\ OwnFiles
-----------------------------------------------------------------------------
(* The files.                                                              *)

LEMMA NoneFacts ==
  /\ None \notin Files /\ None # "size" /\ \A r \in Rejections : r # None
  /\ None \notin Parsed /\ \A f \in Files : f \in Nat
  /\ \A job \in Job, w \in Nat : [job |-> job, worker |-> w] # None
<1>1. /\ None \notin Nat /\ None \notin Parsed /\ \A f \in Files : f \in Nat
  BY ParseAssumption DEF Files, Parsed
<1>2. ASSUME NEW job \in Job, NEW w \in Nat PROVE [job |-> job, worker |-> w] # None
  <2>1. [job |-> job, worker |-> w] \in [job : Job, worker : Nat]
    OBVIOUS
  <2>2. None \notin [job : Job, worker : Nat]
    BY ParseAssumption DEF Job
  <2>3. QED
    BY <2>1, <2>2
<1>3. None # "size" /\ \A r \in Rejections : r # None
  BY ParseAssumption DEF Rejections, Reasons
<1>4. QED
  BY <1>1, <1>2, <1>3

FileVars == <<kind, pass, todo, still, cur, stored, failed, tally, hits>>

LEMMA FileFrame ==
  ASSUME FileInv, UNCHANGED FileVars, aborted => aborted'
  PROVE  FileInv'
<1> USE DEF FileVars
<1>1. KindType' /\ LoopType' /\ ResultType'
  BY DEF FileInv, KindType, LoopType, ResultType
<1>2. WaitInv' /\ SweepInv'
  BY DEF FileInv, WaitInv, Waits, Taken, SweepInv
<1>3. CountInv'
  BY DEF FileInv, CountInv, Waits, Taken, Errs, Handled
<1>4. RetryInv'
  BY DEF FileInv, RetryInv, Due, Again
<1>5. LossInv' /\ StoredInv'
  BY DEF FileInv, LossInv, StoredInv, Healthy, Due, Again
<1>6. QED
  BY <1>1, <1>2, <1>3, <1>4, <1>5 DEF FileInv

\* The errors of the files, one of which changes.
LEMMA ErrsFacts ==
  ASSUME NEW f \in Files, NEW r, failed \in [Files -> Reasons \cup {None}],
         failed' = [failed EXCEPT ![f] = r]
  PROVE  /\ Cardinality(Errs) \in Nat
         /\ r \in {None, "size"} /\ failed[f] = None => Cardinality(Errs') = Cardinality(Errs)
         /\ r \notin {None, "size"} /\ failed[f] = None => Cardinality(Errs') = Cardinality(Errs) + 1
         /\ r = None /\ failed[f] = "exit" =>
              Cardinality(Errs) >= 1 /\ Cardinality(Errs') = Cardinality(Errs) - 1
<1>1. IsFiniteSet(Errs)
  <2>1. IsFiniteSet(Files)
    BY FS_Interval, ParseAssumption DEF Files
  <2>2. Errs \subseteq Files
    BY DEF Errs
  <2>3. QED
    BY <2>1, <2>2, FS_Subset
<1>2. Cardinality(Errs) \in Nat
  BY <1>1, FS_CardinalityType
<1>3. \A g \in Files : failed'[g] = IF g = f THEN r ELSE failed[g]
  OBVIOUS
<1>4. ASSUME r \in {None, "size"}, failed[f] = None PROVE Cardinality(Errs') = Cardinality(Errs)
  <2>1. Errs' = Errs
    BY <1>3, <1>4 DEF Errs
  <2>2. QED
    BY <2>1
<1>5. ASSUME r \notin {None, "size"}, failed[f] = None PROVE Cardinality(Errs') = Cardinality(Errs) + 1
  <2>1. Errs' = Errs \cup {f} /\ f \notin Errs
    BY <1>3, <1>5 DEF Errs
  <2>2. QED
    BY <1>1, <2>1, FS_AddElement
<1>6. ASSUME r = None, failed[f] = "exit"
      PROVE  Cardinality(Errs) >= 1 /\ Cardinality(Errs') = Cardinality(Errs) - 1
  <2>1. Errs' = Errs \ {f} /\ f \in Errs
    BY <1>3, <1>6, NoneFacts DEF Errs, Rejections
  <2>2. Cardinality(Errs') = Cardinality(Errs) - 1
    BY <1>1, <2>1, FS_RemoveElement
  <2>3. Cardinality(Errs') \in Nat
    BY <1>1, <2>1, FS_RemoveElement, FS_CardinalityType
  <2>4. QED
    BY <1>2, <2>2, <2>3
<1>7. QED
  BY <1>2, <1>4, <1>5, <1>6

\* Where cur stands when its parse is settled.
LEMMA CurFacts ==
  ASSUME FileInv, cur # None
  PROVE  /\ cur \in Files /\ N \in Nat /\ Len(todo) \in Nat /\ Taken \in Int
         /\ pass = 1 => /\ Waits(cur) /\ cur = Taken
                        /\ stored[cur] = None /\ failed[cur] = None /\ hits[cur] = <<>>
         /\ pass > 1 => /\ Due(cur) /\ failed[cur] = "exit" /\ Len(hits[cur]) = pass - 1
                        /\ \A i \in 1..Len(todo) : todo[i] # cur
         /\ ~Again(cur) /\ Len(hits[cur]) = pass - 1 /\ hits[cur] \in Seq(Rejections)
         /\ \A f \in Files : f # cur => (Waits(f) <=> pass = 1 /\ f > Taken)
<1>1. cur \in Files /\ N \in Nat /\ Len(todo) \in Nat
  BY ParseAssumption DEF FileInv, LoopType
<1>2. ASSUME pass = 1 PROVE Waits(cur) /\ cur = Taken
  BY <1>2 DEF FileInv, SweepInv, Waits
<1>3. ASSUME pass > 1 PROVE Due(cur) /\ \A i \in 1..Len(todo) : todo[i] # cur
  BY <1>3 DEF FileInv, RetryInv, Due
<1>4. pass = 1 => stored[cur] = None /\ failed[cur] = None /\ hits[cur] = <<>>
  BY <1>1, <1>2 DEF FileInv, WaitInv
<1>5. pass > 1 => failed[cur] = "exit" /\ Len(hits[cur]) = pass - 1
  BY <1>1, <1>3 DEF FileInv, RetryInv
<1>6. ~Again(cur)
  <2>1. CASE pass = 1
    <3>1. Len(hits[cur]) # pass
      BY <1>4, <2>1
    <3>2. QED
      BY <1>1, <3>1 DEF FileInv, RetryInv
  <2>2. CASE pass > 1
    BY <1>1, <1>3, <2>2 DEF FileInv, RetryInv
  <2>3. QED
    BY <2>1, <2>2 DEF FileInv, LoopType
<1>7. Len(hits[cur]) = pass - 1
  BY <1>4, <1>5 DEF FileInv, LoopType
<1>8. /\ hits[cur] \in Seq(Rejections) /\ Taken \in Int
      /\ \A f \in Files : f # cur => (Waits(f) <=> pass = 1 /\ f > Taken)
  BY <1>1 DEF FileInv, ResultType, Waits, Taken
<1>9. QED
  BY <1>1, <1>2, <1>3, <1>4, <1>5, <1>6, <1>7, <1>8

\* cur is done with: which files wait, are due or come again.
LEMMA DoneFacts ==
  ASSUME FileInv, cur # None, cur' = None, UNCHANGED <<pass, todo>>
  PROVE  /\ LoopType' <=> still' \in Seq(Files)
         /\ \A f \in Files : Waits(f)' <=> Waits(f) /\ f # cur
         /\ \A f \in Files : Due(f)' <=> Due(f) /\ f # cur
         /\ Handled' = IF pass = 1 THEN Handled + 1 ELSE Handled
         /\ Handled \in Int
<1>1. LoopType' <=> still' \in Seq(Files)
  BY DEF FileInv, LoopType
<1>2. ASSUME NEW f \in Files PROVE Waits(f)' <=> Waits(f) /\ f # cur
  <2>1. CASE f = cur
    <3>1. f # None
      BY NoneFacts
    <3>2. pass = 1 => ~(f > Taken)
      BY <2>1, CurFacts
    <3>3. QED
      BY <2>1, <3>1, <3>2 DEF Waits, Taken
  <2>2. CASE f # cur
    BY <2>2, NoneFacts DEF Waits, Taken
  <2>3. QED
    BY <2>1, <2>2
<1>3. ASSUME NEW f \in Files PROVE Due(f)' <=> Due(f) /\ f # cur
  <2>1. f # None
    BY NoneFacts
  <2>2. pass > 1 => \A i \in 1..Len(todo) : todo[i] # cur
    BY CurFacts
  <2>3. QED
    BY <2>1, <2>2 DEF Due
<1>4. Handled' = (IF pass = 1 THEN Handled + 1 ELSE Handled) /\ Handled \in Int
  BY CurFacts DEF Handled, Taken, FileInv, LoopType
<1>5. QED
  BY <1>1, <1>2, <1>3, <1>4

LEMMA RefuseFiles ==
  ASSUME FileInv, cur # None, NEW reason \in Rejections, Refuse(reason), UNCHANGED <<kind, aborted>>
  PROVE  FileInv'
<1> DEFINE h == Append(hits[cur], reason)
<1>1. /\ cur' = None /\ UNCHANGED <<pass, todo, stored>>
      /\ failed' = (IF pass = 1 THEN [failed EXCEPT ![cur] = reason] ELSE failed)
      /\ tally' = (IF pass = 1 THEN [tally EXCEPT !.errored = @ + 1] ELSE tally)
      /\ still' = (IF Retryable(reason) THEN Append(still, cur) ELSE still)
      /\ hits' = [hits EXCEPT ![cur] = h]
  BY DEF Refuse, Next1, Count
<1>2. /\ h \in Seq(Rejections) /\ Len(h) = Len(hits[cur]) + 1 /\ h # <<>>
      /\ hits[cur] # <<>> => h[1] = hits[cur][1]
      /\ hits[cur] = <<>> => h[1] = reason
      /\ Len(hits[cur]) \in Nat
  <2>1. hits[cur] \in Seq(Rejections)
    BY CurFacts
  <2>2. h \in Seq(Rejections) /\ Len(h) = Len(hits[cur]) + 1 /\ Len(hits[cur]) \in Nat
    BY <2>1
  <2>3. h # <<>>
    BY <2>2
  <2>4. \A i \in 1..Len(hits[cur]) : h[i] = hits[cur][i]
    BY <2>1
  <2>5. h[Len(hits[cur]) + 1] = reason
    BY <2>1
  <2>6. hits[cur] # <<>> => 1 \in 1..Len(hits[cur])
    BY <2>1
  <2>7. hits[cur] = <<>> => Len(hits[cur]) = 0
    BY <2>1
  <2> HIDE DEF h
  <2>8. QED
    BY <2>2, <2>3, <2>4, <2>5, <2>6, <2>7
<1> HIDE DEF h
<1>3. /\ KindType' /\ hits' \in [Files -> Seq(Rejections)] /\ hits'[cur] = h
      /\ \A f \in Files : f # cur => hits'[f] = hits[f]
  BY <1>1, <1>2, CurFacts DEF FileInv, KindType, ResultType
<1>4. /\ \A f \in Files : f # cur => failed'[f] = failed[f]
      /\ pass = 1 => failed'[cur] = reason
      /\ pass > 1 => failed' = failed
      /\ failed' \in [Files -> Reasons \cup {None}]
  BY <1>1, CurFacts DEF FileInv, ResultType, Rejections, Reasons
<1>5. /\ tally' \in [indexed : Nat, skipped : Nat, errored : Nat]
      /\ tally'.indexed = tally.indexed /\ tally'.skipped = tally.skipped
      /\ tally'.errored = IF pass = 1 THEN tally.errored + 1 ELSE tally.errored
  BY <1>1 DEF FileInv, ResultType
<1>6. ResultType'
  BY <1>1, <1>3, <1>4, <1>5 DEF FileInv, ResultType
<1>7. still' \in Seq(Files)
  BY <1>1, CurFacts DEF FileInv, LoopType
<1>8. LoopType'
  BY <1>1, <1>7, DoneFacts
<1>9. \A f \in Files : (Waits(f)' <=> Waits(f) /\ f # cur) /\ (Due(f)' <=> Due(f) /\ f # cur)
  BY <1>1, DoneFacts
<1>10. WaitInv'
  BY <1>1, <1>3, <1>4, <1>9 DEF FileInv, WaitInv
<1>11. SweepInv'
  <2>1. ASSUME pass = 1, NEW f \in Files PROVE Len(hits'[f]) <= 1
    <3>1. CASE f = cur
      BY <1>2, <1>3, <2>1, <3>1, CurFacts
    <3>2. CASE f # cur
      BY <1>3, <2>1, <3>2 DEF FileInv, SweepInv
    <3>3. QED
      BY <3>1, <3>2
  <2>2. QED
    BY <1>1, <2>1 DEF FileInv, SweepInv, Taken
<1>12. CountInv'
  <2>1. reason \notin {None, "size"}
    BY NoneFacts DEF Rejections
  <2>2. \A f \in Files : ~Waits(f)' => (stored'[f] = None <=> failed'[f] # None)
    <3>1. ASSUME NEW f \in Files, f # cur, ~Waits(f)' PROVE stored'[f] = None <=> failed'[f] # None
      BY <1>1, <1>4, <1>9, <3>1 DEF FileInv, CountInv
    <3>2. stored'[cur] = None /\ failed'[cur] # None
      <4>1. CASE pass = 1
        BY <1>1, <1>4, <2>1, <4>1, CurFacts
      <4>2. CASE pass > 1
        <5>1. ~Waits(cur) /\ failed[cur] # None
          BY <4>2, CurFacts, NoneFacts DEF Waits, Rejections
        <5>2. QED
          BY <1>1, <1>4, <4>2, <5>1, CurFacts DEF FileInv, CountInv
      <4>3. QED
        BY <4>1, <4>2 DEF FileInv, LoopType
    <3>3. QED
      BY <3>1, <3>2
  <2>3. \A f \in Files : failed'[f] \in Rejections => hits'[f] # <<>> /\ hits'[f][1] = failed'[f]
    <3>1. ASSUME NEW f \in Files, f # cur, failed'[f] \in Rejections PROVE hits'[f] # <<>> /\ hits'[f][1] = failed'[f]
      BY <1>3, <1>4, <3>1 DEF FileInv, CountInv
    <3>2. h # <<>> /\ h[1] = failed'[cur]
      <4>1. CASE pass = 1
        BY <1>2, <1>4, <4>1, CurFacts
      <4>2. CASE pass > 1
        BY <1>2, <1>4, <4>2, CurFacts DEF FileInv, CountInv, Rejections
      <4>3. QED
        BY <4>1, <4>2 DEF FileInv, LoopType
    <3>3. QED
      BY <1>3, <3>1, <3>2
  <2>4. tally'.errored = Cardinality(Errs)'
    <3>1. CASE pass = 1
      <4>1. failed' = [failed EXCEPT ![cur] = reason] /\ failed[cur] = None /\ cur \in Files
        BY <1>1, <3>1, CurFacts
      <4>2. Cardinality(Errs') = Cardinality(Errs) + 1
        BY <2>1, <4>1, ErrsFacts DEF FileInv, ResultType
      <4>3. QED
        BY <1>5, <3>1, <4>2 DEF FileInv, CountInv
    <3>2. CASE pass > 1
      BY <1>4, <1>5, <3>2 DEF FileInv, CountInv, Errs
    <3>3. QED
      BY <3>1, <3>2 DEF FileInv, LoopType
  <2>5. tally'.indexed + tally'.skipped + tally'.errored = Handled'
    BY <1>1, <1>5, DoneFacts DEF FileInv, CountInv, ResultType
  <2>6. QED
    BY <2>2, <2>3, <2>4, <2>5 DEF CountInv
<1>13. /\ \A f \in Files : Again(f)' <=> Again(f) \/ (Retryable(reason) /\ f = cur)
       /\ \A i, j \in 1..Len(still') : still'[i] = still'[j] => i = j
  <2>1. CASE Retryable(reason)
    <3>1. /\ Len(still') = Len(still) + 1 /\ Len(still) \in Nat
          /\ still'[Len(still) + 1] = cur /\ \A i \in 1..Len(still) : still'[i] = still[i]
      BY <1>1, <2>1, CurFacts DEF FileInv, LoopType
    <3>2. \A i \in 1..Len(still) : still[i] # cur
      BY CurFacts DEF Again
    <3>3. 1..Len(still') = 1..Len(still) \cup {Len(still) + 1}
      BY <3>1
    <3>4. \A i, j \in 1..Len(still) : still[i] = still[j] => i = j
      BY DEF FileInv, RetryInv
    <3>5. \A i, j \in 1..Len(still') : still'[i] = still'[j] => i = j
      BY <3>1, <3>2, <3>3, <3>4
    <3>6. \A f \in Files : Again(f)' <=> Again(f) \/ f = cur
      BY <3>1, <3>3 DEF Again
    <3>7. QED
      BY <2>1, <3>5, <3>6
  <2>2. CASE ~Retryable(reason)
    BY <1>1, <2>2 DEF Again, FileInv, RetryInv
  <2>3. QED
    BY <2>1, <2>2
<1>14. RetryInv'
  <2>1. ASSUME NEW f \in Files, Due(f)' PROVE failed'[f] = "exit" /\ Len(hits'[f]) = pass' - 1
    BY <1>1, <1>3, <1>4, <1>9, <2>1 DEF FileInv, RetryInv
  <2>2. ASSUME NEW f \in Files, Again(f)'
        PROVE  pass' < 3 /\ failed'[f] = "exit" /\ Len(hits'[f]) = pass' /\ ~Due(f)'
    <3>1. CASE f = cur
      <4>1. ~Again(f) /\ Len(hits[f]) = pass - 1 /\ hits'[f] = h
        BY <1>3, <3>1, CurFacts
      <4>2. Retryable(reason) /\ ~Due(f)'
        BY <1>9, <1>13, <2>2, <3>1, <4>1
      <4>3. Len(h) = pass /\ pass < 3
        BY <1>2, <3>1, <4>1, <4>2 DEF Retryable, FileInv, LoopType
      <4>4. failed'[f] = "exit"
        BY <1>4, <3>1, <4>2, CurFacts DEF Retryable
      <4>5. QED
        BY <1>1, <4>1, <4>2, <4>3, <4>4
    <3>2. CASE f # cur
      BY <1>1, <1>3, <1>4, <1>9, <1>13, <2>2, <3>2 DEF FileInv, RetryInv
    <3>3. QED
      BY <3>1, <3>2
  <2>3. pass' > 1 => \A i \in 1..Len(todo') : todo'[i] # cur'
    BY <1>1, NoneFacts DEF FileInv, LoopType
  <2>4. QED
    BY <1>1, <1>13, <2>1, <2>2, <2>3 DEF FileInv, RetryInv
<1>15. LossInv'
  <2> SUFFICES ASSUME NEW f \in Files, Healthy(f)'
               PROVE  /\ failed'[f] \notin {"read", "size", "result"}
                      /\ failed'[f] = "exit" /\ ~aborted' => Due(f)' \/ Again(f)' \/ Len(hits'[f]) = 3
    BY DEF LossInv
  <2>1. Healthy(f)
    BY DEF Healthy
  <2>2. CASE f # cur
    BY <1>3, <1>4, <1>9, <1>13, <2>1, <2>2 DEF FileInv, LossInv
  <2>3. CASE f = cur
    <3>1. failed'[f] \notin {"read", "size", "result"}
      <4>1. CASE pass = 1
        BY <1>4, <2>3, <4>1 DEF Rejections
      <4>2. CASE pass > 1
        BY <1>4, <2>3, <4>2, CurFacts
      <4>3. QED
        BY <4>1, <4>2 DEF FileInv, LoopType
    <3>2. ASSUME failed'[f] = "exit" PROVE Again(f)' \/ Len(hits'[f]) = 3
      <4>1. CASE pass = 1
        BY <1>4, <1>13, <2>3, <3>2, <4>1 DEF Retryable
      <4>2. CASE pass = 2
        BY <1>13, <2>3, <4>2 DEF Retryable
      <4>3. CASE pass = 3
        <5>1. Len(hits[cur]) = 2
          BY <4>3, CurFacts
        <5>2. QED
          BY <1>2, <1>3, <2>3, <5>1
      <4>4. QED
        BY <4>1, <4>2, <4>3 DEF FileInv, LoopType
    <3>3. QED
      BY <3>1, <3>2
  <2>4. QED
    BY <2>2, <2>3
<1>16. StoredInv'
  <2>1. \A f \in Files : Len(hits[f]) \in Nat /\ Len(hits'[f]) >= Len(hits[f])
    <3>1. ASSUME NEW f \in Files PROVE Len(hits[f]) \in Nat /\ Len(hits'[f]) >= Len(hits[f])
      <4>1. Len(hits[f]) \in Nat
        BY DEF FileInv, ResultType
      <4>2. QED
        BY <1>2, <1>3, <4>1
    <3>2. QED
      BY <3>1
  <2>2. ASSUME NEW f \in Files PROVE Len(hits'[f]) \in Nat
    BY <1>3, <2>2
  <2>3. QED
    BY <1>1, <2>1, <2>2 DEF FileInv, StoredInv
<1>17. QED
  BY <1>3, <1>6, <1>8, <1>10, <1>11, <1>12, <1>14, <1>15, <1>16 DEF FileInv

\* An answer settles cur.
Settled(job) == job.file = cur /\ job.stripped = (pass = 3) /\ job \in Job

LEMMA AcceptFiles ==
  ASSUME FileInv, cur # None, NEW job, Settled(job), Accept(job), UNCHANGED <<kind, aborted>>
  PROVE  FileInv' /\ \A f \in Files : hits'[f] = hits[f] /\ failed'[f] \in {failed[f], None, "result"}
<1> DEFINE broken == kind[job.file] = "broken"
           empty == kind[job.file] = "empty"
           parse == [file |-> job.file, stripped |-> job.stripped]
           field == IF broken THEN "errored" ELSE IF empty THEN "skipped" ELSE "indexed"
<1>1. /\ cur' = None /\ UNCHANGED <<pass, todo, still, hits, kind, aborted>>
      /\ stored' = IF broken THEN stored ELSE [stored EXCEPT ![cur] = parse]
      /\ failed' = IF broken THEN IF pass = 1 THEN [failed EXCEPT ![cur] = "result"] ELSE failed
                   ELSE [failed EXCEPT ![cur] = None]
  BY DEF Accept, Next1
<1>2. tally' = IF pass = 1 THEN Count(field) ELSE IF broken THEN tally ELSE Mended
  BY DEF Accept
<1>3. /\ parse \in Parsed /\ parse # None /\ parse.file = cur /\ parse.stripped = (pass = 3)
      /\ broken => ~Healthy(cur)
  BY NoneFacts DEF Settled, Job, Parsed, Healthy
<1>4. /\ broken => stored' = stored
      /\ ~broken => stored'[cur] = parse
      /\ \A f \in Files : f # cur => stored'[f] = stored[f]
      /\ stored' \in [Files -> Parsed \cup {None}]
  BY <1>1, <1>3, CurFacts DEF FileInv, ResultType
<1>5. /\ broken /\ pass = 1 => failed'[cur] = "result"
      /\ broken /\ pass # 1 => failed'[cur] = failed[cur]
      /\ ~broken => failed'[cur] = None
      /\ \A f \in Files : f # cur => failed'[f] = failed[f]
      /\ failed' \in [Files -> Reasons \cup {None}]
  BY <1>1, CurFacts DEF FileInv, ResultType, Reasons
<1>6. tally \in [indexed : Nat, skipped : Nat, errored : Nat] /\ tally.errored = Cardinality(Errs)
  BY DEF FileInv, ResultType, CountInv
<1>7. tally' \in [indexed : Nat, skipped : Nat, errored : Nat] /\ tally'.errored = Cardinality(Errs)'
  <2>1. CASE pass = 1 /\ broken
    <3>1. tally' = [tally EXCEPT !.errored = @ + 1]
      BY <1>2, <2>1 DEF Count
    <3>2. failed' = [failed EXCEPT ![cur] = "result"]
      BY <1>1, <2>1
    <3>3. Cardinality(Errs') = Cardinality(Errs) + 1
      <4>1. "result" \notin {None, "size"}
        BY ParseAssumption DEF Reasons
      <4>2. cur \in Files /\ failed[cur] = None
        BY <2>1, CurFacts
      <4>3. QED
        BY <3>2, <4>1, <4>2, ErrsFacts DEF FileInv, ResultType
    <3>4. QED
      BY <1>6, <3>1, <3>3
  <2>2. CASE pass = 1 /\ ~broken
    <3>1. field \in {"skipped", "indexed"} /\ tally' = [tally EXCEPT ![field] = @ + 1]
      BY <1>2, <2>2 DEF Count
    <3>2. tally' \in [indexed : Nat, skipped : Nat, errored : Nat] /\ tally'.errored = tally.errored
      <4>1. CASE field = "skipped"
        BY <1>6, <3>1, <4>1
      <4>2. CASE field = "indexed"
        BY <1>6, <3>1, <4>2
      <4>3. QED
        BY <3>1, <4>1, <4>2
    <3>3. failed' = [failed EXCEPT ![cur] = None]
      BY <1>1, <2>2
    <3>4. Cardinality(Errs') = Cardinality(Errs)
      BY <2>2, <3>3, ErrsFacts, CurFacts DEF FileInv, ResultType
    <3>5. QED
      BY <1>6, <3>2, <3>4
  <2>3. CASE pass # 1 /\ broken
    <3>1. tally' = tally /\ failed' = failed
      BY <1>1, <1>2, <2>3
    <3>2. QED
      BY <1>6, <3>1 DEF Errs
  <2>4. CASE pass # 1 /\ ~broken
    <3>1. tally' = [tally EXCEPT !.indexed = @ + 1, !.errored = @ - 1]
      BY <1>2, <2>4 DEF Mended
    <3>2. failed' = [failed EXCEPT ![cur] = None] /\ failed[cur] = "exit"
      BY <1>1, <2>4, CurFacts DEF FileInv, LoopType
    <3>3. Cardinality(Errs) >= 1 /\ Cardinality(Errs') = Cardinality(Errs) - 1
      BY <3>2, ErrsFacts, CurFacts DEF FileInv, ResultType
    <3>4. tally.errored - 1 \in Nat /\ tally.indexed + 1 \in Nat
      BY <1>6, <3>3
    <3>5. tally' \in [indexed : Nat, skipped : Nat, errored : Nat] /\ tally'.errored = tally.errored - 1
      BY <1>6, <3>1, <3>4
    <3>6. QED
      BY <1>6, <3>3, <3>5
  <2>5. QED
    BY <2>1, <2>2, <2>3, <2>4
<1>8. tally'.indexed + tally'.skipped + tally'.errored =
        tally.indexed + tally.skipped + tally.errored + (IF pass = 1 THEN 1 ELSE 0)
  <2>1. CASE pass = 1
    <3>1. field \in {"errored", "skipped", "indexed"} /\ tally' = [tally EXCEPT ![field] = @ + 1]
      BY <1>2, <2>1 DEF Count
    <3>2. CASE field = "errored"
      BY <1>6, <2>1, <3>1, <3>2
    <3>3. CASE field = "skipped"
      BY <1>6, <2>1, <3>1, <3>3
    <3>4. CASE field = "indexed"
      BY <1>6, <2>1, <3>1, <3>4
    <3>5. QED
      BY <3>1, <3>2, <3>3, <3>4
  <2>2. CASE pass # 1
    BY <1>2, <1>6, <2>2 DEF Mended
  <2>3. QED
    BY <2>1, <2>2
<1> HIDE DEF parse, broken, empty, field
<1>9. KindType' /\ LoopType' /\ ResultType'
  BY <1>1, <1>4, <1>5, <1>7, DoneFacts DEF FileInv, KindType, LoopType, ResultType
<1>10. /\ \A f \in Files : Waits(f)' <=> Waits(f) /\ f # cur
       /\ \A f \in Files : Due(f)' <=> Due(f) /\ f # cur
       /\ Handled' = (IF pass = 1 THEN Handled + 1 ELSE Handled) /\ Handled \in Int
  BY <1>1, DoneFacts
<1>11. WaitInv' /\ SweepInv'
  <2>1. WaitInv'
    BY <1>1, <1>4, <1>5, <1>10 DEF FileInv, WaitInv
  <2>2. SweepInv'
    BY <1>1 DEF FileInv, SweepInv, Taken
  <2>3. QED
    BY <2>1, <2>2
<1>12. CountInv'
  <2>1. \A f \in Files : ~Waits(f)' => (stored'[f] = None <=> failed'[f] # None)
    <3>1. ASSUME NEW f \in Files, f # cur, ~Waits(f)' PROVE stored'[f] = None <=> failed'[f] # None
      BY <1>4, <1>5, <1>10, <3>1 DEF FileInv, CountInv
    <3>2. stored'[cur] = None <=> failed'[cur] # None
      <4>1. CASE ~broken
        BY <1>3, <1>4, <1>5, <4>1
      <4>2. CASE broken /\ pass = 1
        BY <1>4, <1>5, <4>2, CurFacts, ParseAssumption DEF Reasons
      <4>3. CASE broken /\ pass # 1
        <5>1. ~Waits(cur) /\ cur \in Files
          BY <4>3, CurFacts DEF Waits
        <5>2. QED
          BY <1>4, <1>5, <4>3, <5>1 DEF FileInv, CountInv
      <4>4. QED
        BY <4>1, <4>2, <4>3
    <3>3. QED
      BY <3>1, <3>2
  <2>2. \A f \in Files : failed'[f] \in Rejections => hits'[f] # <<>> /\ hits'[f][1] = failed'[f]
    <3>1. \A f \in Files : failed'[f] \in {failed[f], None, "result"}
      BY <1>5
    <3>2. None \notin Rejections /\ "result" \notin Rejections
      BY NoneFacts DEF Rejections
    <3>3. QED
      BY <1>1, <3>1, <3>2 DEF FileInv, CountInv
  <2>3. tally'.indexed + tally'.skipped + tally'.errored = Handled'
    BY <1>6, <1>8, <1>10 DEF FileInv, CountInv
  <2>4. QED
    BY <1>7, <2>1, <2>2, <2>3 DEF CountInv
<1>13. \A f \in Files : Again(f)' <=> Again(f)
  BY <1>1 DEF Again
<1>14. RetryInv'
  <2>1. \A f \in Files : (Due(f)' => Due(f) /\ f # cur) /\ (Again(f)' => Again(f) /\ f # cur)
    BY <1>10, <1>13, CurFacts
  <2>2. \A f \in Files : f # cur => failed'[f] = failed[f] /\ hits'[f] = hits[f]
    BY <1>1, <1>5
  <2>3. pass' > 1 => \A i \in 1..Len(todo') : todo'[i] # cur'
    BY <1>1, NoneFacts DEF FileInv, LoopType
  <2>4. QED
    BY <1>1, <1>10, <2>1, <2>2, <2>3 DEF FileInv, RetryInv
<1>15. LossInv'
  <2> SUFFICES ASSUME NEW f \in Files, Healthy(f)'
               PROVE  /\ failed'[f] \notin {"read", "size", "result"}
                      /\ failed'[f] = "exit" /\ ~aborted' => Due(f)' \/ Again(f)' \/ Len(hits'[f]) = 3
    BY DEF LossInv
  <2>1. Healthy(f)
    BY <1>1 DEF Healthy
  <2>2. CASE f # cur
    BY <1>1, <1>5, <1>10, <1>13, <2>1, <2>2 DEF FileInv, LossInv
  <2>3. CASE f = cur
    <3>1. failed'[f] = None
      BY <1>3, <1>5, <2>1, <2>3
    <3>2. QED
      BY <3>1, ParseAssumption DEF Reasons
  <2>4. QED
    BY <2>2, <2>3
<1>16. StoredInv'
  <2>1. ASSUME NEW f \in Files, f # cur PROVE stored'[f] # None =>
          stored'[f].file = f /\ (stored'[f].stripped => Len(hits'[f]) >= 2)
    BY <1>1, <1>4, <2>1 DEF FileInv, StoredInv
  <2>2. stored'[cur] # None => stored'[cur].file = cur /\ (stored'[cur].stripped => Len(hits'[cur]) >= 2)
    <3>1. CASE broken
      BY <1>1, <1>4, <3>1, CurFacts DEF FileInv, StoredInv
    <3>2. CASE ~broken
      <4>1. stored'[cur].file = cur /\ (stored'[cur].stripped => pass = 3)
        BY <1>3, <1>4, <3>2
      <4>2. pass = 3 => Len(hits'[cur]) = 2
        BY <1>1, CurFacts
      <4>3. ASSUME stored'[cur].stripped PROVE Len(hits'[cur]) >= 2
        <5>1. pass = 3
          BY <4>1, <4>3, Zenon
        <5>2. QED
          BY <4>2, <5>1
      <4>4. QED
        BY <4>1, <4>3, Zenon
    <3>3. QED
      BY <3>1, <3>2
  <2>3. QED
    BY <2>1, <2>2 DEF StoredInv
<1>17. FileInv'
  BY <1>9, <1>11, <1>12, <1>14, <1>15, <1>16 DEF FileInv
<1>18. QED
  BY <1>1, <1>5, <1>17

LEMMA SkipFiles ==
  ASSUME FileInv, pass > 1, cur # None, kind[cur] = "fleeting", cur' = None,
         UNCHANGED <<kind, pass, todo, still, resultVars, aborted>>
  PROVE  FileInv'
<1> USE DEF resultVars
<1>1. KindType' /\ LoopType' /\ ResultType'
  BY DEF FileInv, KindType, LoopType, ResultType
<1>2. /\ \A f \in Files : Waits(f)' <=> Waits(f)
      /\ \A f \in Files : Due(f)' <=> Due(f) /\ f # cur
      /\ \A f \in Files : Again(f)' <=> Again(f)
      /\ Handled' = Handled
  <2>1. \A f \in Files : ~Waits(f) /\ ~Waits(f)'
    BY DEF Waits
  <2>2. QED
    BY <2>1, DoneFacts DEF Again
<1>3. WaitInv' /\ SweepInv'
  BY <1>2 DEF FileInv, WaitInv, SweepInv
<1>4. CountInv'
  BY <1>2 DEF FileInv, CountInv, Errs
<1>5. RetryInv'
  <2>1. \A i \in 1..Len(todo') : todo'[i] # cur'
    BY NoneFacts DEF FileInv, LoopType
  <2>2. QED
    BY <1>2, <2>1 DEF FileInv, RetryInv
<1>6. LossInv'
  <2>1. \A f \in Files : Healthy(f)' => Healthy(f) /\ f # cur
    BY DEF Healthy
  <2>2. QED
    BY <1>2, <2>1 DEF FileInv, LossInv
<1>7. StoredInv'
  BY DEF FileInv, StoredInv
<1>8. QED
  BY <1>1, <1>3, <1>4, <1>5, <1>6, <1>7 DEF FileInv

\* The next file of a pass becomes cur.
LEMMA TakeFiles ==
  ASSUME FileInv, cur = None, todo # <<>>, Take, UNCHANGED <<kind, pass, still, resultVars, aborted>>
  PROVE  FileInv' /\ cur' \in Files
<1> USE DEF resultVars
<1>1. /\ cur' = todo[1] /\ Len(todo) \in Nat \ {0} /\ todo' \in Seq(Files)
      /\ Len(todo') = Len(todo) - 1 /\ \A i \in 1..Len(todo') : todo'[i] = todo[i + 1]
  BY HeadTailProperties DEF Take, FileInv, LoopType
<1>2. cur' \in Files /\ cur' # None /\ N \in Nat
  BY <1>1, NoneFacts, ParseAssumption DEF FileInv, LoopType
<1>3. KindType' /\ LoopType' /\ ResultType'
  BY <1>1, <1>2 DEF FileInv, KindType, LoopType, ResultType
<1>4. Taken' = Taken + 1 /\ Taken \in Int
  BY <1>1, <1>2 DEF Taken
<1>5. pass = 1 => cur' = Taken'
  BY <1>1, <1>4 DEF FileInv, SweepInv
<1>6. ASSUME NEW f \in Files PROVE Waits(f)' <=> Waits(f)
  <2>1. f \in Nat /\ f # None
    BY NoneFacts
  <2>2. f > Taken <=> f > Taken + 1 \/ f = Taken + 1
    BY <1>4, <2>1
  <2>3. QED
    BY <1>4, <1>5, <2>1, <2>2 DEF Waits
<1>7. ASSUME NEW f \in Files PROVE Due(f)' <=> Due(f)
  <2>1. f # None
    BY NoneFacts
  <2>2. (\E i \in 1..Len(todo) : todo[i] = f) <=> f = todo[1] \/ \E i \in 1..Len(todo') : todo'[i] = f
    <3>1. 1 \in 1..Len(todo) /\ \A i \in 1..Len(todo') : i + 1 \in 1..Len(todo)
      BY <1>1
    <3>2. \A i \in 1..Len(todo) : i = 1 \/ (i - 1 \in 1..Len(todo') /\ todo'[i - 1] = todo[i])
      BY <1>1
    <3>3. QED
      BY <1>1, <3>1, <3>2
  <2>3. QED
    BY <1>1, <2>1, <2>2 DEF Due
<1>8. \A f \in Files : Again(f)' <=> Again(f)
  BY DEF Again
<1>9. WaitInv'
  BY <1>6 DEF FileInv, WaitInv
<1>10. SweepInv'
  <2>1. ASSUME pass = 1, NEW i \in 1..Len(todo') PROVE todo'[i] = Taken' + i
    <3>1. i + 1 \in 1..Len(todo)
      BY <1>1
    <3>2. todo[i + 1] = Taken + (i + 1)
      BY <2>1, <3>1 DEF FileInv, SweepInv
    <3>3. QED
      BY <1>1, <1>4, <3>2
  <2>2. pass = 1 => Len(todo') <= N
    BY <1>1, <1>2 DEF FileInv, SweepInv
  <2>3. QED
    BY <1>5, <2>1, <2>2 DEF FileInv, SweepInv
<1>11. CountInv'
  <2>1. Handled' = Handled
    BY <1>2, <1>4 DEF Handled
  <2>2. QED
    BY <1>6, <2>1 DEF FileInv, CountInv, Errs
<1>12. RetryInv'
  <2>1. pass > 1 => \A i, j \in 1..Len(todo') : todo'[i] = todo'[j] => i = j
    <3>1. ASSUME pass > 1, NEW i \in 1..Len(todo'), NEW j \in 1..Len(todo'), todo'[i] = todo'[j]
          PROVE  i = j
      <4>1. i + 1 \in 1..Len(todo) /\ j + 1 \in 1..Len(todo) /\ todo[i + 1] = todo[j + 1]
        BY <1>1, <3>1
      <4>2. i + 1 = j + 1
        BY <3>1, <4>1 DEF FileInv, RetryInv
      <4>3. QED
        BY <4>2
    <3>2. QED
      BY <3>1
  <2>2. pass > 1 => \A i \in 1..Len(todo') : todo'[i] # cur'
    <3>1. ASSUME pass > 1, NEW i \in 1..Len(todo'), todo'[i] = cur' PROVE FALSE
      <4>1. i + 1 \in 1..Len(todo) /\ 1 \in 1..Len(todo) /\ todo[i + 1] = todo[1]
        BY <1>1, <3>1
      <4>2. i + 1 = 1
        BY <3>1, <4>1 DEF FileInv, RetryInv
      <4>3. QED
        BY <4>2
    <3>2. QED
      BY <3>1
  <2>3. QED
    BY <1>7, <1>8, <2>1, <2>2 DEF FileInv, RetryInv
<1>13. LossInv' /\ StoredInv'
  BY <1>7, <1>8 DEF FileInv, LossInv, StoredInv, Healthy
<1>14. QED
  BY <1>2, <1>3, <1>9, <1>10, <1>11, <1>12, <1>13 DEF FileInv

\* A file that is not parsed at all.
LEMMA PassOverFiles ==
  ASSUME FileInv, cur = None, PassOver
  PROVE  FileInv' /\ \A f \in Files : hits'[f] = hits[f] /\ (Healthy(f) => failed'[f] = failed[f])
<1> DEFINE g == Head(todo)
           why == IF kind[g] = "unread" THEN "read" ELSE "size"
<1>1. /\ pass = 1 /\ todo # <<>> /\ todo' = Tail(todo) /\ cur' = None
      /\ UNCHANGED <<kind, pass, still, cur, stored, hits, aborted>>
      /\ kind[g] \in {"unread", "huge"} /\ failed' = [failed EXCEPT ![g] = why]
      /\ tally' = Count(IF kind[g] = "unread" THEN "errored" ELSE "skipped")
  BY DEF PassOver
<1>2. /\ g = todo[1] /\ g \in Files /\ Len(todo) \in Nat \ {0} /\ todo' \in Seq(Files)
      /\ Len(todo') = Len(todo) - 1 /\ \A i \in 1..Len(todo') : todo'[i] = todo[i + 1]
  BY <1>1, HeadTailProperties DEF FileInv, LoopType
<1>3. N \in Nat /\ Taken' = Taken + 1 /\ Taken \in Int
  BY <1>2, ParseAssumption DEF Taken
<1>4. g = Taken + 1
  BY <1>1, <1>2 DEF FileInv, SweepInv
<1>5. \A f \in Files : Waits(f)' <=> Waits(f) /\ f # g
  <2>1. ASSUME NEW f \in Files PROVE Waits(f)' <=> Waits(f) /\ f # g
    <3>1. f \in Nat /\ f # None
      BY NoneFacts
    <3>2. f > Taken + 1 <=> f > Taken /\ f # Taken + 1
      BY <1>3, <3>1
    <3>3. QED
      BY <1>1, <1>3, <1>4, <3>1, <3>2 DEF Waits
  <2>2. QED
    BY <2>1
<1>6. Waits(g) /\ stored[g] = None /\ failed[g] = None /\ hits[g] = <<>>
  <2>1. Waits(g)
    BY <1>1, <1>3, <1>4 DEF Waits
  <2>2. QED
    BY <1>2, <2>1 DEF FileInv, WaitInv
<1> HIDE DEF g
<1>7. /\ failed'[g] = why /\ \A f \in Files : f # g => failed'[f] = failed[f]
      /\ failed' \in [Files -> Reasons \cup {None}]
  BY <1>1, <1>2 DEF FileInv, ResultType, Reasons
<1>8. tally \in [indexed : Nat, skipped : Nat, errored : Nat] /\ tally.errored = Cardinality(Errs)
  BY DEF FileInv, ResultType, CountInv
<1>9. /\ tally' \in [indexed : Nat, skipped : Nat, errored : Nat] /\ tally'.errored = Cardinality(Errs)'
      /\ tally'.indexed + tally'.skipped + tally'.errored =
           tally.indexed + tally.skipped + tally.errored + 1
  <2>1. CASE kind[g] = "unread"
    <3>1. tally' = [tally EXCEPT !.errored = @ + 1] /\ failed' = [failed EXCEPT ![g] = "read"]
      BY <1>1, <2>1 DEF Count
    <3>2. "read" \notin {None, "size"}
      BY ParseAssumption DEF Reasons
    <3>3. Cardinality(Errs') = Cardinality(Errs) + 1
      BY <1>2, <1>6, <3>1, <3>2, ErrsFacts DEF FileInv, ResultType
    <3>4. QED
      BY <1>8, <3>1, <3>3
  <2>2. CASE kind[g] # "unread"
    <3>1. tally' = [tally EXCEPT !.skipped = @ + 1] /\ failed' = [failed EXCEPT ![g] = "size"]
      BY <1>1, <2>2 DEF Count
    <3>2. Cardinality(Errs') = Cardinality(Errs)
      BY <1>2, <1>6, <3>1, ErrsFacts DEF FileInv, ResultType
    <3>3. QED
      BY <1>8, <3>1, <3>2
  <2>3. QED
    BY <2>1, <2>2
<1>10. why \in {"read", "size"} /\ why # None /\ why \notin Rejections
  BY ParseAssumption DEF Reasons, Rejections
<1> HIDE DEF why
<1>11. KindType' /\ LoopType' /\ ResultType'
  BY <1>1, <1>2, <1>7, <1>9 DEF FileInv, KindType, LoopType, ResultType
<1>12. WaitInv'
  BY <1>1, <1>5, <1>7 DEF FileInv, WaitInv
<1>13. SweepInv'
  <2>1. ASSUME NEW i \in 1..Len(todo') PROVE todo'[i] = Taken' + i
    <3>1. i + 1 \in 1..Len(todo)
      BY <1>2
    <3>2. todo[i + 1] = Taken + (i + 1)
      BY <1>1, <3>1 DEF FileInv, SweepInv
    <3>3. QED
      BY <1>2, <1>3, <3>2
  <2>2. Len(todo') <= N
    BY <1>1, <1>2, <1>3 DEF FileInv, SweepInv
  <2>3. QED
    BY <1>1, <2>1, <2>2 DEF FileInv, SweepInv
<1>14. CountInv'
  <2>1. \A f \in Files : ~Waits(f)' => (stored'[f] = None <=> failed'[f] # None)
    BY <1>1, <1>5, <1>6, <1>7, <1>10 DEF FileInv, CountInv
  <2>2. \A f \in Files : failed'[f] \in Rejections => hits'[f] # <<>> /\ hits'[f][1] = failed'[f]
    BY <1>1, <1>7, <1>10 DEF FileInv, CountInv
  <2>3. Handled' = Handled + 1 /\ Handled \in Int
    BY <1>1, <1>3 DEF Handled
  <2>4. QED
    BY <1>8, <1>9, <2>1, <2>2, <2>3 DEF FileInv, CountInv
<1>15. \A f \in Files : ~Due(f) /\ ~Due(f)' /\ (Again(f)' <=> Again(f))
  BY <1>1 DEF Due, Again
<1>16. \A f \in Files : Again(f) => f # g
  <2>1. Len(hits[g]) = 0
    BY <1>6
  <2>2. QED
    BY <1>1, <2>1 DEF FileInv, RetryInv
<1>17. RetryInv'
  BY <1>1, <1>7, <1>15, <1>16 DEF FileInv, RetryInv
<1>18. \A f \in Files : Healthy(f) => f # g
  BY <1>1 DEF Healthy
<1>19. LossInv' /\ StoredInv'
  <2>1. \A f \in Files : Healthy(f)' <=> Healthy(f)
    BY <1>1 DEF Healthy
  <2>2. LossInv'
    BY <1>1, <1>7, <1>15, <1>18, <2>1 DEF FileInv, LossInv
  <2>3. StoredInv'
    BY <1>1 DEF FileInv, StoredInv
  <2>4. QED
    BY <2>2, <2>3
<1>20. FileInv'
  BY <1>11, <1>12, <1>13, <1>14, <1>17, <1>19 DEF FileInv
<1>21. QED
  BY <1>1, <1>7, <1>18, <1>20

LEMMA NextPassFiles ==
  ASSUME FileInv, cur = None, NextPass
  PROVE  FileInv'
<1>1. /\ todo = <<>> /\ still # <<>> /\ todo' = still /\ still' = <<>> /\ pass' = pass + 1
      /\ UNCHANGED <<kind, cur, stored, failed, tally, hits, aborted>>
  BY DEF NextPass, resultVars
<1>2. Len(still) \in Nat /\ Len(still) >= 1 /\ still[1] \in Files
  BY <1>1 DEF FileInv, LoopType
<1>3. pass < 3
  <2>1. Again(still[1])
    BY <1>2 DEF Again
  <2>2. QED
    BY <1>2, <2>1 DEF FileInv, RetryInv
<1>4. KindType' /\ LoopType' /\ ResultType'
  BY <1>1, <1>3 DEF FileInv, KindType, LoopType, ResultType
<1>5. pass' > 1 /\ pass \in 1..2
  BY <1>1, <1>3 DEF FileInv, LoopType
<1>6. /\ \A f \in Files : ~Waits(f)' /\ ~Waits(f)
      /\ \A f \in Files : (Due(f)' <=> Again(f)) /\ ~Due(f) /\ ~Again(f)'
  <2>1. \A f \in Files : f # None /\ f \in 1..N /\ N \in Nat
    BY NoneFacts, ParseAssumption DEF Files
  <2>2. Len(todo) = 0 /\ Len(still') = 0
    BY <1>1
  <2>3. QED
    BY <1>1, <1>5, <2>1, <2>2 DEF Waits, Taken, Due, Again
<1>7. WaitInv' /\ SweepInv'
  BY <1>5, <1>6 DEF WaitInv, SweepInv
<1>8. CountInv'
  <2>1. Handled' = Handled
    <3>1. Len(todo) = 0 /\ N \in Nat
      BY <1>1, ParseAssumption
    <3>2. QED
      BY <1>1, <1>5, <3>1 DEF Handled, Taken
  <2>2. QED
    BY <1>1, <1>6, <2>1 DEF FileInv, CountInv, Errs
<1>9. RetryInv'
  <2>1. \A f \in Files : Due(f)' => failed'[f] = "exit" /\ Len(hits'[f]) = pass' - 1
    BY <1>1, <1>5, <1>6 DEF FileInv, RetryInv
  <2>2. \A i \in 1..Len(todo') : todo'[i] # cur'
    BY <1>1, NoneFacts DEF FileInv, LoopType
  <2>3. Len(still') = 0
    BY <1>1
  <2>4. \A i, j \in 1..Len(todo') : todo'[i] = todo'[j] => i = j
    BY <1>1 DEF FileInv, RetryInv
  <2>5. QED
    BY <1>6, <2>1, <2>2, <2>3, <2>4 DEF RetryInv
<1>10. LossInv' /\ StoredInv'
  <2>1. LossInv'
    BY <1>1, <1>6 DEF FileInv, LossInv, Healthy
  <2>2. StoredInv'
    BY <1>1 DEF FileInv, StoredInv
  <2>3. QED
    BY <2>1, <2>2
<1>11. QED
  BY <1>4, <1>7, <1>8, <1>9, <1>10 DEF FileInv

\* An aborted retry loop leaves the files it has not taken.
LEMMA CeaseFiles ==
  ASSUME FileInv, aborted, cur = None, pass > 1, todo' = <<>>,
         UNCHANGED <<kind, pass, still, cur, resultVars, aborted>>
  PROVE  FileInv'
<1> USE DEF resultVars
<1>1. KindType' /\ LoopType' /\ ResultType'
  BY DEF FileInv, KindType, LoopType, ResultType
<1>2. /\ \A f \in Files : ~Waits(f)' /\ ~Waits(f) /\ ~Due(f)' /\ (Again(f)' <=> Again(f))
      /\ Len(todo') = 0 /\ Handled' = Handled
  <2>1. Len(todo') = 0 /\ \A f \in Files : f # None
    BY NoneFacts
  <2>2. QED
    BY <2>1 DEF Waits, Due, Again, Handled
<1>3. WaitInv' /\ SweepInv'
  BY <1>2 DEF FileInv, WaitInv, SweepInv
<1>4. CountInv'
  BY <1>2 DEF FileInv, CountInv, Errs
<1>5. RetryInv'
  BY <1>2 DEF FileInv, RetryInv
<1>6. LossInv' /\ StoredInv'
  BY DEF FileInv, LossInv, StoredInv, Healthy
<1>7. QED
  BY <1>1, <1>3, <1>4, <1>5, <1>6 DEF FileInv
-----------------------------------------------------------------------------
(* As long as no exit was foreign.                                         *)

LEMMA RefuseOwn ==
  ASSUME FileInv, OwnFiles, cur # None, NEW reason \in Rejections, Refuse(reason), UNCHANGED kind,
         ~foreign' => ~foreign,
         ~foreign' /\ Healthy(cur) => reason = "exit" /\ (pass = 1 \/ (pass = 2 /\ kind[cur] = "comments"))
  PROVE  OwnFiles'
<1> SUFFICES ASSUME ~foreign', NEW f \in Files, Healthy(f)
             PROVE  /\ failed'[f] \in {None, "exit"} /\ Len(hits'[f]) <= 2
                    /\ kind[f] # "comments" => Len(hits'[f]) <= 1
  BY DEF OwnFiles, Fine, Healthy
<1>1. /\ failed' = (IF pass = 1 THEN [failed EXCEPT ![cur] = reason] ELSE failed)
      /\ hits' = [hits EXCEPT ![cur] = Append(hits[cur], reason)]
  BY DEF Refuse
<1>2. Fine(f)
  BY DEF OwnFiles
<1>3. CASE f # cur
  <2>1. failed'[f] = failed[f] /\ hits'[f] = hits[f]
    BY <1>1, <1>3 DEF FileInv, ResultType
  <2>2. QED
    BY <1>2, <2>1 DEF Fine
<1>4. CASE f = cur
  <2>1. reason = "exit" /\ (pass = 1 \/ (pass = 2 /\ kind[f] = "comments"))
    BY <1>4
  <2>2. hits'[f] = Append(hits[cur], reason) /\ Len(hits'[f]) = Len(hits[cur]) + 1
    BY <1>1, <1>4, CurFacts DEF FileInv, ResultType, Rejections
  <2>3. Len(hits'[f]) = pass
    BY <2>1, <2>2, CurFacts
  <2>4. failed'[f] \in {None, "exit"}
    BY <1>1, <1>2, <1>4, <2>1 DEF Fine, FileInv, ResultType
  <2>5. QED
    BY <2>1, <2>3, <2>4
<1>5. QED
  BY <1>3, <1>4

LEMMA KeepOwn ==
  ASSUME OwnFiles, UNCHANGED kind, ~foreign' => ~foreign,
         \A f \in Files : hits'[f] = hits[f] /\ (Healthy(f) => failed'[f] \in {failed[f], None})
  PROVE  OwnFiles'
BY DEF OwnFiles, Fine, Healthy
-----------------------------------------------------------------------------
(* The workers.                                                            *)

\* The pending request is dropped, or a new one takes the next identifier.
Asks ==
  /\ nextId' \in Nat
  /\ pending' \in [job : Job, worker : DOMAIN workers] \cup {None}
  /\ \/ nextId' = nextId /\ pending' \in {pending, None}
     \/ nextId' = nextId + 1 /\ pending' # None /\ pending'.job.id = nextId

LEMMA KnownKept ==
  ASSUME PoolInv, Asks
  PROVE  /\ \A w, job : Known(w, job) => Known(w, job)'
         /\ pending' # None => pending'.job.id < nextId'
<1>1. nextId \in Nat /\ nextId' \in Nat /\ \A job \in Job : job.id \in Nat
  BY DEF PoolInv, PoolType, Asks, Job
<1>2. ASSUME NEW w, NEW job, Known(w, job) PROVE Known(w, job)'
  <2>1. job \in Job /\ job.id < nextId
    BY <1>2 DEF Known
  <2>2. CASE nextId' = nextId /\ pending' \in {pending, None}
    BY <1>2, <2>1, <2>2 DEF Known
  <2>3. CASE nextId' = nextId + 1 /\ pending' # None /\ pending'.job.id = nextId
    <3>1. job.id < nextId' /\ job.id # nextId
      BY <1>1, <2>1, <2>3
    <3>2. QED
      BY <2>1, <2>3, <3>1 DEF Known
  <2>4. QED
    BY <2>2, <2>3 DEF Asks
<1>3. pending' # None => pending'.job.id < nextId'
  BY <1>1 DEF Asks, PoolInv
<1>4. QED
  BY <1>2, <1>3

\* One worker moves, and the pool with it.
LEMMA PoolStep ==
  ASSUME PoolInv, KindType, UNCHANGED kind, ControlType', Asks,
         NEW w \in DOMAIN workers, NEW x \in Worker, workers' = [workers EXCEPT ![w] = x],
         parseWorker' = parseWorker \/ (parseWorker' = None /\ parseWorker = w),
         count' \in Nat, count' <= Interval,
         parseWorker' = None \/ pc' = "spawning" => count' = 0,
         parseWorker' = w => x.taken = count',
         parseWorker' \notin {w, None} => count' = count,
         ~foreign' => ~foreign,
         ~foreign' /\ parseWorker' \notin {w, None} => UNCHANGED <<pc, pass, pending>>,
         ~foreign' /\ parseWorker' = w => InUse(workers[w])',
         Good(w)'
  PROVE  PoolInv'
<1>1. /\ workers \in Seq(Worker) /\ DOMAIN workers' = DOMAIN workers
      /\ workers'[w] = x /\ \A v \in DOMAIN workers : v # w => workers'[v] = workers[v]
  BY DEF PoolInv, PoolType
<1>2. workers' \in Seq(Worker)
  BY <1>1
<1>3. PoolType'
  BY <1>1, <1>2 DEF PoolType, PoolInv, Asks
<1>4. ASSUME NEW v \in DOMAIN workers, v # w PROVE Good(v)'
  <2>1. Good(v) /\ workers'[v] = workers[v]
    BY <1>1, <1>4 DEF PoolInv
  <2>2. Sound(v, workers[v])'
    BY <2>1, KnownKept DEF Good, Sound
  <2>3. Runs(workers[v])' => v = parseWorker'
    BY <1>4, <2>1 DEF Good, Runs
  <2>4. ~foreign' /\ v # parseWorker' => Spent(workers[v])'
    BY <1>4, <2>1 DEF Good, Spent
  <2>5. QED
    BY <2>2, <2>3, <2>4 DEF Good
<1>5. UseInv'
  <2>1. CASE parseWorker' = w
    BY <1>1, <2>1 DEF UseInv
  <2>2. CASE parseWorker' \notin {w, None}
    <3>1. parseWorker' = parseWorker /\ workers'[parseWorker] = workers[parseWorker] /\ count' = count
      BY <1>1, <2>2 DEF PoolInv, PoolType
    <3>2. ~foreign' => InUse(workers[parseWorker])'
      <4>1. ASSUME ~foreign' PROVE InUse(workers[parseWorker])'
        <5>1. UNCHANGED <<pc, pass, pending>> /\ InUse(workers[parseWorker])
          BY <2>2, <3>1, <4>1 DEF PoolInv, UseInv
        <5>2. QED
          BY <3>1, <5>1 DEF InUse, Loading, Unused, At, Crashes
      <4>2. QED
        BY <4>1
    <3>3. QED
      BY <2>2, <3>1, <3>2 DEF PoolInv, UseInv
  <2>3. QED
    BY <2>1, <2>2 DEF UseInv
<1>6. QED
  BY <1>1, <1>3, <1>4, <1>5, KnownKept DEF PoolInv

LEMMA PoolFrame ==
  ASSUME PoolInv, UNCHANGED <<kind, poolVars, foreign>>, ControlType',
         UNCHANGED <<pc, pass>> \/ (pc = "next" /\ pc' = "next")
                 \/ parseWorker = None
  PROVE  PoolInv'
<1> USE DEF poolVars
<1>1. PoolType'
  BY DEF PoolInv, PoolType
<1>2. \A w \in DOMAIN workers : Good(w)'
  BY DEF PoolInv, Good, Sound, Known, Runs, Spent
<1>3. UseInv'
  <2>1. CASE UNCHANGED <<pc, pass>>
    BY <2>1 DEF PoolInv, UseInv, InUse, Loading, Unused, At, Crashes
  <2>2. CASE pc = "next" /\ pc' = "next"
    BY <2>2 DEF PoolInv, UseInv, InUse, Loading, Unused, At, Crashes
  <2>3. QED
    BY <2>1, <2>2 DEF UseInv
<1>4. QED
  BY <1>1, <1>2, <1>3 DEF PoolInv

LEMMA WorkerFacts ==
  ASSUME PoolInv, NEW w \in DOMAIN workers
  PROVE  /\ w \in Nat /\ w # None
         /\ workers[w] \in Worker /\ workers[w].inbox \in Seq(Job) /\ workers[w].outbox \in Seq(Event)
         /\ Good(w) /\ Sound(w, workers[w])
<1>1. workers \in Seq(Worker)
  BY DEF PoolInv, PoolType
<1>2. w \in Nat /\ w # None /\ workers[w] \in Worker
  BY <1>1, ParseAssumption
<1>3. workers[w].inbox \in Seq(Job) /\ workers[w].outbox \in Seq(Event)
  BY <1>2 DEF Worker
<1>4. Good(w) /\ Sound(w, workers[w])
  BY DEF PoolInv, Good
<1>5. QED
  BY <1>2, <1>3, <1>4

\* A thread does something: nothing else in the pool changes.
LEMMA ThreadStep ==
  ASSUME PoolInv, KindType, NEW w \in DOMAIN workers, NEW x \in Worker, workers' = [workers EXCEPT ![w] = x],
         UNCHANGED <<kind, pc, pass, parseWorker, count, pending, nextId, aborted, foreign>>,
         x.killed = workers[w].killed, x.taken = workers[w].taken,
         Runs(x) => Runs(workers[w]), Sound(w, x),
         Spent(workers[w]) => Spent(x), InUse(workers[w]) => InUse(x)
  PROVE  PoolInv'
<1>1. workers'[w] = x /\ Asks /\ Good(w) /\ ControlType'
  BY DEF PoolInv, PoolType, ControlType, Asks
<1>2. Sound(w, workers[w])'
  BY <1>1 DEF Sound, Known
<1>3. Good(w)'
  BY <1>1, <1>2 DEF Good, Spent, Runs
<1>4. ~foreign' /\ parseWorker' = w => InUse(workers[w])'
  <2>1. ASSUME ~foreign, parseWorker = w PROVE InUse(x)
    BY <2>1, WorkerFacts DEF PoolInv, UseInv
  <2>2. InUse(x) => InUse(workers[w])'
    BY <1>1 DEF InUse, Loading, Unused, At, Crashes
  <2>3. QED
    BY <2>1, <2>2
<1>5. parseWorker' = w => x.taken = count'
  BY WorkerFacts DEF PoolInv, UseInv
<1>6. /\ parseWorker' = None \/ pc' = "spawning" => count' = 0
      /\ count' \in Nat /\ count' <= Interval
  BY DEF PoolInv, PoolType
<1>7. QED
  BY <1>1, <1>3, <1>4, <1>5, <1>6, PoolStep

LEMMA EventFacts ==
  /\ \A t : Event1(t).type = t
  /\ \A t \in {"loaded", "result", "error", "exit"} : Event1(t) \in Event
  /\ Exit \in Event /\ Exit.type = "exit"
  /\ \A job : ResultOf(job).type = "result" /\ ResultOf(job).job = job
  /\ \A job \in Job : ResultOf(job) \in Event
BY DEF Event1, Event, Exit, ResultOf

LEMMA LoadPool ==
  ASSUME PoolInv, KindType, NEW w \in DOMAIN workers, Load(w),
         UNCHANGED <<kind, pc, pass, parseWorker, count, pending, nextId, aborted, foreign>>
  PROVE  PoolInv'
<1> DEFINE q == Append(workers[w].outbox, Event1("loaded"))
           x == [workers[w] EXCEPT !.thread = "up", !.outbox = q]
<1>1. workers[w] \in Worker /\ workers[w].outbox \in Seq(Event) /\ workers[w].thread = "loading" /\ Sound(w, workers[w])
  BY WorkerFacts DEF Load
<1>2. workers' = [workers EXCEPT ![w] = x]
  BY DEF Load
<1>3. q \in Seq(Event) /\ Len(q) = Len(workers[w].outbox) + 1
      /\ q[Len(q)] = Event1("loaded") /\ \A i \in 1..Len(workers[w].outbox) : q[i] = workers[w].outbox[i]
  BY <1>1, EventFacts
<1>4. \A i \in 1..Len(q) : q[i].type = "loaded" \/ (i \in 1..Len(workers[w].outbox) /\ q[i] = workers[w].outbox[i])
  BY <1>1, <1>3, EventFacts
<1>5. workers[w].outbox = <<>> => q = <<Event1("loaded")>>
  BY <1>1
<1> HIDE DEF q
<1>6. /\ x \in Worker /\ x.thread = "up" /\ x.killed = workers[w].killed /\ x.taken = workers[w].taken
      /\ x.inbox = workers[w].inbox /\ x.outbox = q
  BY <1>1, <1>3 DEF Worker
<1> HIDE DEF x
<1>7. Sound(w, x)
  BY <1>1, <1>4, <1>6 DEF Sound
<1>8. ~Spent(workers[w])
  BY <1>1 DEF Spent
<1>9. InUse(workers[w]) => InUse(x)
  BY <1>1, <1>5, <1>6 DEF InUse, Loading, Unused, At
<1>10. Runs(x) => Runs(workers[w])
  BY <1>1, <1>6 DEF Runs
<1>11. QED
  BY <1>2, <1>6, <1>7, <1>8, <1>9, <1>10, ThreadStep

LEMMA LoadFailsPool ==
  ASSUME PoolInv, KindType, NEW w \in DOMAIN workers, LoadFails(w),
         UNCHANGED <<kind, pc, pass, parseWorker, count, pending, nextId, aborted, foreign>>
  PROVE  PoolInv'
<1> DEFINE q == workers[w].outbox \o <<Event1("error"), Event1("exit")>>
           x == [workers[w] EXCEPT !.thread = "ended", !.outbox = q]
<1>1. workers[w] \in Worker /\ workers[w].outbox \in Seq(Event) /\ workers[w].thread = "loading" /\ Sound(w, workers[w])
  BY WorkerFacts DEF LoadFails
<1>2. workers' = [workers EXCEPT ![w] = x]
  BY DEF LoadFails
<1>3. q \in Seq(Event) /\ Len(q) = Len(workers[w].outbox) + 2
      /\ q[Len(q)].type = "exit" /\ q[Len(q) - 1].type = "error"
      /\ \A i \in 1..Len(workers[w].outbox) : q[i] = workers[w].outbox[i]
  BY <1>1, EventFacts
<1>4. \A i \in 1..Len(q) : q[i].type \in {"error", "exit"} \/ (i \in 1..Len(workers[w].outbox) /\ q[i] = workers[w].outbox[i])
  BY <1>1, <1>3
<1>5. workers[w].outbox = <<>> => q = <<Event1("error"), Exit>>
  BY <1>1 DEF Exit
<1> HIDE DEF q
<1>6. /\ x \in Worker /\ x.thread = "ended" /\ x.killed = workers[w].killed /\ x.taken = workers[w].taken
      /\ x.inbox = workers[w].inbox /\ x.outbox = q
  BY <1>1, <1>3 DEF Worker
<1> HIDE DEF x
<1>7. Sound(w, x)
  BY <1>1, <1>4, <1>6 DEF Sound
<1>8. ~Spent(workers[w])
  BY <1>1 DEF Spent
<1>9. InUse(workers[w]) => InUse(x)
  BY <1>1, <1>5, <1>6 DEF InUse, Loading, Unused, At
<1>10. ~Runs(x)
  BY <1>6 DEF Runs
<1>11. QED
  BY <1>2, <1>6, <1>7, <1>8, <1>9, <1>10, ThreadStep

LEMMA DiePool ==
  ASSUME PoolInv, KindType, NEW w \in DOMAIN workers, Die(w),
         UNCHANGED <<kind, pc, pass, parseWorker, count, pending, nextId, aborted, foreign>>
  PROVE  PoolInv'
<1> DEFINE q == Append(workers[w].outbox, Event1("exit"))
           x == [workers[w] EXCEPT !.thread = "ended", !.outbox = q]
<1>1. workers[w] \in Worker /\ workers[w].outbox \in Seq(Event) /\ Sound(w, workers[w])
      /\ workers[w].thread # "ended" /\ workers[w].killed
  BY WorkerFacts DEF Die
<1>2. workers' = [workers EXCEPT ![w] = x]
  BY DEF Die
<1>3. q \in Seq(Event) /\ Len(q) = Len(workers[w].outbox) + 1
      /\ q[Len(q)].type = "exit" /\ \A i \in 1..Len(workers[w].outbox) : q[i] = workers[w].outbox[i]
  BY <1>1, EventFacts
<1>4. \A i \in 1..Len(q) : q[i].type = "exit" \/ (i \in 1..Len(workers[w].outbox) /\ q[i] = workers[w].outbox[i])
  BY <1>1, <1>3
<1>5. workers[w].outbox = <<>> => q = <<Exit>>
  BY <1>1 DEF Exit
<1> HIDE DEF q
<1>6. /\ x \in Worker /\ x.thread = "ended" /\ x.killed = workers[w].killed /\ x.taken = workers[w].taken
      /\ x.inbox = workers[w].inbox /\ x.outbox = q
  BY <1>1, <1>3 DEF Worker
<1> HIDE DEF x
<1>7. Sound(w, x)
  BY <1>1, <1>4, <1>6 DEF Sound
<1>8. Spent(workers[w]) => Spent(x)
  BY <1>4, <1>6 DEF Spent
<1>9. InUse(workers[w]) => InUse(x)
  BY <1>1, <1>5, <1>6 DEF InUse, Unused
<1>10. ~Runs(x)
  BY <1>6 DEF Runs
<1>11. QED
  BY <1>2, <1>6, <1>7, <1>8, <1>9, <1>10, ThreadStep

LEMMA ParsePool ==
  ASSUME PoolInv, KindType, NEW w \in DOMAIN workers, Parse(w),
         UNCHANGED <<kind, pc, pass, parseWorker, count, pending, nextId, aborted, foreign>>
  PROVE  PoolInv'
<1> DEFINE box == workers[w].inbox
           old == workers[w].outbox
           job == Head(box)
           dies == Crashes(job) \/ kind[job.file] = "heap"
           q == IF Crashes(job) THEN Append(old, Event1("exit"))
                ELSE IF kind[job.file] = "heap" THEN old \o <<Event1("error"), Event1("exit")>>
                ELSE Append(old, ResultOf(job))
           thread == IF dies THEN "ended" ELSE "up"
           x == [workers[w] EXCEPT !.inbox = Tail(box), !.thread = thread, !.outbox = q]
<1>1. /\ workers[w] \in Worker /\ old \in Seq(Event) /\ box \in Seq(Job) /\ Sound(w, workers[w])
      /\ workers[w].thread = "up" /\ box # <<>>
  BY WorkerFacts DEF Parse
<1>2. workers' = [workers EXCEPT ![w] = x]
  BY DEF Parse, ResultOf
<1>3. /\ Len(box) \in Nat \ {0} /\ job = box[1] /\ job \in Job /\ Tail(box) \in Seq(Job)
      /\ Len(Tail(box)) = Len(box) - 1 /\ \A i \in 1..Len(Tail(box)) : Tail(box)[i] = box[i + 1]
  BY <1>1, HeadTailProperties
<1>4. \A i \in 1..Len(Tail(box)) : i + 1 \in 1..Len(box) /\ Tail(box)[i] = box[i + 1]
  BY <1>3
<1>5. Known(w, job) /\ \A i \in 1..Len(Tail(box)) : Known(w, Tail(box)[i])
  <2>1. 1 \in 1..Len(box)
    BY <1>3
  <2>2. QED
    BY <1>1, <1>3, <1>4, <2>1 DEF Sound
<1>6. /\ q \in Seq(Event)
      /\ \A i \in 1..Len(q) : \/ i \in 1..Len(old) /\ q[i] = old[i]
                              \/ dies /\ q[i].type = "exit"
                              \/ kind[job.file] = "heap" /\ q[i].type = "error"
                              \/ ~dies /\ q[i] = ResultOf(job)
  <2>1. CASE Crashes(job)
    <3>1. q = Append(old, Event1("exit")) /\ Event1("exit") \in Event /\ Event1("exit").type = "exit"
      BY <2>1, EventFacts
    <3>2. q \in Seq(Event) /\ Len(q) = Len(old) + 1 /\ q[Len(old) + 1].type = "exit"
          /\ \A i \in 1..Len(old) : q[i] = old[i]
      BY <1>1, <3>1
    <3> HIDE DEF q, old
    <3>3. QED
      BY <1>1, <2>1, <3>2
  <2>2. CASE ~Crashes(job) /\ kind[job.file] = "heap"
    <3>1. q = old \o <<Event1("error"), Event1("exit")>>
          /\ Event1("exit") \in Event /\ Event1("exit").type = "exit"
          /\ Event1("error") \in Event /\ Event1("error").type = "error"
      BY <2>2, EventFacts
    <3>2. q \in Seq(Event) /\ Len(q) = Len(old) + 2 /\ q[Len(old) + 1].type = "error"
          /\ q[Len(old) + 2].type = "exit" /\ \A i \in 1..Len(old) : q[i] = old[i]
      BY <1>1, <3>1
    <3> HIDE DEF q, old
    <3>3. QED
      BY <1>1, <2>2, <3>2
  <2>3. CASE ~dies
    <3>1. q = Append(old, ResultOf(job)) /\ ResultOf(job) \in Event
      BY <1>3, <2>3, EventFacts
    <3>2. q \in Seq(Event) /\ Len(q) = Len(old) + 1 /\ q[Len(old) + 1] = ResultOf(job)
          /\ \A i \in 1..Len(old) : q[i] = old[i]
      BY <1>1, <3>1
    <3> HIDE DEF q, old
    <3>3. QED
      BY <1>1, <2>3, <3>2
  <2>4. QED
    BY <2>1, <2>2, <2>3
<1>7. old = <<>> => \/ Crashes(job) /\ q = <<Exit>>
                    \/ ~Crashes(job) /\ kind[job.file] = "heap" /\ q = <<Event1("error"), Exit>>
                    \/ ~dies /\ q = <<ResultOf(job)>>
  BY <1>1 DEF Exit
<1>8. \A j : box = <<j>> => job = j /\ Tail(box) = <<>>
  BY <1>1
<1> DEFINE rest == Tail(box)
<1> HIDE DEF q, job, rest
<1>9. thread \in {"up", "ended"} /\ (thread = "ended" <=> dies) /\ rest \in Seq(Job)
  BY <1>3 DEF rest
<1> HIDE DEF thread
<1>10. /\ x \in Worker /\ x.thread = thread /\ x.killed = workers[w].killed /\ x.taken = workers[w].taken
       /\ x.inbox = rest /\ x.outbox = q
  BY <1>1, <1>6, <1>9 DEF Worker, rest
<1> HIDE DEF x
<1>11. Sound(w, x)
  <2>1. \A i \in 1..Len(rest) : Known(w, rest[i])
    BY <1>5 DEF rest
  <2>2. \A i \in 1..Len(q) : q[i].type = "result" => Known(w, q[i].job)
    BY <1>1, <1>5, <1>6, EventFacts DEF Sound
  <2>3. \A i \in 1..Len(q) : q[i].type = "exit" => dies
    BY <1>1, <1>6, EventFacts DEF Sound
  <2>4. x.taken <= Interval
    BY <1>1, <1>10 DEF Sound
  <2>5. QED
    BY <1>9, <1>10, <2>1, <2>2, <2>3, <2>4 DEF Sound
<1>12. Spent(workers[w]) => Spent(x)
  <2> SUFFICES ASSUME Spent(workers[w]) PROVE Spent(x)
    OBVIOUS
  <2>1. \A i \in 1..Len(box) : kind[box[i].file] # "heap"
    BY <1>1 DEF Spent
  <2>2. kind[job.file] # "heap" /\ \A i \in 1..Len(rest) : kind[rest[i].file] # "heap"
    <3>1. 1 \in 1..Len(box)
      BY <1>3
    <3>2. QED
      BY <1>3, <1>4, <2>1, <3>1 DEF rest
  <2>3. \A i \in 1..Len(q) : q[i].type \in {"result", "exit"}
    BY <1>6, <2>2, EventFacts DEF Spent
  <2>4. QED
    BY <1>9, <1>10, <2>2, <2>3 DEF Spent
<1>13. InUse(workers[w]) => InUse(x)
  <2> SUFFICES ASSUME InUse(workers[w]) PROVE InUse(x)
    OBVIOUS
  <2>1. pc \notin {"spawning", "next", "done", "aborted"}
    BY <1>1 DEF InUse, Loading, Unused
  <2>2. ASSUME pc = "parsing" PROVE At(x, pending.job)
    <3>1. box = <<pending.job>> /\ old = <<>>
      BY <1>1, <2>2 DEF InUse, At
    <3>2. job = pending.job /\ rest = <<>>
      BY <1>8, <3>1 DEF rest
    <3>3. QED
      BY <1>7, <1>9, <1>10, <3>1, <3>2 DEF At
  <2>3. QED
    BY <1>10, <2>1, <2>2 DEF InUse
<1>14. Runs(x) => Runs(workers[w])
  BY <1>1, <1>10 DEF Runs
<1>15. QED
  BY <1>2, <1>10, <1>11, <1>12, <1>13, <1>14, ThreadStep
-----------------------------------------------------------------------------
(* The events at the main thread.                                          *)

Drained(x) == [x EXCEPT !.outbox = Tail(@)]

LEMMA DrainFacts ==
  ASSUME PoolInv, NEW w \in DOMAIN workers, workers[w].outbox # <<>>
  PROVE  /\ Received(w) = [workers EXCEPT ![w] = Drained(workers[w])]
         /\ Drained(workers[w]) \in Worker /\ Drained(workers[w]).thread = workers[w].thread
         /\ Drained(workers[w]).killed = workers[w].killed /\ Drained(workers[w]).taken = workers[w].taken
         /\ Drained(workers[w]).inbox = workers[w].inbox
         /\ Drained(workers[w]).outbox = Tail(workers[w].outbox)
         /\ Sound(w, Drained(workers[w]))
         /\ Spent(workers[w]) => Spent(Drained(workers[w]))
         /\ Head(workers[w].outbox) = workers[w].outbox[1] /\ 1 \in 1..Len(workers[w].outbox)
<1> DEFINE old == workers[w].outbox
           x == Drained(workers[w])
<1>1. workers[w] \in Worker /\ old \in Seq(Event) /\ Sound(w, workers[w])
  BY WorkerFacts
<1>2. /\ Len(old) \in Nat \ {0} /\ Head(old) = old[1] /\ Tail(old) \in Seq(Event)
      /\ Len(Tail(old)) = Len(old) - 1 /\ \A i \in 1..Len(Tail(old)) : Tail(old)[i] = old[i + 1]
  BY <1>1, HeadTailProperties
<1>3. \A i \in 1..Len(Tail(old)) : i + 1 \in 1..Len(old) /\ Tail(old)[i] = old[i + 1]
  BY <1>2
<1>4. Received(w) = [workers EXCEPT ![w] = x]
  BY DEF Received, Drained
<1>5. /\ x \in Worker /\ x.thread = workers[w].thread /\ x.killed = workers[w].killed
      /\ x.taken = workers[w].taken /\ x.inbox = workers[w].inbox /\ x.outbox = Tail(old)
  BY <1>1, <1>2 DEF Drained, Worker
<1> HIDE DEF x
<1>6. Sound(w, x)
  BY <1>1, <1>3, <1>5 DEF Sound
<1>7. Spent(workers[w]) => Spent(x)
  BY <1>3, <1>5 DEF Spent
<1>8. QED
  BY <1>2, <1>4, <1>5, <1>6, <1>7 DEF x

\* An event leaves the queue of its worker.
LEMMA ReceivePool ==
  ASSUME PoolInv, KindType, UNCHANGED <<kind, nextId>>, ControlType', pending' \in {pending, None},
         NEW w \in DOMAIN workers, workers[w].outbox # <<>>, workers' = Received(w),
         \/ parseWorker' = parseWorker /\ count' = count
         \/ parseWorker' = None /\ parseWorker = w /\ count' = 0 /\ workers[w].thread = "ended",
         pc' = "spawning" => pc = "spawning",
         ~foreign' => ~foreign,
         ~foreign' /\ w # parseWorker => UNCHANGED <<pc, pass, pending>>,
         ~foreign' /\ parseWorker' = w => InUse(workers[w])',
         ~foreign' /\ w = parseWorker /\ parseWorker' = None => Spent(Drained(workers[w]))
  PROVE  PoolInv'
<1> PICK x : x = Drained(workers[w])
  OBVIOUS
<1>1. /\ workers' = [workers EXCEPT ![w] = x] /\ x \in Worker /\ Sound(w, x) /\ x.taken = workers[w].taken
      /\ x.thread = workers[w].thread /\ x.killed = workers[w].killed
      /\ Spent(workers[w]) => Spent(x)
  BY DrainFacts
<1>2. workers'[w] = x /\ Good(w) /\ w # None /\ Asks
  <2>1. workers'[w] = x /\ Good(w) /\ w # None
    BY <1>1, WorkerFacts
  <2>2. Asks
    BY DEF Asks, PoolInv, PoolType
  <2>3. QED
    BY <2>1, <2>2
<1>3. Good(w)'
  <2>1. Sound(w, x)'
    BY <1>1, <1>2, KnownKept DEF Sound
  <2>2. Runs(x) => w = parseWorker'
    BY <1>1, <1>2 DEF Good, Runs
  <2>3. ~foreign' /\ w # parseWorker' => Spent(x)
    BY <1>1, <1>2 DEF Good
  <2>4. QED
    BY <1>2, <2>1, <2>2, <2>3 DEF Good, Spent
<1>4. parseWorker' = w => x.taken = count'
  BY <1>1, <1>2 DEF PoolInv, UseInv
<1>5. count \in Nat /\ count <= Interval /\ (parseWorker = None \/ pc = "spawning" => count = 0)
      /\ 0 <= Interval /\ 0 \in Nat
  BY ParseAssumption DEF PoolInv, PoolType
<1>6. /\ parseWorker' = None \/ pc' = "spawning" => count' = 0
      /\ count' \in Nat /\ count' <= Interval
  BY <1>2, <1>5
<1>7. parseWorker' = parseWorker \/ (parseWorker' = None /\ parseWorker = w)
  OBVIOUS
<1>8. parseWorker' \notin {w, None} => count' = count /\ w # parseWorker
  OBVIOUS
<1>9. ~foreign' /\ parseWorker' \notin {w, None} => UNCHANGED <<pc, pass, pending>>
  BY <1>8
<1>10. QED
  BY <1>1, <1>2, <1>3, <1>4, <1>6, <1>7, <1>8, <1>9, PoolStep

\* A request goes to the worker in use, in whose queue it is the only one.
LEMMA PostPool ==
  ASSUME PoolInv, KindType, UNCHANGED <<kind, pass, parseWorker, foreign, aborted>>,
         NEW w \in DOMAIN workers, w = parseWorker,
         NEW y \in Worker, y.taken = workers[w].taken, Sound(w, y),
         ~foreign => ~y.killed /\ Unused(y) /\ (pass = 1 \/ y.thread = "up"),
         NEW ws, ws = [workers EXCEPT ![w] = y], Post(w, ws), cur' \in Files,
         count' = count + 1, count < Interval
  PROVE  /\ PoolInv' /\ pc' = "parsing" /\ pending' # None /\ pending'.worker = w
         /\ pending'.job.file = cur' /\ pending'.job.stripped = (pass = 3)
<1> PICK job : job = [id |-> nextId, file |-> cur', stripped |-> (pass = 3)]
  OBVIOUS
<1>1. /\ pending' = [job |-> job, worker |-> w] /\ nextId' = nextId + 1 /\ pc' = "parsing"
      /\ workers' = [ws EXCEPT ![w].inbox = Append(@, job), ![w].taken = @ + 1]
  BY DEF Post
<1>2. workers \in Seq(Worker) /\ nextId \in Nat /\ count \in Nat /\ w \in Nat /\ w # None /\ Interval \in Nat
  BY WorkerFacts, ParseAssumption DEF PoolInv, PoolType
<1>3. job \in Job /\ job.id = nextId /\ job.file = cur' /\ job.stripped = (pass = 3)
  BY <1>2 DEF Job
<1>4. PICK box : box = Append(y.inbox, job)
  OBVIOUS
<1>5. PICK x : x = [y EXCEPT !.inbox = box, !.taken = y.taken + 1]
  OBVIOUS
<1>6. workers' = [workers EXCEPT ![w] = x]
  BY <1>1, <1>2, <1>4, <1>5
<1>7. y.inbox \in Seq(Job) /\ y.outbox \in Seq(Event) /\ y.taken \in Nat
  BY DEF Worker
<1>8. /\ x \in Worker /\ x.taken = y.taken + 1 /\ x.inbox = Append(y.inbox, job) /\ x.outbox = y.outbox
      /\ x.thread = y.thread /\ x.killed = y.killed
  <2>1. box \in Seq(Job)
    BY <1>3, <1>7, <1>4
  <2>2. /\ x \in Worker /\ x.taken = y.taken + 1 /\ x.inbox = box /\ x.outbox = y.outbox
        /\ x.thread = y.thread /\ x.killed = y.killed
    <3>1. y.taken + 1 \in Nat
      BY <1>7
    <3>2. PICK n : n = y.taken + 1
      OBVIOUS
    <3>3. x = [y EXCEPT !.inbox = box, !.taken = n] /\ n \in Nat
      BY <1>5, <3>1, <3>2
    <3>4. /\ x \in Worker /\ x.taken = n /\ x.inbox = box /\ x.outbox = y.outbox
          /\ x.thread = y.thread /\ x.killed = y.killed
      BY <2>1, <3>3 DEF Worker
    <3>5. QED
      BY <3>2, <3>4
  <2>3. QED
    BY <1>4, <2>2
<1>9. \A i \in 1..Len(x.inbox) : (i \in 1..Len(y.inbox) /\ x.inbox[i] = y.inbox[i]) \/ x.inbox[i] = job
  BY <1>7, <1>8
<1>10. y.inbox = <<>> => x.inbox = <<job>>
  BY <1>8
<1>11. /\ pending' # None /\ pending'.job = job /\ pending'.worker = w /\ Asks
      /\ pending' \in [job : Job, worker : DOMAIN workers]
  BY <1>1, <1>2, <1>3, NoneFacts DEF Asks
<1>12. workers'[w] = x
  BY <1>2, <1>6
<1>13. x.taken = count' /\ count' \in Nat /\ count' <= Interval
  <2>1. y.taken = count
    BY <1>2 DEF PoolInv, UseInv
  <2>2. QED
    BY <1>2, <1>8, <2>1
<1>14. Good(w)'
  <2>1. Known(w, job)'
    BY <1>1, <1>2, <1>3, <1>11 DEF Known
  <2>2. Sound(w, x)'
    <3>1. \A i \in 1..Len(x.inbox) : Known(w, x.inbox[i])'
      BY <1>9, <1>11, <2>1, KnownKept DEF Sound
    <3>2. \A i \in 1..Len(x.outbox) : x.outbox[i].type = "result" => Known(w, x.outbox[i].job)'
      BY <1>8, <1>11, KnownKept DEF Sound
    <3>3. \A i \in 1..Len(x.outbox) : x.outbox[i].type = "exit" => x.thread = "ended"
      BY <1>8 DEF Sound
    <3>4. QED
      BY <1>13, <3>1, <3>2, <3>3 DEF Sound
  <2>3. QED
    BY <1>12, <2>2 DEF Good
<1>15. ~foreign' => InUse(workers[w])'
  <2> SUFFICES ASSUME ~foreign PROVE InUse(x)'
    BY <1>12
  <2>1. At(x, job)'
    BY <1>8, <1>10 DEF At, Unused
  <2>2. QED
    BY <1>1, <1>8, <1>11, <2>1 DEF InUse
<1>16. ControlType'
  BY <1>1 DEF ControlType, PoolInv
<1>17. PoolInv'
  BY <1>1, <1>2, <1>6, <1>8, <1>11, <1>13, <1>14, <1>15, <1>16, PoolStep
<1>18. QED
  BY <1>1, <1>3, <1>11, <1>17

LEMMA PcFacts ==
  ASSUME IInv
  PROVE  /\ pc \in {"spawning", "next", "reading", "parsing", "done", "aborted"}
         /\ pending # None => pc = "parsing" /\ cur # None /\ cur \in Files /\ pending.worker = parseWorker
                              /\ pending.job.file = cur /\ pending.job.stripped = (pass = 3)
                              /\ parseWorker # None /\ parseWorker \in DOMAIN workers /\ pending.job \in Job
         /\ pass \in 1..3 /\ cur \in Files \cup {None}
<1>1. pending # None => pending \in [job : Job, worker : DOMAIN workers]
  BY DEF IInv, PoolInv, PoolType
<1>2. pending # None => pending.job \in Job /\ pending.worker \in DOMAIN workers
  BY <1>1
<1>3. /\ pc \in {"spawning", "next", "reading", "parsing", "done", "aborted"}
      /\ pass \in 1..3 /\ cur \in Files \cup {None}
  BY DEF IInv, PoolInv, ControlType, FileInv, LoopType
<1>4. pending # None => pc = "parsing" /\ cur # None /\ pending.worker = parseWorker
                        /\ pending.job.file = cur /\ pending.job.stripped = (pass = 3)
  BY DEF IInv, PcInv
<1>5. QED
  BY <1>2, <1>3, <1>4, WorkerFacts DEF IInv

LEMMA PcNext ==
  ASSUME pc' = "next", cur' = None, pending' = None
  PROVE  PcInv'
BY DEF PcInv

LEMMA GrammarsLoadedStep ==
  ASSUME IInv, NEW w \in DOMAIN workers, GrammarsLoaded(w), UNCHANGED <<kind, aborted>>
  PROVE  IInv'
<1> DEFINE old == workers[w].outbox
           y == Drained(workers[w])
<1> USE DEF resultVars
<1>1. /\ PoolInv /\ KindType /\ FileInv /\ OwnFiles /\ PcInv
      /\ old # <<>> /\ Head(old).type = "loaded" /\ foreign' = foreign
      /\ UNCHANGED <<kind, pass, todo, still, parseWorker, stored, failed, tally, hits, aborted>>
  BY DEF IInv, FileInv, GrammarsLoaded, Arrived
<1>2. old[1].type = "loaded" /\ 1 \in 1..Len(old) /\ w # None
  BY <1>1, DrainFacts, WorkerFacts
<1>3. /\ ~Spent(workers[w]) /\ ~Unused(workers[w]) /\ \A job : ~At(workers[w], job)
      /\ Loading(workers[w]) => workers[w].thread = "up" /\ old = <<Event1("loaded")>>
  BY <1>2, EventFacts DEF Spent, Unused, At, Loading, ResultOf, Event1, Exit
<1>4. /\ y.thread = workers[w].thread /\ y.killed = workers[w].killed /\ y.inbox = workers[w].inbox
      /\ y.outbox = Tail(old) /\ y \in Worker /\ y.taken = workers[w].taken /\ Sound(w, y)
      /\ Received(w) = [workers EXCEPT ![w] = y]
  BY <1>1, DrainFacts
<1>5. Loading(workers[w]) => Unused(y) /\ y.thread = "up"
  <2>1. old = <<Event1("loaded")>> => Tail(old) = <<>>
    OBVIOUS
  <2>2. QED
    BY <1>3, <1>4, <2>1 DEF Loading, Unused
<1>6. pc = "spawning" /\ w = parseWorker /\ ~foreign => Loading(workers[w]) /\ ~workers[w].killed
  BY <1>1, <1>2 DEF PoolInv, UseInv, InUse
<1> HIDE DEF y
<1>7. CASE pc = "spawning" /\ w = parseWorker /\ cur = None
  <2>1. /\ pc' = "next" /\ workers' = Received(w) /\ UNCHANGED <<cur, count, pending, nextId>>
    BY <1>7 DEF GrammarsLoaded
  <2>2. PcInv' /\ ControlType'
    BY <1>1, <1>7, <2>1 DEF PcInv, ControlType, PoolInv
  <2>3. ~foreign' => InUse(workers[w])'
    <3>1. workers'[w] = y
      BY <1>4, <2>1
    <3>2. QED
      BY <1>1, <1>4, <1>5, <1>6, <1>7, <2>1, <3>1 DEF InUse, Unused
  <2>4. PoolInv'
    BY <1>1, <1>2, <1>7, <2>1, <2>2, <2>3, ReceivePool
  <2>5. FileInv' /\ OwnFiles'
    BY <1>1, <2>1, FileFrame, KeepOwn DEF FileVars
  <2>6. QED
    BY <2>2, <2>4, <2>5 DEF IInv
<1>8. CASE pc = "spawning" /\ w = parseWorker /\ cur # None
  <2>1. cur' = cur /\ Post(w, Received(w)) /\ count' = count + 1 /\ cur' \in Files
    BY <1>8, PcFacts DEF GrammarsLoaded
  <2>2. count < Interval
    BY <1>8, ParseAssumption DEF IInv, PoolInv
  <2>3. PICK ws : ws = Received(w)
    OBVIOUS
  <2>4. PICK z : z = y
    OBVIOUS
  <2>5. /\ z \in Worker /\ z.taken = workers[w].taken /\ Sound(w, z) /\ ws = [workers EXCEPT ![w] = z]
        /\ Post(w, ws)
    BY <1>4, <2>1, <2>3, <2>4
  <2>6. ~foreign => ~z.killed /\ Unused(z) /\ z.thread = "up"
    BY <1>4, <1>5, <1>6, <1>8, <2>4
  <2>7. /\ PoolInv' /\ pc' = "parsing" /\ pending' # None /\ pending'.worker = w
        /\ pending'.job.file = cur' /\ pending'.job.stripped = (pass = 3)
    BY <1>1, <1>8, <2>1, <2>2, <2>5, <2>6, PostPool
  <2>8. PcInv'
    BY <1>1, <1>8, <2>1, <2>7 DEF PcInv
  <2>9. FileInv' /\ OwnFiles'
    BY <1>1, <2>1, FileFrame, KeepOwn DEF FileVars
  <2>10. QED
    BY <2>7, <2>8, <2>9 DEF IInv
<1>9. CASE ~(pc = "spawning" /\ w = parseWorker)
  <2>1. workers' = Received(w) /\ UNCHANGED <<pc, cur, count, pending, nextId>>
    BY <1>9 DEF GrammarsLoaded
  <2>2. PcInv' /\ ControlType'
    BY <1>1, <2>1 DEF PcInv, ControlType, PoolInv
  <2>3. ~foreign' => w # parseWorker \/ pc = "reading"
    <3>1. ASSUME ~foreign, w = parseWorker PROVE pc = "reading"
      <4>1. InUse(workers[w])
        BY <1>1, <1>2, <3>1 DEF PoolInv, UseInv
      <4>2. QED
        BY <1>3, <1>9, <3>1, <4>1, PcFacts DEF InUse
    <3>2. QED
      BY <1>1, <3>1
  <2>4. ~foreign' => w # parseWorker
    BY <1>1, <1>2, <2>3 DEF PcInv
  <2>5. PoolInv'
    BY <1>1, <2>1, <2>2, <2>4, ReceivePool
  <2>6. FileInv' /\ OwnFiles'
    BY <1>1, <2>1, FileFrame, KeepOwn DEF FileVars
  <2>7. QED
    BY <2>2, <2>5, <2>6 DEF IInv
<1>10. QED
  BY <1>7, <1>8, <1>9

LEMMA ResultStep ==
  ASSUME IInv, NEW w \in DOMAIN workers, Result(w), UNCHANGED <<kind, aborted>>
  PROVE  IInv'
<1> DEFINE old == workers[w].outbox
           y == Drained(workers[w])
<1>1. /\ PoolInv /\ KindType /\ FileInv /\ OwnFiles /\ PcInv
      /\ old # <<>> /\ Head(old).type = "result" /\ workers' = Received(w)
      /\ UNCHANGED <<kind, parseWorker, count, nextId, aborted, foreign>>
  BY DEF IInv, FileInv, Result, Arrived
<1>2. old[1].type = "result" /\ 1 \in 1..Len(old) /\ w # None /\ Head(old) = old[1] /\ Sound(w, workers[w])
  BY <1>1, DrainFacts, WorkerFacts
<1>3. /\ ~Loading(workers[w]) /\ ~Unused(workers[w])
      /\ \A job : At(workers[w], job) => workers[w].thread = "up" /\ workers[w].inbox = <<>> /\ old = <<ResultOf(job)>>
  BY <1>2, EventFacts DEF Unused, At, Loading, Event1, Exit
<1>4. /\ y.thread = workers[w].thread /\ y.killed = workers[w].killed /\ y.inbox = workers[w].inbox
      /\ y.outbox = Tail(old) /\ workers'[w] = y
  BY <1>1, DrainFacts, WorkerFacts DEF PoolInv, PoolType
<1>5. \A job : old = <<ResultOf(job)>> => Tail(old) = <<>> /\ old[1].job = job
  BY EventFacts
<1> HIDE DEF y, old
<1>6. PICK job : job = old[1].job
  OBVIOUS
<1>7. Known(w, job)
  BY <1>2, <1>6 DEF Sound, old
<1>8. CASE Answered(job.id)
  <2>1. pending # None /\ job = pending.job /\ w = parseWorker /\ pc = "parsing"
    BY <1>7, <1>8, PcFacts DEF Known, Answered
  <2>2. Accept(job) /\ pc' = "next" /\ cur' = None /\ pending' = None /\ pass' = pass
    BY <1>2, <1>6, <1>8 DEF Result, Accept, Next1, old
  <2>3. cur # None /\ Settled(job)
    BY <2>1, PcFacts DEF Settled
  <2>4. FileInv' /\ \A f \in Files : hits'[f] = hits[f] /\ failed'[f] \in {failed[f], None, "result"}
    BY <1>1, <2>2, <2>3, AcceptFiles
  <2>5. OwnFiles'
    <3>1. \A f \in Files : Healthy(f) => failed'[f] # "result"
      BY <1>1, <2>4 DEF FileInv, LossInv, Healthy
    <3>2. \A f \in Files : hits'[f] = hits[f] /\ (Healthy(f) => failed'[f] \in {failed[f], None})
      BY <2>4, <3>1
    <3>3. QED
      BY <1>1, <3>2, KeepOwn
  <2>6. PcInv' /\ ControlType'
    BY <1>1, <2>2, PcNext DEF ControlType, PoolInv
  <2>7. ~foreign' => InUse(workers[w])'
    <3>1. ASSUME ~foreign PROVE At(workers[w], pending.job) /\ ~workers[w].killed
      BY <1>1, <1>2, <2>1, <3>1 DEF PoolInv, UseInv, InUse
    <3>2. ~foreign => Unused(y) /\ ~y.killed
      BY <1>3, <1>4, <1>5, <3>1 DEF Unused
    <3>3. QED
      BY <1>1, <1>4, <2>2, <3>2 DEF InUse, Unused
  <2>8. PoolInv'
    BY <1>1, <1>2, <2>1, <2>2, <2>6, <2>7, ReceivePool DEF old
  <2>9. QED
    BY <2>4, <2>5, <2>6, <2>8 DEF IInv
<1>9. CASE ~Answered(job.id)
  <2>1. UNCHANGED <<pc, pass, todo, still, cur, pending, stored, failed, tally, hits>>
    BY <1>2, <1>6, <1>9 DEF Result, mainVars, resultVars, old
  <2>2. PcInv' /\ ControlType'
    BY <1>1, <2>1 DEF PcInv, ControlType, PoolInv
  <2>3. ~foreign' => w # parseWorker
    <3>1. ASSUME ~foreign, w = parseWorker PROVE FALSE
      <4>1. InUse(workers[w])
        BY <1>1, <1>2, <3>1 DEF PoolInv, UseInv
      <4>2. pc = "parsing" /\ pending # None
        BY <1>1, <1>2, <1>3, <3>1, <4>1, PcFacts DEF InUse, PcInv
      <4>3. old = <<ResultOf(pending.job)>>
        BY <1>3, <4>1, <4>2 DEF InUse
      <4>4. QED
        BY <1>5, <1>6, <1>9, <4>2, <4>3 DEF Answered
    <3>2. QED
      BY <1>1, <3>1
  <2>4. PoolInv'
    BY <1>1, <2>1, <2>2, <2>3, ReceivePool DEF old
  <2>5. FileInv' /\ OwnFiles'
    BY <1>1, <2>1, FileFrame, KeepOwn DEF FileVars
  <2>6. QED
    BY <2>2, <2>4, <2>5 DEF IInv
<1>10. QED
  BY <1>8, <1>9

LEMMA WorkerErrorStep ==
  ASSUME IInv, NEW w \in DOMAIN workers, WorkerError(w), UNCHANGED <<kind, aborted>>
  PROVE  IInv'
<1> DEFINE old == workers[w].outbox
           y == Drained(workers[w])
<1>1. /\ PoolInv /\ KindType /\ FileInv /\ OwnFiles /\ PcInv
      /\ old # <<>> /\ Head(old).type = "error" /\ workers' = Received(w)
      /\ UNCHANGED <<kind, parseWorker, count, nextId, aborted, foreign>>
  BY DEF IInv, FileInv, WorkerError, Arrived
<1>2. old[1].type = "error" /\ 1 \in 1..Len(old) /\ w # None
  BY <1>1, DrainFacts, WorkerFacts
<1>3. /\ ~Unused(workers[w]) /\ ~Spent(workers[w])
      /\ \A job : At(workers[w], job) => workers[w].thread = "ended" /\ workers[w].inbox = <<>>
                    /\ old = <<Event1("error"), Exit>> /\ kind[job.file] = "heap"
      /\ Loading(workers[w]) => workers[w].thread = "ended" /\ workers[w].inbox = <<>>
                                /\ old = <<Event1("error"), Exit>>
  BY <1>2, EventFacts DEF Unused, At, Loading, Spent, Event1, Exit, ResultOf
<1>4. /\ y.thread = workers[w].thread /\ y.killed = workers[w].killed /\ y.inbox = workers[w].inbox
      /\ y.outbox = Tail(old) /\ workers'[w] = y
  BY <1>1, DrainFacts, WorkerFacts DEF PoolInv, PoolType
<1>5. old = <<Event1("error"), Exit>> => Tail(old) = <<Exit>>
  OBVIOUS
<1> HIDE DEF y, old
<1>6. ~foreign => w = parseWorker /\ InUse(workers[w])
  BY <1>1, <1>2, <1>3 DEF PoolInv, UseInv, Good
<1>7. CASE pending # None
  <2>1. /\ Refuse("error") /\ pc' = "next" /\ cur' = None /\ pending' = None /\ pass' = pass
        /\ cur # None /\ "error" \in Rejections /\ pc = "parsing"
    BY <1>7, PcFacts DEF WorkerError, Refuse, Next1, Rejections
  <2>2. FileInv'
    BY <1>1, <2>1, RefuseFiles
  <2>3. ~foreign => At(workers[w], pending.job) /\ ~workers[w].killed
    BY <1>6, <2>1 DEF InUse
  <2>4. OwnFiles'
    <3>1. ~foreign => ~Healthy(cur)
      BY <1>3, <1>7, <2>3, PcFacts DEF Healthy
    <3>2. QED
      BY <1>1, <2>1, <3>1, RefuseOwn
  <2>5. PcInv' /\ ControlType'
    BY <1>1, <2>1, PcNext DEF ControlType, PoolInv
  <2>6. ~foreign' => InUse(workers[w])'
    <3>1. ~foreign => Unused(y) /\ ~y.killed
      BY <1>3, <1>4, <1>5, <2>3 DEF Unused
    <3>2. QED
      BY <1>1, <1>4, <2>1, <3>1 DEF InUse, Unused
  <2>7. PoolInv'
    BY <1>1, <1>2, <1>6, <2>1, <2>5, <2>6, ReceivePool DEF old
  <2>8. QED
    BY <2>2, <2>4, <2>5, <2>7 DEF IInv
<1>8. CASE pending = None
  <2>1. UNCHANGED <<pc, pass, todo, still, cur, pending, stored, failed, tally, hits>>
    BY <1>8 DEF WorkerError, mainVars, resultVars
  <2>2. PcInv' /\ ControlType'
    BY <1>1, <2>1 DEF PcInv, ControlType, PoolInv
  <2>3. ~foreign' => InUse(workers[w])'
    <3>1. ASSUME ~foreign PROVE pc = "spawning"
      <4>1. pc \notin {"next", "done", "aborted", "parsing"}
        BY <1>1, <1>3, <1>6, <1>8, <3>1 DEF InUse, PcInv
      <4>2. pc # "reading"
        BY <1>1, <1>2, <1>6, <3>1 DEF PcInv
      <4>3. QED
        BY <4>1, <4>2, PcFacts
    <3>2. ~foreign => Loading(y) /\ ~y.killed
      BY <1>3, <1>4, <1>5, <1>6, <3>1 DEF InUse, Loading
    <3>3. QED
      BY <1>1, <1>4, <2>1, <3>1, <3>2 DEF InUse, Loading
  <2>4. PoolInv'
    BY <1>1, <1>2, <1>6, <2>1, <2>2, <2>3, ReceivePool DEF old
  <2>5. FileInv' /\ OwnFiles'
    BY <1>1, <2>1, FileFrame, KeepOwn DEF FileVars
  <2>6. QED
    BY <2>2, <2>4, <2>5 DEF IInv
<1>9. QED
  BY <1>7, <1>8

LEMMA WorkerExitStep ==
  ASSUME IInv, NEW w \in DOMAIN workers, WorkerExit(w), UNCHANGED <<kind, aborted>>
  PROVE  IInv'
<1> DEFINE old == workers[w].outbox
           y == Drained(workers[w])
<1>1. /\ PoolInv /\ KindType /\ FileInv /\ OwnFiles /\ PcInv
      /\ old # <<>> /\ Head(old).type = "exit" /\ workers' = Received(w)
      /\ parseWorker' = (IF parseWorker = w THEN None ELSE parseWorker)
      /\ count' = (IF parseWorker = w THEN 0 ELSE count)
      /\ UNCHANGED <<kind, nextId, aborted>>
      /\ foreign' = (foreign \/ (pending # None /\ pending.worker # w))
  BY DEF IInv, FileInv, WorkerExit, Arrived
<1>2. old[1].type = "exit" /\ 1 \in 1..Len(old) /\ w # None /\ Sound(w, workers[w])
  BY <1>1, DrainFacts, WorkerFacts
<1>3. workers[w].thread = "ended"
  BY <1>2 DEF Sound
<1>4. /\ Loading(workers[w]) \/ Unused(workers[w]) => old = <<Exit>>
      /\ \A job : At(workers[w], job) => old = <<Exit>> /\ (Crashes(job) \/ pass = 1)
  BY <1>2, <1>3, EventFacts DEF Unused, At, Loading, Event1, Exit
<1>5. y.thread = workers[w].thread /\ y.outbox = Tail(old)
  BY <1>1, DrainFacts
<1>6. old = <<Exit>> => Tail(old) = <<>>
  OBVIOUS
<1> HIDE DEF y, old
<1>7. ~foreign /\ w = parseWorker => InUse(workers[w])
  BY <1>1, <1>2 DEF PoolInv, UseInv
<1>8. ~foreign /\ w = parseWorker => Spent(y)
  <2> SUFFICES ASSUME ~foreign, w = parseWorker PROVE Spent(y)
    OBVIOUS
  <2>1. pc # "reading"
    BY <1>1, <1>2 DEF PcInv
  <2>2. old = <<Exit>>
    BY <1>4, <1>7, <2>1, PcFacts DEF InUse
  <2>3. Len(y.outbox) = 0
    BY <1>5, <1>6, <2>2
  <2>4. QED
    BY <1>3, <1>5, <2>3 DEF Spent
<1>9. /\ ~foreign' => ~foreign
      /\ \/ parseWorker' = parseWorker /\ count' = count
         \/ parseWorker' = None /\ parseWorker = w /\ count' = 0 /\ workers[w].thread = "ended"
      /\ parseWorker' # w
  BY <1>1, <1>2, <1>3
<1>10. CASE pending # None
  <2>1. /\ Refuse("exit") /\ pc' = "next" /\ cur' = None /\ pending' = None /\ pass' = pass
        /\ cur # None /\ "exit" \in Rejections /\ pc = "parsing" /\ pending.worker = parseWorker
    BY <1>10, PcFacts DEF WorkerExit, Refuse, Next1, Rejections
  <2>2. FileInv'
    BY <1>1, <2>1, RefuseFiles
  <2>3. ~foreign' => w = parseWorker
    BY <1>1, <1>10, <2>1
  <2>4. OwnFiles'
    <3>1. ASSUME ~foreign', Healthy(cur) PROVE pass = 1 \/ (pass = 2 /\ kind[cur] = "comments")
      <4>1. Crashes(pending.job) \/ pass = 1
        BY <1>4, <1>7, <1>9, <2>1, <2>3, <3>1 DEF InUse
      <4>2. Crashes(pending.job) => kind[cur] = "comments" /\ pass # 3
        <5>1. pending.job.file = cur /\ (pass = 3 => pending.job.stripped)
          BY <1>10, PcFacts
        <5>2. QED
          BY <3>1, <5>1 DEF Crashes, Healthy
      <4>3. QED
        BY <4>1, <4>2, PcFacts
    <3>2. QED
      BY <1>1, <1>9, <2>1, <3>1, RefuseOwn
  <2>5. PcInv' /\ ControlType'
    BY <1>1, <2>1, PcNext DEF ControlType, PoolInv
  <2>6. PoolInv'
    BY <1>1, <1>8, <1>9, <2>1, <2>3, <2>5, ReceivePool DEF old, y
  <2>7. QED
    BY <2>2, <2>4, <2>5, <2>6 DEF IInv
<1>11. CASE pending = None
  <2>1. UNCHANGED <<pc, pass, todo, still, cur, pending, stored, failed, tally, hits>>
    BY <1>11 DEF WorkerExit, mainVars, resultVars
  <2>2. PcInv' /\ ControlType'
    BY <1>1, <1>11, <2>1 DEF PcInv, ControlType, PoolInv
  <2>3. PoolInv'
    BY <1>1, <1>8, <1>9, <2>1, <2>2, ReceivePool DEF old, y
  <2>4. FileInv' /\ OwnFiles'
    BY <1>1, <1>9, <2>1, FileFrame, KeepOwn DEF FileVars
  <2>5. QED
    BY <2>2, <2>3, <2>4 DEF IInv
<1>12. QED
  BY <1>10, <1>11
-----------------------------------------------------------------------------
(* The loops, the timeout and the signal.                                  *)

Killed(x) == [x EXCEPT !.killed = TRUE]

LEMMA KillFacts ==
  ASSUME PoolInv, NEW w \in DOMAIN workers
  PROVE  /\ Kill(workers, w) = [workers EXCEPT ![w] = Killed(workers[w])]
         /\ Killed(workers[w]) \in Worker /\ Killed(workers[w]).killed
         /\ Killed(workers[w]).thread = workers[w].thread /\ Killed(workers[w]).taken = workers[w].taken
         /\ Killed(workers[w]).inbox = workers[w].inbox /\ Killed(workers[w]).outbox = workers[w].outbox
<1>1. workers[w] \in Worker /\ w # None
  BY WorkerFacts
<1>2. Kill(workers, w) = [workers EXCEPT ![w] = Killed(workers[w])]
  BY <1>1 DEF Kill, Killed
<1>3. QED
  BY <1>1, <1>2 DEF Killed, Worker

LEMMA UnusedSpent ==
  ASSUME NEW x, Unused(x)
  PROVE  Spent(x)
<1>1. Len(x.inbox) = 0
  BY DEF Unused
<1>2. x.outbox = <<Exit>> => Len(x.outbox) = 1 /\ x.outbox[1] = Exit
  OBVIOUS
<1>3. x.outbox = <<>> => Len(x.outbox) = 0
  OBVIOUS
<1>4. QED
  BY <1>1, <1>2, <1>3, EventFacts DEF Unused, Spent

\* The worker in use is terminated, and no longer in use unless all is over.
LEMMA KillPool ==
  ASSUME PoolInv, KindType, UNCHANGED <<kind, nextId, foreign>>, ControlType', pending' \in {pending, None},
         parseWorker # None, workers' = Kill(workers, parseWorker),
         \/ parseWorker' = None /\ count' = 0 /\ (~foreign => Spent(workers[parseWorker]))
         \/ parseWorker' = parseWorker /\ count' = count /\ pc = "next" /\ pc' \in {"done", "aborted"}
  PROVE  PoolInv'
<1> PICK w : w = parseWorker
  OBVIOUS
<1> PICK x : x = Killed(workers[w])
  OBVIOUS
<1>1. w \in DOMAIN workers
  BY DEF PoolInv, PoolType
<1>2. /\ workers' = [workers EXCEPT ![w] = x] /\ x \in Worker /\ x.killed /\ x.thread = workers[w].thread
      /\ x.taken = workers[w].taken /\ x.inbox = workers[w].inbox /\ x.outbox = workers[w].outbox
  BY <1>1, KillFacts
<1>3. workers'[w] = x /\ Good(w) /\ w # None /\ Sound(w, workers[w])
  BY <1>1, <1>2, WorkerFacts DEF PoolInv, PoolType
<1>4. Asks
  BY DEF Asks, PoolInv, PoolType
<1>5. Good(w)'
  <2>1. Sound(w, x)'
    BY <1>2, <1>3, <1>4, KnownKept DEF Sound
  <2>2. ~Runs(x)
    BY <1>2 DEF Runs
  <2>3. ~foreign' /\ w # parseWorker' => Spent(x)'
    BY <1>2 DEF Spent
  <2>4. QED
    BY <1>3, <2>1, <2>2, <2>3 DEF Good
<1>6. ~foreign' /\ parseWorker' = w => InUse(workers[w])'
  BY <1>2, <1>3 DEF InUse, Unused, PoolInv, UseInv
<1>7. parseWorker' = w => x.taken = count'
  BY <1>2, <1>3 DEF PoolInv, UseInv
<1>8. count \in Nat /\ count <= Interval /\ 0 <= Interval
  BY ParseAssumption DEF PoolInv, PoolType
<1>9. /\ parseWorker' = None \/ pc' = "spawning" => count' = 0
      /\ count' \in Nat /\ count' <= Interval
      /\ parseWorker' = parseWorker \/ (parseWorker' = None /\ parseWorker = w)
      /\ parseWorker' \in {w, None}
  BY <1>3, <1>8
<1>10. QED
  BY <1>1, <1>2, <1>4, <1>5, <1>6, <1>7, <1>9, PoolStep

\* A new worker takes the place of the one in use, if there is one.
LEMMA SpawnPool ==
  ASSUME PoolInv, KindType, UNCHANGED <<kind, pass, pending, nextId, foreign>>, pending = None, ControlType',
         NEW ws, workers' = Append(ws, Fresh), parseWorker' = Len(workers) + 1, count' = 0, pc' = "spawning",
         \/ parseWorker = None /\ ws = workers
         \/ parseWorker # None /\ ws = Kill(workers, parseWorker),
         ~foreign /\ parseWorker # None => Spent(workers[parseWorker])
  PROVE  PoolInv'
<1> PICK n : n = Len(workers)
  OBVIOUS
<1>1. workers \in Seq(Worker) /\ n \in Nat /\ DOMAIN workers = 1..n /\ Interval \in Nat /\ n + 1 # None
  BY ParseAssumption DEF PoolInv, PoolType
<1>2. /\ ws \in Seq(Worker) /\ Len(ws) = n
      /\ \A v \in 1..n : /\ ws[v].thread = workers[v].thread /\ ws[v].taken = workers[v].taken
                         /\ ws[v].inbox = workers[v].inbox /\ ws[v].outbox = workers[v].outbox
                         /\ Runs(ws[v]) => Runs(workers[v]) /\ v # parseWorker
  <2>1. CASE parseWorker = None /\ ws = workers
    BY <1>1, <2>1, WorkerFacts
  <2>2. CASE parseWorker # None /\ ws = Kill(workers, parseWorker)
    <3>1. parseWorker \in DOMAIN workers
      BY <2>2 DEF PoolInv, PoolType
    <3>2. PICK x : x = Killed(workers[parseWorker])
      OBVIOUS
    <3>3. /\ ws = [workers EXCEPT ![parseWorker] = x] /\ x \in Worker /\ x.killed
          /\ x.thread = workers[parseWorker].thread /\ x.taken = workers[parseWorker].taken
          /\ x.inbox = workers[parseWorker].inbox /\ x.outbox = workers[parseWorker].outbox
      BY <2>2, <3>1, <3>2, KillFacts
    <3>4. ws \in Seq(Worker) /\ Len(ws) = n /\ ws[parseWorker] = x
          /\ \A v \in 1..n : v # parseWorker => ws[v] = workers[v]
      BY <1>1, <3>1, <3>3
    <3>5. QED
      BY <1>1, <3>3, <3>4 DEF Runs
  <2>3. QED
    BY <2>1, <2>2
<1>3. /\ Fresh \in Worker /\ Fresh.thread = "loading" /\ ~Fresh.killed /\ Fresh.taken = 0
      /\ Fresh.inbox = <<>> /\ Fresh.outbox = <<>>
  BY DEF Fresh, Worker
<1> HIDE DEF Fresh
<1>4. /\ workers' \in Seq(Worker) /\ DOMAIN workers' = 1..(n + 1) /\ workers'[n + 1] = Fresh
      /\ \A v \in 1..n : workers'[v] = ws[v]
  BY <1>1, <1>2, <1>3
<1>5. PoolType' /\ parseWorker' = n + 1
  BY <1>1, <1>4 DEF PoolType, PoolInv
<1>6. Asks
  BY DEF Asks, PoolInv, PoolType
<1>7. ASSUME NEW v \in 1..n PROVE Good(v)'
  <2>1. Good(v) /\ Sound(v, workers[v])
    BY <1>1, WorkerFacts
  <2>2. PICK x : x = ws[v]
    OBVIOUS
  <2>3. /\ workers'[v] = x /\ x.thread = workers[v].thread /\ x.taken = workers[v].taken
        /\ x.inbox = workers[v].inbox /\ x.outbox = workers[v].outbox
        /\ Runs(x) => Runs(workers[v]) /\ v # parseWorker
    BY <1>2, <1>4, <2>2
  <2>4. Sound(v, x)'
    BY <1>6, <2>1, <2>3, KnownKept DEF Sound
  <2>5. ~Runs(x)
    BY <2>1, <2>3 DEF Good
  <2>6. ~foreign => Spent(workers[v])
    <3>1. v # None
      BY <1>1, WorkerFacts
    <3>2. QED
      BY <2>1, <3>1 DEF Good
  <2>7. ~foreign' => Spent(x)'
    BY <2>3, <2>6 DEF Spent
  <2>8. QED
    BY <2>3, <2>4, <2>5, <2>7 DEF Good
<1>8. Good(n + 1)' /\ UseInv'
  <2>1. Len(Fresh.inbox) = 0 /\ Len(Fresh.outbox) = 0 /\ Fresh.taken <= Interval
    BY <1>1, <1>3
  <2>2. Sound(n + 1, Fresh)'
    BY <1>3, <2>1 DEF Sound, Fresh
  <2>3. Good(n + 1)'
    BY <1>4, <1>5, <2>2 DEF Good
  <2>4. InUse(Fresh)'
    BY <1>3 DEF InUse, Loading, Fresh
  <2>5. QED
    BY <1>3, <1>4, <1>5, <2>3, <2>4 DEF UseInv
<1>9. \A v \in DOMAIN workers' : v \in 1..n \/ v = n + 1
  BY <1>1, <1>4
<1>10. count' <= Interval
  BY <1>1
<1>11. QED
  BY <1>5, <1>7, <1>8, <1>9, <1>10 DEF PoolInv

\* A request: posted to the worker in use, or a worker is spawned for it.
LEMMA RequestStep ==
  ASSUME PoolInv, PcInv, KindType, UNCHANGED <<kind, pass, foreign, aborted>>, Request, cur' \in Files,
         pass \in 1..3, (pc = "next" /\ pass = 1) \/ pc = "reading"
  PROVE  PoolInv' /\ PcInv'
<1>1. pending = None /\ count \in Nat /\ Interval \in Nat \ {0} /\ cur' # None
  BY ParseAssumption, NoneFacts DEF PcInv, PoolInv, PoolType
<1>2. ~foreign /\ parseWorker # None => Unused(workers[parseWorker]) /\ ~workers[parseWorker].killed /\ pass = 1
  BY DEF PoolInv, UseInv, InUse, PcInv
<1>3. parseWorker = None => count = 0
  BY DEF PoolInv
<1>4. CASE count >= Interval \/ parseWorker = None
  <2>1. PICK ws : ws = IF count >= Interval THEN Kill(workers, parseWorker) ELSE workers
    OBVIOUS
  <2>2. /\ workers' = Append(ws, Fresh) /\ parseWorker' = Len(workers) + 1 /\ pc' = "spawning"
        /\ count' = (IF count >= Interval THEN 0 ELSE count) /\ UNCHANGED <<pending, nextId>>
    BY <1>4, <2>1 DEF Request
  <2>3. count >= Interval => parseWorker # None
    BY <1>1, <1>3
  <2>4. count' = 0 /\ ControlType'
    BY <1>3, <1>4, <2>2 DEF PoolInv, ControlType
  <2>5. \/ parseWorker = None /\ ws = workers
        \/ parseWorker # None /\ ws = Kill(workers, parseWorker)
    BY <1>4, <2>1, <2>3
  <2>6. ~foreign /\ parseWorker # None => Spent(workers[parseWorker])
    BY <1>2, UnusedSpent
  <2>7. PoolInv'
    BY <1>1, <2>2, <2>4, <2>5, <2>6, SpawnPool
  <2>8. PcInv'
    BY <1>1, <2>2 DEF PcInv
  <2>9. QED
    BY <2>7, <2>8
<1>5. CASE ~(count >= Interval) /\ parseWorker # None
  <2>1. Post(parseWorker, workers) /\ count' = count + 1 /\ UNCHANGED parseWorker
    BY <1>5 DEF Request
  <2>2. PICK w : w = parseWorker
    OBVIOUS
  <2>3. PICK y : y = workers[w]
    OBVIOUS
  <2>4. PICK ws : ws = workers
    OBVIOUS
  <2>5. w \in DOMAIN workers
    BY <1>5, <2>2 DEF PoolInv, PoolType
  <2>6. y \in Worker /\ Sound(w, y) /\ Post(w, ws) /\ ws = [workers EXCEPT ![w] = y]
    BY <2>1, <2>2, <2>3, <2>4, <2>5, WorkerFacts DEF PoolInv, PoolType
  <2>7. ~foreign => ~y.killed /\ Unused(y) /\ (pass = 1 \/ y.thread = "up")
    BY <1>2, <1>5, <2>2, <2>3
  <2>8. count < Interval /\ y.taken = workers[w].taken
    BY <1>1, <1>5, <2>3
  <2>9. /\ PoolInv' /\ pc' = "parsing" /\ pending' # None /\ pending'.worker = w
        /\ pending'.job.file = cur' /\ pending'.job.stripped = (pass = 3)
    BY <2>1, <2>2, <2>5, <2>6, <2>7, <2>8, PostPool
  <2>10. PcInv'
    BY <1>1, <2>1, <2>2, <2>9 DEF PcInv
  <2>11. QED
    BY <2>9, <2>10
<1>6. QED
  BY <1>4, <1>5

LEMMA MainStep ==
  ASSUME IInv, Main
  PROVE  IInv'
<1>1. /\ PoolInv /\ KindType /\ FileInv /\ OwnFiles /\ PcInv /\ ControlType
      /\ pc = "next" => pending = None /\ cur = None
  BY DEF IInv, FileInv, PoolInv, PcInv
<1>2. ~foreign /\ pc = "next" /\ parseWorker # None => Spent(workers[parseWorker])
  BY <1>1, UnusedSpent DEF PoolInv, UseInv, InUse
<1>3. CASE PassOver
  <2>1. pc = "next" /\ UNCHANGED <<kind, pc, pass, cur, poolVars, aborted, foreign>>
    BY <1>3 DEF PassOver
  <2>2. FileInv' /\ \A f \in Files : hits'[f] = hits[f] /\ (Healthy(f) => failed'[f] = failed[f])
    BY <1>1, <1>3, <2>1, PassOverFiles
  <2>3. ControlType' /\ PcInv' /\ OwnFiles'
    BY <1>1, <2>1, <2>2, KeepOwn DEF ControlType, PcInv, poolVars
  <2>4. PoolInv'
    BY <1>1, <2>1, <2>3, PoolFrame
  <2>5. QED
    BY <2>2, <2>3, <2>4 DEF IInv
<1>4. CASE ParseFile
  <2>1. /\ pc = "next" /\ pass = 1 /\ todo # <<>> /\ Take /\ Request
        /\ UNCHANGED <<kind, pass, still, resultVars, aborted, foreign>>
    BY <1>4 DEF ParseFile
  <2>2. FileInv' /\ cur' \in Files
    BY <1>1, <2>1, TakeFiles
  <2>3. PoolInv' /\ PcInv'
    BY <1>1, <2>1, <2>2, RequestStep, PcFacts
  <2>4. OwnFiles'
    BY <1>1, <2>1, KeepOwn DEF resultVars
  <2>5. QED
    BY <2>2, <2>3, <2>4 DEF IInv
<1>5. CASE Retry
  <2>1. /\ pc = "next" /\ pass > 1 /\ todo # <<>> /\ Take /\ pc' = "reading"
        /\ workers' = Kill(workers, parseWorker) /\ parseWorker' = None /\ count' = 0
        /\ UNCHANGED <<kind, pass, still, pending, nextId, resultVars, aborted, foreign>>
    BY <1>5 DEF Retry
  <2>2. FileInv' /\ cur' \in Files
    BY <1>1, <2>1, TakeFiles
  <2>3. PcInv' /\ ControlType'
    BY <1>1, <2>1, <2>2, NoneFacts DEF PcInv, ControlType
  <2>4. PoolInv'
    <3>1. CASE parseWorker # None
      BY <1>1, <1>2, <2>1, <2>3, <3>1, KillPool
    <3>2. CASE parseWorker = None
      <4>1. UNCHANGED poolVars
        BY <1>1, <2>1, <3>2 DEF poolVars, Kill, PoolInv
      <4>2. QED
        BY <1>1, <2>1, <2>3, <3>2, <4>1, PoolFrame
    <3>3. QED
      BY <3>1, <3>2
  <2>5. OwnFiles'
    BY <1>1, <2>1, KeepOwn DEF resultVars
  <2>6. QED
    BY <2>2, <2>3, <2>4, <2>5 DEF IInv
<1>6. CASE ReadAgain
  <2>1. /\ pc = "reading" /\ pass > 1 /\ parseWorker = None /\ cur # None /\ cur \in Files
        /\ UNCHANGED <<kind, pass, todo, still, resultVars, aborted, foreign>>
    BY <1>1, <1>6, PcFacts DEF ReadAgain, PcInv
  <2>2. OwnFiles'
    BY <1>1, <2>1, KeepOwn DEF resultVars
  <2>3. CASE kind[cur] = "fleeting"
    <3>1. pc' = "next" /\ cur' = None /\ UNCHANGED poolVars
      BY <1>6, <2>3 DEF ReadAgain
    <3>2. FileInv'
      BY <1>1, <2>1, <2>3, <3>1, SkipFiles
    <3>3. PcInv' /\ ControlType'
      BY <1>1, <2>1, <3>1 DEF PcInv, ControlType, poolVars
    <3>4. PoolInv'
      BY <1>1, <2>1, <3>1, <3>3, PoolFrame
    <3>5. QED
      BY <2>2, <3>2, <3>3, <3>4 DEF IInv
  <2>4. CASE kind[cur] # "fleeting"
    <3>1. cur' = cur /\ Request
      BY <1>6, <2>4 DEF ReadAgain
    <3>2. FileInv'
      BY <1>1, <2>1, <3>1, FileFrame DEF FileVars, resultVars
    <3>3. PoolInv' /\ PcInv'
      BY <1>1, <2>1, <3>1, RequestStep, PcFacts
    <3>4. QED
      BY <2>2, <3>2, <3>3 DEF IInv
  <2>5. QED
    BY <2>3, <2>4
<1>7. CASE NextPass
  <2>1. pc = "next" /\ UNCHANGED <<kind, pc, cur, poolVars, resultVars, aborted, foreign>>
    BY <1>7 DEF NextPass
  <2>2. FileInv'
    BY <1>1, <1>7, <2>1, NextPassFiles
  <2>3. ControlType' /\ PcInv' /\ OwnFiles'
    BY <1>1, <2>1, KeepOwn DEF ControlType, PcInv, poolVars, resultVars
  <2>4. PoolInv'
    BY <1>1, <2>1, <2>3, PoolFrame
  <2>5. QED
    BY <2>2, <2>3, <2>4 DEF IInv
<1>8. ASSUME pc = "next", workers' = Kill(workers, parseWorker), pc' \in {"done", "aborted"},
             pc' = "done" => todo = <<>> /\ still = <<>>,
             UNCHANGED <<kind, pass, todo, still, cur, parseWorker, count, pending, nextId, resultVars, aborted, foreign>>
      PROVE  IInv'
  <2>1. FileInv' /\ OwnFiles'
    BY <1>1, <1>8, FileFrame, KeepOwn DEF FileVars, resultVars
  <2>2. PcInv' /\ ControlType'
    BY <1>1, <1>8 DEF PcInv, ControlType
  <2>3. PoolInv'
    <3>1. CASE parseWorker # None
      BY <1>1, <1>8, <2>2, <3>1, KillPool
    <3>2. CASE parseWorker = None
      <4>1. UNCHANGED poolVars
        BY <1>8, <3>2 DEF poolVars, Kill
      <4>2. QED
        BY <1>1, <1>8, <2>2, <3>2, <4>1, PoolFrame
    <3>3. QED
      BY <3>1, <3>2
  <2>4. QED
    BY <2>1, <2>2, <2>3 DEF IInv
<1>9. CASE Finish
  BY <1>8, <1>9 DEF Finish
<1>10. CASE Cease
  <2>1. CASE pass = 1
    BY <1>8, <1>10, <2>1 DEF Cease
  <2>2. CASE pass # 1
    <3>1. /\ pc = "next" /\ aborted /\ todo' = <<>> /\ pass > 1
          /\ UNCHANGED <<kind, pc, pass, still, cur, poolVars, resultVars, aborted, foreign>>
      BY <1>10, <2>2, PcFacts DEF Cease, Stop, poolVars
    <3>2. FileInv'
      BY <1>1, <3>1, CeaseFiles
    <3>3. ControlType' /\ PcInv' /\ OwnFiles'
      BY <1>1, <3>1, KeepOwn DEF ControlType, PcInv, poolVars, resultVars
    <3>4. PoolInv'
      BY <1>1, <3>1, <3>3, PoolFrame
    <3>5. QED
      BY <3>2, <3>3, <3>4 DEF IInv
  <2>3. QED
    BY <2>1, <2>2
<1>11. QED
  BY <1>3, <1>4, <1>5, <1>6, <1>7, <1>9, <1>10 DEF Main

\* A worker that answers late is at a file that hangs.
LEMMA LateFacts ==
  ASSUME NEW w \in DOMAIN workers, NEW job, At(workers[w], job), Late(w)
  PROVE  kind[job.file] = "hang" /\ Spent(workers[w])
<1> DEFINE x == workers[w]
<1>1. x.outbox = <<Exit>> => Len(x.outbox) = 1 /\ x.outbox[1] = Exit
  OBVIOUS
<1>2. x.outbox = <<Event1("error"), Exit>> =>
        Len(x.outbox) = 2 /\ x.outbox[1] = Event1("error") /\ x.outbox[2] = Exit
  OBVIOUS
<1>3. x.outbox = <<ResultOf(job)>> => Len(x.outbox) = 1 /\ x.outbox[1] = ResultOf(job)
  OBVIOUS
<1>4. x.inbox = <<job>> => Len(x.inbox) = 1 /\ x.inbox[1] = job /\ DOMAIN x.inbox = 1..1
  OBVIOUS
<1>5. /\ x.inbox = <<>> => Len(x.inbox) = 0 /\ DOMAIN x.inbox = {}
      /\ x.outbox = <<>> => Len(x.outbox) = 0 /\ DOMAIN x.outbox = {}
  OBVIOUS
<1>6. /\ x.outbox = <<Exit>> => DOMAIN x.outbox = 1..1 /\ x.outbox # <<>>
      /\ x.outbox = <<ResultOf(job)>> => DOMAIN x.outbox = 1..1 /\ x.outbox # <<>>
      /\ x.outbox = <<Event1("error"), Exit>> => DOMAIN x.outbox = 1..2 /\ x.outbox # <<>>
  OBVIOUS
<1>7. /\ Exit.type = "exit" /\ Event1("error").type = "error"
      /\ ResultOf(job).type = "result" /\ ResultOf(job).job = job
  BY EventFacts
<1>8. \/ x.thread = "ended" /\ x.outbox = <<>>
      \/ \E i \in DOMAIN x.inbox : kind[x.inbox[i].file] = "hang"
      \/ \E i \in DOMAIN x.outbox : x.outbox[i].type = "result" /\ kind[x.outbox[i].job.file] = "hang"
  BY DEF Late
<1> HIDE DEF x
<1>9. CASE x.thread = "up" /\ x.inbox = <<job>> /\ x.outbox = <<>>
  BY <1>4, <1>5, <1>8, <1>9 DEF Spent, x
<1>10. CASE x.thread = "up" /\ x.inbox = <<>> /\ x.outbox = <<ResultOf(job)>>
  BY <1>3, <1>5, <1>6, <1>7, <1>8, <1>10 DEF Spent, x
<1>11. CASE x.thread = "ended" /\ x.inbox = <<>>
  <2>1. x.outbox = <<Exit>> \/ x.outbox = <<Event1("error"), Exit>>
    BY <1>11 DEF At, x
  <2>2. QED
    BY <1>1, <1>2, <1>5, <1>6, <1>7, <1>8, <1>11, <2>1
<1>12. CASE x.thread = "ended" /\ x.inbox = <<job>> /\ x.outbox = <<Exit>>
  BY <1>1, <1>4, <1>6, <1>7, <1>8, <1>12 DEF Spent, x
<1>13. QED
  BY <1>9, <1>10, <1>11, <1>12 DEF At, x

LEMMA TimeoutStep ==
  ASSUME IInv, Timeout
  PROVE  IInv'
<1>1. /\ PoolInv /\ KindType /\ FileInv /\ OwnFiles /\ PcInv /\ ControlType
      /\ pc = "parsing" /\ pending # None /\ Late(pending.worker)
      /\ Refuse("timeout") /\ parseWorker' = None /\ count' = 0
      /\ workers' = Kill(workers, pending.worker)
      /\ UNCHANGED <<kind, nextId, aborted, foreign>>
  BY DEF IInv, FileInv, PoolInv, PcInv, Timeout
<1>2. /\ pending.worker = parseWorker /\ parseWorker # None /\ parseWorker \in DOMAIN workers
      /\ pending.job.file = cur /\ cur # None
  BY <1>1, PcFacts
<1>3. pc' = "next" /\ cur' = None /\ pending' = None /\ "timeout" \in Rejections
  BY <1>1 DEF Refuse, Next1, Rejections
<1>4. FileInv'
  BY <1>1, <1>2, <1>3, RefuseFiles
<1>5. ~foreign => kind[cur] = "hang" /\ Spent(workers[parseWorker])
  <2>1. ~foreign => At(workers[parseWorker], pending.job)
    BY <1>1, <1>2 DEF PoolInv, UseInv, InUse
  <2>2. QED
    BY <1>1, <1>2, <2>1, LateFacts
<1>6. OwnFiles'
  <2>1. ~foreign => ~Healthy(cur)
    BY <1>5 DEF Healthy
  <2>2. QED
    BY <1>1, <1>2, <1>3, <2>1, RefuseOwn
<1>7. PcInv' /\ ControlType'
  BY <1>1, <1>3, PcNext DEF ControlType
<1>8. PoolInv'
  BY <1>1, <1>2, <1>3, <1>5, <1>7, KillPool
<1>9. QED
  BY <1>4, <1>6, <1>7, <1>8 DEF IInv

LEMMA SignalStep ==
  ASSUME IInv, UNCHANGED <<kind, mainVars, poolVars, resultVars, foreign>>, aborted' \in BOOLEAN, aborted => aborted'
  PROVE  IInv'
<1> USE DEF mainVars, resultVars
<1>1. FileInv' /\ OwnFiles'
  BY FileFrame, KeepOwn DEF IInv, FileVars
<1>2. PcInv' /\ ControlType'
  BY DEF IInv, PoolInv, PcInv, ControlType, poolVars
<1>3. PoolInv'
  BY <1>2, PoolFrame DEF IInv
<1>4. QED
  BY <1>1, <1>2, <1>3 DEF IInv

LEMMA ThreadAct ==
  ASSUME IInv, NEW w \in DOMAIN workers, Thread(w)
  PROVE  IInv'
<1> USE DEF mainVars, resultVars
<1>1. FileInv' /\ OwnFiles'
  BY FileFrame, KeepOwn DEF IInv, FileVars, Thread
<1>2. PcInv'
  BY DEF IInv, PcInv, Thread
<1>3. PoolInv'
  <2>1. /\ PoolInv /\ KindType /\ (Load(w) \/ LoadFails(w) \/ Parse(w) \/ Die(w))
        /\ UNCHANGED <<kind, pc, pass, parseWorker, count, pending, nextId, aborted, foreign>>
    BY DEF IInv, FileInv, Thread
  <2>2. QED
    BY <2>1, LoadPool, LoadFailsPool, ParsePool, DiePool
<1>4. QED
  BY <1>1, <1>2, <1>3 DEF IInv
-----------------------------------------------------------------------------
(* The invariant.                                                          *)

LEMMA InitHolds == Init => IInv
<1> SUFFICES ASSUME Init PROVE IInv
  OBVIOUS
<1> USE DEF Init
<1>1. N \in Nat \ {0} /\ Inputs \subseteq [Files -> Kinds] /\ Interval \in Nat \ {0} /\ None \notin Nat
  BY ParseAssumption
<1>2. todo \in Seq(Files) /\ Len(todo) = N /\ \A i \in 1..N : todo[i] = i
  BY <1>1 DEF Files
<1>3. Len(still) = 0 /\ \A f \in Files : Len(hits[f]) = 0
  OBVIOUS
<1>4. KindType /\ LoopType /\ ResultType
  <2>1. KindType /\ LoopType
    BY <1>1, <1>2 DEF KindType, LoopType
  <2>2. hits \in [Files -> Seq(Rejections)]
    OBVIOUS
  <2>3. QED
    BY <2>1, <2>2 DEF ResultType
<1>5. \A f \in Files : stored[f] = None /\ failed[f] = None /\ hits[f] = <<>>
  OBVIOUS
<1>6. Taken = 0
  BY <1>1, <1>2 DEF Taken
<1>7. WaitInv /\ SweepInv
  BY <1>1, <1>2, <1>3, <1>5, <1>6 DEF WaitInv, SweepInv
<1>8. CountInv
  <2>1. \A f \in Files : Waits(f)
    BY <1>1, <1>6 DEF Waits, Files
  <2>2. Errs = {} /\ None \notin Rejections
    BY <1>5, NoneFacts DEF Errs, Rejections
  <2>3. Cardinality(Errs) = 0
    BY <2>2, FS_EmptySet
  <2>4. Handled = 0
    BY <1>6 DEF Handled
  <2>5. QED
    BY <1>5, <2>1, <2>2, <2>3, <2>4 DEF CountInv
<1>9. RetryInv
  BY <1>3 DEF RetryInv, Due, Again
<1>10. LossInv /\ StoredInv
  BY <1>5, ParseAssumption DEF LossInv, StoredInv, Reasons
<1>11. FileInv
  BY <1>4, <1>7, <1>8, <1>9, <1>10 DEF FileInv
<1>12. PcInv
  BY DEF PcInv
<1>13. /\ workers \in Seq(Worker) /\ DOMAIN workers = {1} /\ workers[1] = Fresh /\ parseWorker = 1
       /\ 1 # None
  <2>1. Fresh \in Worker
    BY DEF Fresh, Worker
  <2>2. QED
    BY <1>1, <2>1
<1>14. PoolType /\ ControlType
  BY <1>13 DEF PoolType, ControlType
<1>15. /\ Fresh.thread = "loading" /\ ~Fresh.killed /\ Fresh.taken = 0
       /\ Fresh.inbox = <<>> /\ Fresh.outbox = <<>> /\ Len(Fresh.inbox) = 0 /\ Len(Fresh.outbox) = 0
  BY DEF Fresh
<1>16. Good(1) /\ UseInv
  <2>1. Sound(1, Fresh)
    BY <1>1, <1>15 DEF Sound
  <2>2. InUse(Fresh)
    BY <1>15 DEF InUse, Loading
  <2>3. QED
    BY <1>13, <1>15, <2>1, <2>2 DEF Good, UseInv
<1>17. PoolInv
  BY <1>1, <1>13, <1>14, <1>16 DEF PoolInv
<1>18. OwnFiles
  BY <1>3, <1>5 DEF OwnFiles, Fine
<1>19. QED
  BY <1>11, <1>12, <1>17, <1>18 DEF IInv

LEMMA NextHolds == IInv /\ [Next]_vars => IInv'
<1> SUFFICES ASSUME IInv, [Next]_vars PROVE IInv'
  OBVIOUS
<1>1. CASE Main
  BY <1>1, MainStep
<1>2. CASE Timeout
  BY <1>2, TimeoutStep
<1>3. CASE AbortSignal
  BY <1>3, SignalStep DEF AbortSignal
<1>4. CASE UNCHANGED vars
  BY <1>4, SignalStep DEF vars, IInv, PoolInv, ControlType
<1>5. ASSUME NEW w \in DOMAIN workers, Thread(w) PROVE IInv'
  BY <1>5, ThreadAct
<1>6. ASSUME NEW w \in DOMAIN workers, Deliver(w) PROVE IInv'
  BY <1>6, GrammarsLoadedStep, ResultStep, WorkerErrorStep, WorkerExitStep DEF Deliver
<1>7. QED
  BY <1>1, <1>2, <1>3, <1>4, <1>5, <1>6 DEF Next, Rest

\* The inductive invariant: what the counters, the retries and the queues of the
\* workers say of one another.
THEOREM Invariance == Spec => []IInv
BY InitHolds, NextHolds, PTL DEF Spec

LEMMA Ended ==
  ASSUME IInv, pc = "done", ~aborted
  PROVE  CountsAddUp /\ LostToForeignExits
<1>1. todo = <<>> /\ still = <<>> /\ cur = None /\ Len(todo) = 0 /\ Len(still) = 0 /\ N \in Nat
  BY ParseAssumption DEF IInv, PcInv
<1>2. \A f \in Files : ~Waits(f) /\ ~Due(f) /\ ~Again(f)
  <2>1. \A f \in Files : f \in 1..N /\ f # None
    BY NoneFacts DEF Files
  <2>2. QED
    BY <1>1, <2>1 DEF Waits, Taken, Due, Again
<1>3. Handled = N
  BY <1>1 DEF Handled, Taken
<1>4. CountsAddUp
  BY <1>2, <1>3 DEF CountsAddUp, IInv, FileInv, CountInv, Errs
<1>5. LostToForeignExits
  <2> SUFFICES ASSUME NEW f \in Files, Healthy(f), stored[f] = None
               PROVE  foreign /\ (Len(hits[f]) = 3 \/ hits[f][1] # "exit")
    BY DEF LostToForeignExits, Healthy
  <2>1. failed[f] # None /\ failed[f] \in Reasons /\ failed[f] \notin {"read", "size", "result"}
    BY <1>2 DEF IInv, FileInv, CountInv, LossInv, ResultType
  <2>2. ~foreign => failed[f] \in {None, "exit"} /\ Len(hits[f]) <= 2
    BY DEF IInv, OwnFiles, Fine
  <2>3. CASE failed[f] = "exit"
    <3>1. Len(hits[f]) = 3
      BY <1>2, <2>3 DEF IInv, FileInv, LossInv
    <3>2. QED
      BY <2>2, <3>1
  <2>4. CASE failed[f] # "exit"
    <3>1. failed[f] \in Rejections
      BY <2>1, <2>4 DEF Reasons, Rejections
    <3>2. hits[f][1] = failed[f]
      BY <3>1 DEF IInv, FileInv, CountInv
    <3>3. QED
      BY <2>1, <2>2, <2>4, <3>2
  <2>5. QED
    BY <2>3, <2>4
<1>6. QED
  BY <1>4, <1>5

LEMMA ParseFacts == IInv => ParseInv
<1> SUFFICES ASSUME IInv PROVE ParseInv
  OBVIOUS
<1>1. TypeOK
  <2>1. KindType /\ LoopType /\ ResultType /\ PoolType /\ ControlType
    BY DEF IInv, FileInv, PoolInv
  <2>2. ResultType => stored \in [Files -> [file : Files, stripped : BOOLEAN] \cup {None}]
                      /\ hits \in [Files -> Seq({"exit", "timeout", "error"})]
    BY DEF ResultType, Parsed, Rejections
  <2>3. QED
    BY <2>1, <2>2 DEF TypeOK, KindType, LoopType, ResultType, PoolType, ControlType
<1>2. StoredIsOwnParse
  BY DEF StoredIsOwnParse, IInv, FileInv, StoredInv
<1>3. CountsAddUp /\ LostToForeignExits
  BY Ended DEF CountsAddUp, LostToForeignExits
<1>4. OneWorkerInUse
  BY DEF OneWorkerInUse, IInv, PoolInv, Good, Sound, Runs
<1>5. QED
  BY <1>1, <1>2, <1>3, <1>4 DEF ParseInv

\* Whatever the files do to the workers, and in whatever order the events of the
\* workers arrive: each file is stored as its own parse, is counted once, is lost
\* only to the exits of other workers, and one worker runs at a time.
THEOREM ParseHolds == Spec => []ParseInv
BY Invariance, ParseFacts, PTL
=============================================================================

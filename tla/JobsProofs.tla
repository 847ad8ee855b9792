------------------------------ MODULE JobsProofs ------------------------------
(***************************************************************************)
(* Proofs about Jobs and the login its model calls borrow, for any wikis,  *)
(* plans, exports, formats and any number of jobs, tokens, failures and    *)
(* kills.                                                                  *)
(***************************************************************************)
EXTENDS Jobs, TLAPS

WikiDir == [toc: [by: Nat, sections: {<<>>} \union Plans],
            pages: [Sections -> 0 .. MaxJobs], meta: 0 .. MaxJobs]
ExportDir == [files: UNION {[S -> SUBSET (1 .. Intervals)] : S \in SUBSET Range(Formats)},
              manifest: [intervals: 0 .. Intervals, got: SUBSET (1 .. Intervals), sized: BOOLEAN]]

PlainType == up \in BOOLEAN /\ provider \in {"none", "codex"}
JobsType  == jobs \in Seq(Job \union {Gone}) /\ Len(jobs) <= MaxJobs
WikiType  == wiki \in [Wikis -> WikiDir] /\ legacy \in BOOLEAN
ExportType == export \in [Exports -> ExportDir] /\ asked \subseteq Exports
ViewType  == page \in [Wikis -> Statuses] /\ replies \in [Wikis -> SUBSET Statuses]

\* Only a job that awaits the model has a borrowing.
BorrowInv == \A j \in JobIds :
  borrow[j] # Login!Idle => Running(j) /\ jobs[j].at = "model"

\* The refresh token that the service accepts is in the file, or on its way to the
\* one borrower that was answered; nobody asks with a newer one than the file's.
Unspent == authFile.refresh = service /\ \A b \in JobIds : borrow[b].at # "answered"
Renewed(b) == /\ borrow[b].at = "answered" /\ borrow[b].token = service
              /\ authFile.refresh + 1 = service
              /\ \A c \in JobIds : borrow[c].at = "answered" => c = b
TokenInv ==
  /\ \A b \in JobIds : borrow[b].at = "answered" => borrow[b].token # 0
  /\ ~lost => /\ \A b \in JobIds : borrow[b].at \in {"asking", "refused"} => borrow[b].token <= authFile.refresh
              /\ Unspent \/ \E b \in JobIds : Renewed(b)

\* A wiki is generated only where there is none, and its first n pages are written.
Begun(d, j, n) ==
  /\ d.toc.by = j /\ d.toc.sections \in Plans /\ n < Len(d.toc.sections)
  /\ \A i \in 1 .. n : d.pages[d.toc.sections[i]] = j
WikiInv == \A w \in Wikis, j \in JobIds : WikiJob(j, w) =>
  /\ wiki[w].meta = None /\ ~OnDisk(w)
  /\ jobs[j].at = "model" => Begun(wiki[w], j, jobs[j].n)
  /\ jobs[j].at = "snapshot" => jobs[j].n = 0

\* An export has one job in its life, a manifest only when that is over, and the second one, with
\* its own size, only when it is done.
ExportInv == \A e \in Exports :
  /\ e \notin asked => export[e].manifest = NoManifest
  /\ \A j \in ByKey(ExportKey(e)) :
       /\ e \in asked /\ \A i \in ByKey(ExportKey(e)) : i = j
       /\ jobs[j].state = "done" <=> export[e].manifest.sized
       /\ Running(j) => export[e].manifest = NoManifest /\ jobs[j].n < Intervals

\* A reply on its way that says "ready" is still true.
ReplyInv == \A w \in Wikis : "ready" \in replies[w] => OnDisk(w)

Types == PlainType /\ JobsType /\ WikiType /\ ExportType /\ ViewType /\ Login!CredTypeOK

IInv ==
  /\ Types /\ OneActivePerKey /\ BorrowInv /\ TokenInv
  /\ WikiInv /\ ReadyIsWhole /\ ExportInv /\ ExportIsWhole /\ ShownIsServed /\ ReplyInv
-----------------------------------------------------------------------------
(* Jobs and their keys.                                                    *)

LEMMA Keys ==
  /\ \A w, v \in Wikis : WikiKey(w) = WikiKey(v) => w = v
  /\ \A e, f \in Exports : ExportKey(e) = ExportKey(f) => e = f
  /\ \A w \in Wikis, e \in Exports : WikiKey(w) # ExportKey(e)
BY DEF WikiKey, ExportKey

LEMMA JobFacts ==
  ASSUME JobsType
  PROVE  /\ DOMAIN jobs \subseteq JobIds
         /\ \A j \in Kept : jobs[j] \in Job
         /\ \A job \in Job : job # Gone
<1>1. \A job \in Job : job # Gone
  BY DEF Job, Gone, States
<1>2. QED
  BY <1>1, PlanAssumption DEF JobsType, JobIds, Kept

\* Job j becomes `new`.
Moves(j, new) ==
  /\ Running(j) /\ new \in Job /\ new.key = jobs[j].key
  /\ jobs' = [jobs EXCEPT ![j] = new]

LEMMA MovesFacts ==
  ASSUME JobsType, NEW j, NEW new, Moves(j, new)
  PROVE  /\ JobsType' /\ Kept' = Kept
         /\ j \in JobIds /\ j \in DOMAIN jobs /\ DOMAIN jobs' = DOMAIN jobs
         /\ jobs'[j] = new /\ \A i \in DOMAIN jobs : i # j => jobs'[i] = jobs[i]
<1>1. j \in Kept /\ j \in DOMAIN jobs /\ j \in JobIds
  BY JobFacts DEF Moves, Running, Kept
<1>2. jobs' \in Seq(Job \union {Gone}) /\ Len(jobs') = Len(jobs)
  BY <1>1 DEF Moves, JobsType
<1>3. /\ DOMAIN jobs' = DOMAIN jobs /\ jobs'[j] = new
      /\ \A i \in DOMAIN jobs : i # j => jobs'[i] = jobs[i]
  BY <1>1 DEF Moves, JobsType
<1>4. new # Gone
  BY JobFacts DEF Moves
<1>5. Kept' = Kept
  BY <1>1, <1>3, <1>4 DEF Kept
<1>6. QED
  BY <1>1, <1>2, <1>3, <1>5 DEF JobsType

LEMMA EndsMoves ==
  ASSUME JobsType, NEW j, Running(j), NEW how \in {"done", "error"}, Ends(j, how)
  PROVE  \E new : Moves(j, new) /\ new.state = how
<1> DEFINE new == [New(jobs[j].key) EXCEPT !.state = how]
<1>1. jobs[j] \in Job
  BY JobFacts DEF Running
<1>2. new \in Job /\ new.key = jobs[j].key /\ new.state = how
  BY <1>1 DEF Job, New, States, At
<1>3. jobs' = [jobs EXCEPT ![j] = new]
  BY DEF Ends
<1> HIDE DEF new
<1>4. QED
  BY <1>2, <1>3 DEF Moves

LEMMA OneActiveKept ==
  ASSUME JobsType, OneActivePerKey, NEW j, NEW new, Moves(j, new)
  PROVE  OneActivePerKey'
<1>1. \A i \in Kept' : i \in Kept /\ jobs'[i].key = jobs[i].key /\ (Running(i)' => Running(i))
  BY MovesFacts DEF Moves, Kept, Running
<1>2. QED
  BY <1>1 DEF OneActivePerKey

LEMMA StartedFacts ==
  ASSUME JobsType, OneActivePerKey,
         NEW key \in {WikiKey(w) : w \in Wikis} \union {ExportKey(e) : e \in Exports},
         Started(key)
  PROVE  LET n == Len(jobs) + 1
         IN  /\ JobsType' /\ OneActivePerKey'
             /\ n \in JobIds /\ n \notin DOMAIN jobs /\ DOMAIN jobs' = DOMAIN jobs \union {n}
             /\ jobs'[n] = New(key) /\ \A i \in DOMAIN jobs : jobs'[i] = jobs[i]
             /\ Kept' = Kept \union {n}
<1> DEFINE n == Len(jobs) + 1
<1>1. New(key) \in Job /\ New(key).key = key
  BY DEF New, Job, States, At
<1>2. jobs' = Append(jobs, New(key)) /\ Len(jobs) < MaxJobs
  BY DEF Started
<1>3. jobs' \in Seq(Job \union {Gone}) /\ Len(jobs') = n
  BY <1>1, <1>2 DEF JobsType
<1>4. /\ n \in JobIds /\ n \notin DOMAIN jobs /\ DOMAIN jobs' = DOMAIN jobs \union {n}
      /\ jobs'[n] = New(key) /\ \A i \in DOMAIN jobs : jobs'[i] = jobs[i]
  BY <1>1, <1>2, PlanAssumption DEF JobsType, JobIds
<1>5. JobsType'
  BY <1>2, <1>3, PlanAssumption DEF JobsType
<1>6. Kept' = Kept \union {n}
  BY <1>1, <1>4, JobFacts DEF Kept
<1>7. \A i \in Kept : Running(i) => jobs[i].key # key
  BY DEF Started, Active, ByKey, Running
<1>8. \A i \in Kept' : i # n => i \in Kept /\ jobs'[i] = jobs[i] /\ (Running(i)' => Running(i))
  BY <1>4, <1>6 DEF Kept, Running
<1>9. OneActivePerKey'
  <2> SUFFICES ASSUME NEW a \in Kept', NEW b \in Kept', Running(a)', Running(b)',
                      jobs'[a].key = jobs'[b].key
               PROVE  a = b
    BY DEF OneActivePerKey
  <2>1. CASE a # n /\ b # n
    BY <1>8, <2>1 DEF OneActivePerKey
  <2>2. CASE a = n /\ b # n
    BY <1>1, <1>4, <1>7, <1>8, <2>2
  <2>3. CASE a # n /\ b = n
    BY <1>1, <1>4, <1>7, <1>8, <2>3
  <2>4. QED
    BY <2>1, <2>2, <2>3
<1>10. QED
  BY <1>4, <1>5, <1>6, <1>9
-----------------------------------------------------------------------------
(* What a step leaves alone.                                               *)

\* No wiki job has moved that still runs.
WikiJobsRest == \A w \in Wikis, i \in JobIds : WikiJob(i, w)' => WikiJob(i, w) /\ jobs'[i] = jobs[i]

\* No export job is new, starts again or gets done, and none that runs has gone too far.
ExportJobsRest == \A e \in Exports : \A i \in ByKey(ExportKey(e))' :
  /\ i \in ByKey(ExportKey(e))
  /\ jobs'[i].state = "done" <=> jobs[i].state = "done"
  /\ Running(i)' => Running(i) /\ jobs'[i].n < Intervals

LEMMA WikiFrame ==
  ASSUME WikiType, WikiInv, ReadyIsWhole, UNCHANGED <<wiki, legacy>>, WikiJobsRest
  PROVE  WikiType' /\ WikiInv' /\ ReadyIsWhole' /\ \A w \in Wikis : OnDisk(w)' = OnDisk(w)
<1>1. WikiType' /\ \A w \in Wikis : OnDisk(w)' = OnDisk(w)
  BY DEF WikiType, OnDisk
<1>2. ReadyIsWhole'
  BY DEF ReadyIsWhole
<1>3. WikiInv'
  BY <1>1 DEF WikiInv, WikiJobsRest, Begun
<1>4. QED
  BY <1>1, <1>2, <1>3

LEMMA ExportFrame ==
  ASSUME ExportType, ExportInv, ExportIsWhole, UNCHANGED <<export, asked>>, ExportJobsRest
  PROVE  ExportType' /\ ExportInv' /\ ExportIsWhole'
<1>1. ExportType' /\ ExportIsWhole'
  BY DEF ExportType, ExportIsWhole
<1>2. ExportInv'
  <2> SUFFICES ASSUME NEW e \in Exports
               PROVE  /\ e \notin asked' => export'[e].manifest = NoManifest
                      /\ \A j \in ByKey(ExportKey(e))' :
                           /\ e \in asked' /\ \A i \in ByKey(ExportKey(e))' : i = j
                           /\ jobs'[j].state = "done" <=> export'[e].manifest.sized
                           /\ Running(j)' => export'[e].manifest = NoManifest /\ jobs'[j].n < Intervals
    BY DEF ExportInv
  <2>1. \A i \in ByKey(ExportKey(e))' :
           /\ i \in ByKey(ExportKey(e))
           /\ jobs'[i].state = "done" <=> jobs[i].state = "done"
           /\ Running(i)' => Running(i) /\ jobs'[i].n < Intervals
    BY DEF ExportJobsRest
  <2>2. QED
    BY <2>1 DEF ExportInv
<1>3. QED
  BY <1>1, <1>2

LEMMA ViewFrame ==
  ASSUME ViewType, ShownIsServed, ReplyInv, UNCHANGED <<page, replies>>,
         \A w \in Wikis : OnDisk(w) => OnDisk(w)'
  PROVE  ViewType' /\ ShownIsServed' /\ ReplyInv'
BY DEF ViewType, ShownIsServed, ReplyInv

LEMMA MovesRest ==
  ASSUME JobsType, NEW j, NEW new, Moves(j, new)
  PROVE  /\ new.state # "running" => WikiJobsRest
         /\ \A e \in Exports : ExportJob(j, e) => WikiJobsRest
         /\ ExportInv /\ new.state # "done" /\ (new.state = "running" => new.n < Intervals) => ExportJobsRest
         /\ ExportInv /\ (\E w \in Wikis : WikiJob(j, w)) => ExportJobsRest
<1> USE MovesFacts
<1>1. \A i \in JobIds : i \in Kept' =>
        /\ i \in Kept /\ jobs'[i].key = jobs[i].key
        /\ i # j => jobs'[i] = jobs[i]
  BY DEF Moves, Kept
<1>2. ASSUME new.state # "running" PROVE WikiJobsRest
  BY <1>1, <1>2 DEF WikiJobsRest, WikiJob, Running
<1>3. ASSUME NEW e \in Exports, ExportJob(j, e) PROVE WikiJobsRest
  BY <1>1, <1>3, Keys DEF WikiJobsRest, WikiJob, ExportJob, Running
<1>4. \A e \in Exports : \A i \in ByKey(ExportKey(e))' : i \in ByKey(ExportKey(e)) /\ i \in JobIds
  BY <1>1, JobFacts DEF ByKey, Kept
<1>5. ASSUME ExportInv, new.state # "done", new.state = "running" => new.n < Intervals
      PROVE  ExportJobsRest
  <2> SUFFICES ASSUME NEW e \in Exports, NEW i \in ByKey(ExportKey(e))'
               PROVE  /\ jobs'[i].state = "done" <=> jobs[i].state = "done"
                      /\ Running(i)' => Running(i) /\ jobs'[i].n < Intervals
    BY <1>4 DEF ExportJobsRest
  <2>1. CASE i = j
    BY <1>5, <2>1 DEF Moves, Running
  <2>2. CASE i # j
    <3>1. jobs'[i] = jobs[i] /\ i \in ByKey(ExportKey(e)) /\ (Running(i)' => Running(i))
      BY <1>1, <1>4, <2>2 DEF Running, ByKey
    <3>2. QED
      BY <1>5, <3>1 DEF ExportInv
  <2>3. QED
    BY <2>1, <2>2
<1>6. ASSUME ExportInv, NEW w \in Wikis, WikiJob(j, w) PROVE ExportJobsRest
  <2> SUFFICES ASSUME NEW e \in Exports, NEW i \in ByKey(ExportKey(e))'
               PROVE  /\ jobs'[i].state = "done" <=> jobs[i].state = "done"
                      /\ Running(i)' => Running(i) /\ jobs'[i].n < Intervals
    BY <1>4 DEF ExportJobsRest
  <2>1. i \in ByKey(ExportKey(e)) /\ i # j
    BY <1>4, <1>6, Keys DEF ByKey, WikiJob
  <2>2. jobs'[i] = jobs[i] /\ (Running(i)' => Running(i))
    BY <1>1, <1>4, <2>1 DEF Running, ByKey
  <2>3. QED
    BY <1>6, <2>1, <2>2 DEF ExportInv
<1>7. QED
  BY <1>2, <1>3, <1>5, <1>6
-----------------------------------------------------------------------------
(* The login.                                                              *)

LEMMA LoginShape ==
  ASSUME Login!CredTypeOK, NEW b \in JobIds
  PROVE  /\ borrow[b].token \in 0 .. MaxTokens
         /\ Login!InFlight(b) => borrow[b] \in Login!Borrowing
         /\ borrow[b] \in Login!Borrowing \union {Login!Idle, Login!Lent, Login!Failed}
BY PlanAssumption
   DEF Login!CredTypeOK, Login!Borrowing, Login!Idle, Login!Lent, Login!Failed, Login!InFlight

\* Job j borrows, returns or waits, and nothing it asked for is on its way.
LoginMoves(j) ==
  /\ ~Login!InFlight(j) /\ UNCHANGED <<authFile, service, lost>>
  /\ borrow' = borrow \/ Returns(j) \/ Calls(j)

LEMMA TokenFrame ==
  ASSUME Login!CredTypeOK, TokenInv, NEW j \in JobIds, ~Login!InFlight(j),
         UNCHANGED <<authFile, service, lost>>,
         NEW x \in Login!Borrowing \union {Login!Idle, Login!Lent, Login!Failed},
         borrow' = [borrow EXCEPT ![j] = x],
         x.at # "answered", x.at \in {"asking", "refused"} => x.token <= authFile.refresh
  PROVE  /\ Login!CredTypeOK' /\ TokenInv'
         /\ borrow'[j] = x /\ \A i \in JobIds : i # j => borrow'[i] = borrow[i]
<1>1. /\ borrow'[j] = x /\ \A i \in JobIds : i # j => borrow'[i] = borrow[i]
      /\ borrow' \in [JobIds -> Login!Borrowing \union {Login!Idle, Login!Lent, Login!Failed}]
  BY DEF Login!CredTypeOK
<1>2. Login!CredTypeOK'
  BY <1>1 DEF Login!CredTypeOK
<1>3. \A i \in JobIds : borrow'[i].at = "answered" => i # j /\ borrow[i].at = "answered" /\ borrow'[i] = borrow[i]
  BY <1>1
<1>4. \A i \in JobIds : borrow[i].at = "answered" => i # j
  BY DEF Login!InFlight
<1>5. ASSUME ~lost PROVE Unspent' \/ \E b \in JobIds : Renewed(b)'
  <2>1. CASE Unspent
    BY <1>3, <2>1 DEF Unspent
  <2>2. ASSUME NEW b \in JobIds, Renewed(b) PROVE Renewed(b)'
    BY <1>1, <1>3, <1>4, <2>2 DEF Renewed
  <2>3. QED
    BY <1>5, <2>1, <2>2 DEF TokenInv
<1>6. ASSUME ~lost, NEW b \in JobIds, borrow'[b].at \in {"asking", "refused"}
      PROVE  borrow'[b].token <= authFile.refresh
  BY <1>1, <1>6 DEF TokenInv
<1>7. TokenInv'
  BY <1>3, <1>5, <1>6 DEF TokenInv
<1>8. QED
  BY <1>1, <1>2, <1>7

LEMMA LoginKept ==
  ASSUME Login!CredTypeOK, TokenInv, NEW j \in JobIds, LoginMoves(j)
  PROVE  /\ Login!CredTypeOK' /\ TokenInv'
         /\ \A i \in JobIds : i # j => borrow'[i] = borrow[i]
<1>1. CASE borrow' = borrow
  BY <1>1 DEF LoginMoves, Login!CredTypeOK, TokenInv, Unspent, Renewed
<1>2. CASE Returns(j)
  <2>1. Login!Idle.at = "idle"
    BY DEF Login!Idle
  <2>2. QED
    BY <1>2, <2>1, TokenFrame DEF LoginMoves, Returns
<1>3. CASE Calls(j)
  <2>1. /\ Login!Borrowed \in Login!Borrowing \union {Login!Idle, Login!Lent, Login!Failed}
        /\ Login!Borrowed.at # "answered"
        /\ Login!Borrowed.at \in {"asking", "refused"} => Login!Borrowed.token <= authFile.refresh
    BY PlanAssumption DEF Login!Borrowed, Login!Borrowing, Login!Lent, Login!CredTypeOK
  <2>2. QED
    BY <1>3, <2>1, TokenFrame DEF LoginMoves, Calls
<1>4. QED
  BY <1>1, <1>2, <1>3 DEF LoginMoves

LEMMA AnswerKeeps ==
  ASSUME Login!CredTypeOK, TokenInv, NEW b \in JobIds, Login!Answer(b)
  PROVE  Login!CredTypeOK' /\ TokenInv'
<1>1. borrow[b] \in Login!Borrowing /\ borrow[b].at = "asking"
  BY LoginShape DEF Login!Answer, Login!InFlight
<1>2. UNCHANGED <<authFile, lost>> /\ borrow \in [JobIds -> Login!Borrowing \union {Login!Idle, Login!Lent, Login!Failed}]
  BY DEF Login!Answer, Login!CredTypeOK
<1>3. CASE borrow[b].token # service
  <2> DEFINE x == [borrow[b] EXCEPT !.at = "refused"]
  <2>1. borrow' = [borrow EXCEPT ![b] = x] /\ UNCHANGED service
    BY <1>3 DEF Login!Answer
  <2>2. x \in Login!Borrowing /\ x.at = "refused" /\ x.token = borrow[b].token
    BY <1>1 DEF Login!Borrowing
  <2> HIDE DEF x
  <2>3. /\ borrow'[b] = x /\ \A i \in JobIds : i # b => borrow'[i] = borrow[i]
        /\ borrow' \in [JobIds -> Login!Borrowing \union {Login!Idle, Login!Lent, Login!Failed}]
    BY <1>2, <2>1, <2>2
  <2>4. Login!CredTypeOK'
    BY <1>2, <2>1, <2>3 DEF Login!CredTypeOK
  <2>5. \A i \in JobIds : borrow'[i].at = "answered" <=> borrow[i].at = "answered"
    BY <1>1, <2>2, <2>3
  <2>6. ASSUME ~lost PROVE Unspent' \/ \E c \in JobIds : Renewed(c)'
    <3>1. CASE Unspent
      BY <1>2, <2>1, <2>5, <3>1 DEF Unspent
    <3>2. ASSUME NEW c \in JobIds, Renewed(c) PROVE Renewed(c)'
      <4>1. borrow'[c] = borrow[c]
        BY <1>1, <2>3, <3>2 DEF Renewed
      <4>2. QED
        BY <1>2, <2>1, <2>5, <3>2, <4>1 DEF Renewed
    <3>3. QED
      BY <2>6, <3>1, <3>2 DEF TokenInv
  <2>7. ASSUME ~lost, NEW i \in JobIds, borrow'[i].at \in {"asking", "refused"}
        PROVE  borrow'[i].token <= authFile.refresh
    BY <1>1, <2>2, <2>3, <2>7 DEF TokenInv
  <2>8. \A i \in JobIds : borrow'[i].at = "answered" => borrow'[i].token # 0
    BY <1>1, <2>2, <2>3, <2>5 DEF TokenInv
  <2>9. QED
    BY <1>2, <2>4, <2>6, <2>7, <2>8 DEF TokenInv
<1>4. CASE borrow[b].token = service
  <2> DEFINE x == [[borrow[b] EXCEPT !.at = "answered"] EXCEPT !.token = service + 1]
  <2>1. service < MaxTokens /\ service' = service + 1 /\ service \in 0 .. MaxTokens
    BY <1>4 DEF Login!Answer, Login!CredTypeOK
  <2>2. borrow' = [borrow EXCEPT ![b] = x]
    BY <1>2, <1>4 DEF Login!Answer
  <2>3. x \in Login!Borrowing /\ x.at = "answered" /\ x.token = service + 1
    <3>1. service + 1 \in 0 .. MaxTokens
      BY <2>1, PlanAssumption
    <3>2. QED
      BY <1>1, <3>1 DEF Login!Borrowing
  <2> HIDE DEF x
  <2>4. /\ borrow'[b] = x /\ \A i \in JobIds : i # b => borrow'[i] = borrow[i]
        /\ borrow' \in [JobIds -> Login!Borrowing \union {Login!Idle, Login!Lent, Login!Failed}]
    BY <1>2, <2>2, <2>3
  <2>5. Login!CredTypeOK'
    BY <1>2, <2>1, <2>4, PlanAssumption DEF Login!CredTypeOK
  <2>6. ASSUME ~lost PROVE Unspent
    <3>1. service <= authFile.refresh
      BY <1>1, <1>4, <2>6 DEF TokenInv
    <3>2. authFile.refresh \in Nat
      BY PlanAssumption DEF Login!CredTypeOK
    <3>3. QED
      BY <2>1, <2>6, <3>1, <3>2 DEF TokenInv, Renewed
  <2>7. ASSUME ~lost PROVE Renewed(b)'
    BY <1>2, <2>1, <2>3, <2>4, <2>6, <2>7 DEF Unspent, Renewed
  <2>8. ASSUME ~lost, NEW i \in JobIds, borrow'[i].at \in {"asking", "refused"}
        PROVE  borrow'[i].token <= authFile.refresh
    BY <1>1, <2>3, <2>4, <2>8 DEF TokenInv
  <2>9. \A i \in JobIds : borrow'[i].at = "answered" => borrow'[i].token # 0
    BY <2>1, <2>3, <2>4 DEF TokenInv
  <2>10. QED
    BY <1>2, <2>5, <2>7, <2>8, <2>9 DEF TokenInv
<1>5. QED
  BY <1>3, <1>4

LEMMA TimeOutKeeps ==
  ASSUME Login!CredTypeOK, TokenInv, NEW b \in JobIds, Login!TimeOut(b)
  PROVE  Login!CredTypeOK' /\ TokenInv'
<1> DEFINE x == IF borrow[b].try < Attempts
                THEN [at |-> "asking", token |-> Login!Asked(b), try |-> borrow[b].try + 1]
                ELSE Login!Failed
<1>1. borrow[b] \in Login!Borrowing /\ Login!InFlight(b)
  BY LoginShape DEF Login!TimeOut
<1>2. /\ UNCHANGED <<authFile, service>> /\ lost' = (lost \/ borrow[b].at = "answered")
      /\ borrow' = [borrow EXCEPT ![b] = x]
      /\ borrow \in [JobIds -> Login!Borrowing \union {Login!Idle, Login!Lent, Login!Failed}]
  BY DEF Login!TimeOut, Login!CredTypeOK
<1>3. Login!Asked(b) \in 0 .. MaxTokens
  BY <1>1, PlanAssumption DEF Login!Asked, Login!Borrowing, TokenInv
<1>4. /\ x \in Login!Borrowing \union {Login!Failed} /\ x.at \in {"asking", "failed"}
      /\ x.at = "asking" /\ borrow[b].at # "answered" => x.token = borrow[b].token
  BY <1>1, <1>3, PlanAssumption DEF Login!Borrowing, Login!Failed, Login!Asked
<1> HIDE DEF x
<1>5. /\ borrow'[b] = x /\ \A i \in JobIds : i # b => borrow'[i] = borrow[i]
      /\ borrow' \in [JobIds -> Login!Borrowing \union {Login!Idle, Login!Lent, Login!Failed}]
  BY <1>2, <1>4
<1>6. Login!CredTypeOK'
  BY <1>2, <1>5 DEF Login!CredTypeOK
<1>7. \A i \in JobIds : borrow'[i].at = "answered" => i # b /\ borrow'[i] = borrow[i]
  BY <1>4, <1>5
<1>8. ASSUME ~lost' PROVE ~lost /\ borrow[b].at \in {"asking", "refused"}
  BY <1>1, <1>2, <1>8 DEF Login!InFlight, Login!CredTypeOK
<1>9. ASSUME ~lost' PROVE Unspent' \/ \E c \in JobIds : Renewed(c)'
  <2>1. CASE Unspent
    BY <1>2, <1>7, <2>1 DEF Unspent
  <2>2. ASSUME NEW c \in JobIds, Renewed(c) PROVE Renewed(c)'
    <3>1. borrow'[c] = borrow[c]
      BY <1>5, <1>8, <1>9, <2>2 DEF Renewed
    <3>2. QED
      BY <1>2, <1>7, <2>2, <3>1 DEF Renewed
  <2>3. QED
    BY <1>8, <1>9, <2>1, <2>2 DEF TokenInv
<1>10. ASSUME ~lost', NEW i \in JobIds, borrow'[i].at \in {"asking", "refused"}
       PROVE  borrow'[i].token <= authFile.refresh
  BY <1>4, <1>5, <1>8, <1>10 DEF TokenInv
<1>11. TokenInv'
  BY <1>2, <1>7, <1>9, <1>10 DEF TokenInv
<1>12. QED
  BY <1>6, <1>11

LEMMA ReceiveKeeps ==
  ASSUME Login!CredTypeOK, TokenInv, NEW b \in JobIds, Login!Receive(b)
  PROVE  Login!CredTypeOK' /\ TokenInv'
<1>1. borrow[b] \in Login!Borrowing /\ borrow[b].token \in 0 .. MaxTokens
  BY LoginShape DEF Login!Receive, Login!InFlight
<1>2. UNCHANGED <<service, lost>> /\ borrow \in [JobIds -> Login!Borrowing \union {Login!Idle, Login!Lent, Login!Failed}]
  BY DEF Login!Receive, Login!CredTypeOK
<1>3. CASE borrow[b].at = "refused"
  <2>1. borrow' = [borrow EXCEPT ![b] = Login!Failed] /\ UNCHANGED authFile
    BY <1>3 DEF Login!Receive
  <2>2. Login!Failed.at = "failed"
    BY DEF Login!Failed
  <2>3. /\ borrow'[b] = Login!Failed /\ \A i \in JobIds : i # b => borrow'[i] = borrow[i]
        /\ borrow' \in [JobIds -> Login!Borrowing \union {Login!Idle, Login!Lent, Login!Failed}]
    BY <1>2, <2>1
  <2>4. Login!CredTypeOK'
    BY <1>2, <2>1, <2>3 DEF Login!CredTypeOK
  <2>5. \A i \in JobIds : borrow'[i].at = "answered" => i # b /\ borrow'[i] = borrow[i]
    BY <2>2, <2>3
  <2>6. ASSUME ~lost PROVE Unspent' \/ \E c \in JobIds : Renewed(c)'
    <3>1. CASE Unspent
      BY <1>2, <2>1, <2>5, <3>1 DEF Unspent
    <3>2. ASSUME NEW c \in JobIds, Renewed(c) PROVE Renewed(c)'
      <4>1. borrow'[c] = borrow[c]
        BY <1>3, <2>3, <3>2 DEF Renewed
      <4>2. QED
        BY <1>2, <2>1, <2>5, <3>2, <4>1 DEF Renewed
    <3>3. QED
      BY <2>6, <3>1, <3>2 DEF TokenInv
  <2>7. ASSUME ~lost, NEW i \in JobIds, borrow'[i].at \in {"asking", "refused"}
        PROVE  borrow'[i].token <= authFile.refresh
    BY <2>2, <2>3, <2>7 DEF TokenInv
  <2>8. QED
    BY <1>2, <2>1, <2>4, <2>5, <2>6, <2>7 DEF TokenInv
<1>4. CASE borrow[b].at = "answered"
  <2>1. /\ borrow' = [borrow EXCEPT ![b] = Login!Lent]
        /\ authFile' = [refresh |-> borrow[b].token, fresh |-> TRUE]
    BY <1>4 DEF Login!Receive
  <2>2. Login!Lent.at = "lent"
    BY DEF Login!Lent
  <2>3. /\ borrow'[b] = Login!Lent /\ \A i \in JobIds : i # b => borrow'[i] = borrow[i]
        /\ borrow' \in [JobIds -> Login!Borrowing \union {Login!Idle, Login!Lent, Login!Failed}]
    BY <1>2, <2>1
  <2>4. Login!CredTypeOK'
    BY <1>1, <1>2, <2>1, <2>3 DEF Login!CredTypeOK
  <2>5. \A i \in JobIds : borrow'[i].at = "answered" => i # b /\ borrow'[i] = borrow[i]
    BY <2>2, <2>3
  <2>6. ASSUME ~lost PROVE Renewed(b)
    BY <1>4, <2>6 DEF TokenInv, Unspent, Renewed
  <2>7. ASSUME ~lost PROVE Unspent'
    BY <1>2, <2>1, <2>5, <2>6, <2>7 DEF Renewed, Unspent
  <2>8. authFile.refresh \in Nat
    BY PlanAssumption DEF Login!CredTypeOK
  <2>9. ASSUME ~lost, NEW i \in JobIds, borrow'[i].at \in {"asking", "refused"}
        PROVE  borrow'[i].token <= authFile'.refresh
    <3>1. i # b /\ borrow'[i] = borrow[i] /\ borrow[i].token <= authFile.refresh
      BY <2>2, <2>3, <2>9 DEF TokenInv
    <3>2. authFile'.refresh = authFile.refresh + 1
      BY <1>1, <2>1, <2>6, <2>8, <2>9 DEF Renewed
    <3>3. borrow[i].token \in Nat
      BY LoginShape, PlanAssumption
    <3>4. QED
      BY <2>8, <3>1, <3>2, <3>3
  <2>10. QED
    BY <1>2, <2>4, <2>5, <2>7, <2>9 DEF TokenInv
<1>5. QED
  BY <1>3, <1>4 DEF Login!Receive
-----------------------------------------------------------------------------
(* A step keeps the invariant, and what has come out stands.               *)

\* No job joins those of the export, and what a finished one came to is not changed.
FinishedStay(e) == \A i \in ByKey(ExportKey(e))' :
  i \in ByKey(ExportKey(e)) /\ (jobs[i].state # "running" => jobs'[i].state = jobs[i].state)
AtRest(e) == \A i \in ByKey(ExportKey(e)) : jobs[i].state # "running"

WikisStand == \A w \in Wikis : OnDisk(w) => OnDisk(w)'
ExportsStand == \A e \in Exports :
  /\ export[e].manifest # NoManifest => export'[e].manifest # NoManifest
  /\ e \in asked => FinishedStay(e)
  /\ e \in asked /\ AtRest(e) => export'[e] = export[e]
StepHolds == IInv' /\ WikisStand /\ ExportsStand

\* Where the jobs and what they write stay as they are.
LEMMA StoreFrame ==
  ASSUME IInv, UNCHANGED <<jobs, wiki, legacy, export, asked>>
  PROVE  /\ JobsType' /\ WikiType' /\ ExportType' /\ OneActivePerKey'
         /\ WikiInv' /\ ReadyIsWhole' /\ ExportInv' /\ ExportIsWhole'
         /\ WikisStand /\ ExportsStand /\ \A w \in Wikis : OnDisk(w)' = OnDisk(w)
<1>1. JobsType' /\ Kept' = Kept
  BY DEF IInv, Types, JobsType, Kept
<1>2. /\ \A i \in JobIds : Running(i)' = Running(i) /\ \A w \in Wikis : WikiJob(i, w)' = WikiJob(i, w)
      /\ \A i \in Kept : Running(i)' = Running(i)
      /\ \A e \in Exports : ByKey(ExportKey(e))' = ByKey(ExportKey(e))
  BY <1>1 DEF Running, WikiJob, ByKey
<1>3. OneActivePerKey'
  BY <1>1, <1>2 DEF IInv, OneActivePerKey
<1>4. WikiJobsRest
  BY <1>2 DEF WikiJobsRest
<1>5. ExportJobsRest
  BY <1>2 DEF ExportJobsRest, IInv, ExportInv, ByKey
<1>6. /\ WikiType' /\ WikiInv' /\ ReadyIsWhole' /\ WikisStand /\ \A w \in Wikis : OnDisk(w)' = OnDisk(w)
  BY <1>4, WikiFrame DEF IInv, Types, WikisStand
<1>7. ExportType' /\ ExportInv' /\ ExportIsWhole'
  BY <1>5, ExportFrame DEF IInv, Types
<1>8. ExportsStand
  BY <1>2 DEF ExportsStand, FinishedStay
<1>9. QED
  BY <1>1, <1>3, <1>6, <1>7, <1>8

LEMMA BorrowFrame ==
  ASSUME BorrowInv, UNCHANGED jobs, \A i \in JobIds : borrow'[i] # Login!Idle => borrow[i] # Login!Idle
  PROVE  BorrowInv'
BY DEF BorrowInv, Running, Kept

BorrowFits(j, new) == borrow'[j] # Login!Idle => new.state = "running" /\ new.at = "model"

LEMMA MoveKeeps ==
  ASSUME IInv, NEW j \in JobIds, NEW new, Moves(j, new), LoginMoves(j), BorrowFits(j, new),
         UNCHANGED <<up, provider>>
  PROVE  /\ PlainType' /\ JobsType' /\ Login!CredTypeOK' /\ OneActivePerKey' /\ BorrowInv' /\ TokenInv'
         /\ \A e \in Exports : FinishedStay(e)
<1> USE DEF Types
<1>1. PlainType' /\ JobsType'
  BY MovesFacts DEF IInv, PlainType
<1>2. OneActivePerKey'
  BY OneActiveKept DEF IInv
<1>3. Login!CredTypeOK' /\ TokenInv' /\ \A i \in JobIds : i # j => borrow'[i] = borrow[i]
  BY LoginKept DEF IInv
<1>4. /\ Kept' = Kept /\ jobs'[j] = new /\ \A i \in Kept : i # j => jobs'[i] = jobs[i]
      /\ j \in Kept /\ jobs[j].state = "running" /\ new.key = jobs[j].key
  BY MovesFacts DEF IInv, Kept, Moves, Running
<1>5. BorrowInv'
  <2> SUFFICES ASSUME NEW i \in JobIds, borrow'[i] # Login!Idle
               PROVE  Running(i)' /\ jobs'[i].at = "model"
    BY DEF BorrowInv
  <2>1. CASE i = j
    BY <1>4, <2>1 DEF BorrowFits, Running
  <2>2. CASE i # j
    BY <1>3, <1>4, <2>2 DEF IInv, BorrowInv, Running
  <2>3. QED
    BY <2>1, <2>2
<1>6. ASSUME NEW e \in Exports PROVE FinishedStay(e)
  BY <1>4 DEF FinishedStay, ByKey
<1>7. QED
  BY <1>1, <1>2, <1>3, <1>5, <1>6

LEMMA NoWrite ==
  ASSUME IInv, NEW j \in JobIds, NEW new, Moves(j, new), LoginMoves(j), BorrowFits(j, new),
         UNCHANGED <<up, provider, store, views>>, WikiJobsRest, ExportJobsRest
  PROVE  StepHolds
<1> USE DEF Types, store, views
<1>1. /\ PlainType' /\ JobsType' /\ Login!CredTypeOK' /\ OneActivePerKey' /\ BorrowInv' /\ TokenInv'
      /\ \A e \in Exports : FinishedStay(e)
  BY MoveKeeps
<1>2. WikiType' /\ WikiInv' /\ ReadyIsWhole' /\ WikisStand
  BY WikiFrame DEF IInv, WikisStand
<1>3. ExportType' /\ ExportInv' /\ ExportIsWhole'
  BY ExportFrame DEF IInv
<1>4. ViewType' /\ ShownIsServed' /\ ReplyInv'
  BY <1>2, ViewFrame DEF IInv, WikisStand
<1>5. ExportsStand
  BY <1>1 DEF ExportsStand
<1>6. QED
  BY <1>1, <1>2, <1>3, <1>4, <1>5 DEF IInv, StepHolds

WholeDir(d) == d.meta # None =>
  d.toc.by = d.meta /\ \A s \in Range(d.toc.sections) : d.pages[s] = d.meta

LEMMA WikiWrite ==
  ASSUME IInv, NEW j \in JobIds, NEW w \in Wikis, NEW new, NEW d \in WikiDir,
         WikiJob(j, w), Moves(j, new), LoginMoves(j), BorrowFits(j, new),
         wiki' = [wiki EXCEPT ![w] = d], UNCHANGED <<up, provider, legacy, export, views>>,
         WholeDir(d),
         new.state = "running" => d.meta = None /\ new.at = "model" /\ Begun(d, j, new.n)
  PROVE  StepHolds
<1> USE DEF Types, views
<1>1. /\ PlainType' /\ JobsType' /\ Login!CredTypeOK' /\ OneActivePerKey' /\ BorrowInv' /\ TokenInv'
      /\ \A e \in Exports : FinishedStay(e)
  BY MoveKeeps
<1>2. ExportJobsRest
  BY MovesRest DEF IInv
<1>3. ExportType' /\ ExportInv' /\ ExportIsWhole'
  BY <1>2, ExportFrame DEF IInv
<1>4. ExportsStand
  BY <1>1 DEF ExportsStand
<1>5. WikiType' /\ wiki'[w] = d /\ \A v \in Wikis : v # w => wiki'[v] = wiki[v]
  BY DEF IInv, WikiType
<1>6. ReadyIsWhole'
  BY <1>5 DEF IInv, ReadyIsWhole, WholeDir
<1>7. ~OnDisk(w) /\ wiki[w].meta = None
  BY DEF IInv, WikiInv
<1>8. \A v \in Wikis : v # w => OnDisk(v)' = OnDisk(v)
  BY <1>5 DEF OnDisk
<1>9. WikisStand
  BY <1>7, <1>8 DEF WikisStand
<1>10. ViewType' /\ ShownIsServed' /\ ReplyInv'
  BY <1>9, ViewFrame DEF IInv, WikisStand
<1>11. WikiInv'
  <2> SUFFICES ASSUME NEW v \in Wikis, NEW i \in JobIds, WikiJob(i, v)'
               PROVE  /\ wiki'[v].meta = None /\ ~OnDisk(v)'
                      /\ jobs'[i].at = "model" => Begun(wiki'[v], i, jobs'[i].n)
                      /\ jobs'[i].at = "snapshot" => jobs'[i].n = 0
    BY DEF WikiInv, Begun
  <2>1. /\ Kept' = Kept /\ jobs'[j] = new /\ \A k \in Kept : k # j => jobs'[k] = jobs[k]
        /\ new.key = WikiKey(w)
    BY MovesFacts DEF IInv, Kept, Moves, WikiJob
  <2>2. CASE i = j
    <3>1. v = w /\ new.state = "running"
      BY <2>1, <2>2, Keys DEF WikiJob, Running
    <3>2. ~(w = English /\ legacy)
      BY <1>7 DEF OnDisk
    <3>3. QED
      BY <1>5, <2>1, <2>2, <3>1, <3>2 DEF OnDisk
  <2>3. CASE i # j
    <3>1. WikiJob(i, v) /\ jobs'[i] = jobs[i]
      BY <2>1, <2>3 DEF WikiJob, Running
    <3>2. v # w
      BY <2>3, <3>1 DEF IInv, OneActivePerKey, WikiJob, Running
    <3>3. QED
      BY <1>5, <1>8, <3>1, <3>2 DEF IInv, WikiInv
  <2>4. QED
    BY <2>2, <2>3
<1>12. QED
  BY <1>1, <1>3, <1>4, <1>5, <1>6, <1>9, <1>10, <1>11 DEF IInv, StepHolds

WholeExport(x) == x.manifest # NoManifest =>
  x.manifest.intervals = Intervals /\ x.files = Artifacts(Len(Formats), x.manifest.got)

LEMMA ExportWrite ==
  ASSUME IInv, NEW j \in JobIds, NEW e \in Exports, NEW new, NEW x \in ExportDir,
         ExportJob(j, e), Moves(j, new), LoginMoves(j), BorrowFits(j, new),
         export' = [export EXCEPT ![e] = x], UNCHANGED <<up, provider, wiki, legacy, views>>,
         WholeExport(x), new.state \in {"done", "error"},
         new.state = "done" <=> x.manifest.sized
  PROVE  StepHolds
<1> USE DEF Types, views
<1>1. /\ PlainType' /\ JobsType' /\ Login!CredTypeOK' /\ OneActivePerKey' /\ BorrowInv' /\ TokenInv'
      /\ \A f \in Exports : FinishedStay(f)
  BY MoveKeeps
<1>2. WikiJobsRest
  BY MovesRest DEF IInv
<1>3. WikiType' /\ WikiInv' /\ ReadyIsWhole' /\ WikisStand
  BY <1>2, WikiFrame DEF IInv, WikisStand
<1>4. ViewType' /\ ShownIsServed' /\ ReplyInv'
  BY <1>3, ViewFrame DEF IInv, WikisStand
<1>5. ExportType' /\ export'[e] = x /\ \A f \in Exports : f # e => export'[f] = export[f]
  BY DEF IInv, ExportType
<1>6. ExportIsWhole'
  BY <1>5 DEF IInv, ExportIsWhole, WholeExport
<1>7. /\ Kept' = Kept /\ jobs'[j] = new /\ \A k \in Kept : k # j => jobs'[k] = jobs[k]
      /\ new.key = ExportKey(e) /\ j \in ByKey(ExportKey(e)) /\ jobs[j].state = "running"
  BY MovesFacts DEF IInv, Kept, Moves, ExportJob, Running, ByKey
<1>8. /\ e \in asked /\ export[e].manifest = NoManifest
      /\ \A i \in ByKey(ExportKey(e)) : i = j
  BY <1>7 DEF IInv, ExportInv, ByKey, Running
<1>9. \A f \in Exports : ByKey(ExportKey(f))' = ByKey(ExportKey(f))
  BY <1>7 DEF ByKey
<1>10. \A f \in Exports : f # e => j \notin ByKey(ExportKey(f))
  BY <1>7, Keys DEF ByKey
<1>11. ExportInv'
  <2> SUFFICES ASSUME NEW f \in Exports
               PROVE  /\ f \notin asked' => export'[f].manifest = NoManifest
                      /\ \A i \in ByKey(ExportKey(f))' :
                           /\ f \in asked' /\ \A k \in ByKey(ExportKey(f))' : k = i
                           /\ jobs'[i].state = "done" <=> export'[f].manifest.sized
                           /\ Running(i)' => export'[f].manifest = NoManifest /\ jobs'[i].n < Intervals
    BY DEF ExportInv
  <2>1. CASE f = e
    BY <1>5, <1>7, <1>8, <1>9, <2>1 DEF Running
  <2>2. CASE f # e
    <3>1. \A i \in ByKey(ExportKey(f)) : jobs'[i] = jobs[i] /\ (Running(i)' => Running(i))
      BY <1>7, <1>10, <2>2 DEF ByKey, Running
    <3>2. QED
      BY <1>5, <1>9, <2>2, <3>1 DEF IInv, ExportInv
  <2>3. QED
    BY <2>1, <2>2
<1>12. ExportsStand
  <2> SUFFICES ASSUME NEW f \in Exports
               PROVE  /\ export[f].manifest # NoManifest => export'[f].manifest # NoManifest
                      /\ AtRest(f) => export'[f] = export[f]
    BY <1>1 DEF ExportsStand
  <2>1. CASE f = e
    BY <1>7, <1>8, <2>1 DEF AtRest
  <2>2. CASE f # e
    BY <1>5, <2>2
  <2>3. QED
    BY <2>1, <2>2
<1>13. QED
  BY <1>1, <1>3, <1>4, <1>5, <1>6, <1>11, <1>12 DEF IInv, StepHolds
-----------------------------------------------------------------------------
(* Steps that move no running job.                                         *)

LEMMA Quiet ==
  ASSUME IInv, UNCHANGED <<jobs, wiki, legacy, export, asked, page, replies>>,
         PlainType', Login!CredTypeOK', TokenInv',
         \A i \in JobIds : borrow'[i] # Login!Idle => borrow[i] # Login!Idle
  PROVE  StepHolds
<1>1. /\ JobsType' /\ WikiType' /\ ExportType' /\ OneActivePerKey'
      /\ WikiInv' /\ ReadyIsWhole' /\ ExportInv' /\ ExportIsWhole'
      /\ WikisStand /\ ExportsStand
  BY StoreFrame
<1>2. BorrowInv'
  BY BorrowFrame DEF IInv
<1>3. ViewType' /\ ShownIsServed' /\ ReplyInv'
  BY <1>1, ViewFrame DEF IInv, Types, WikisStand
<1>4. QED
  BY <1>1, <1>2, <1>3 DEF IInv, Types, StepHolds

LEMMA LoginStays ==
  ASSUME Login!CredTypeOK, TokenInv, UNCHANGED login
  PROVE  Login!CredTypeOK' /\ TokenInv'
BY DEF login, Login!CredTypeOK, TokenInv, Unspent, Renewed

LEMMA NothingMoves ==
  ASSUME IInv, UNCHANGED <<jobs, store, views, login>>, PlainType'
  PROVE  StepHolds
<1>1. Login!CredTypeOK' /\ TokenInv'
  BY LoginStays DEF IInv, Types
<1>2. QED
  BY <1>1, Quiet DEF store, views, login

LEMMA CredentialKeeps ==
  ASSUME IInv, NEW j \in JobIds, CredentialStep(j)
  PROVE  StepHolds
<1>1. UNCHANGED <<up, provider, jobs, store, views>> /\ Login!CredStep(j)
  BY DEF CredentialStep
<1>2. Login!CredTypeOK /\ TokenInv
  BY DEF IInv, Types
<1>3. Login!CredTypeOK' /\ TokenInv'
  BY <1>1, <1>2, AnswerKeeps, TimeOutKeeps, ReceiveKeeps DEF Login!CredStep
<1>4. borrow[j] # Login!Idle /\ \A i \in JobIds : i # j => borrow'[i] = borrow[i]
  <2>1. borrow \in [JobIds -> Login!Borrowing \union {Login!Idle, Login!Lent, Login!Failed}]
    BY <1>2 DEF Login!CredTypeOK
  <2>2. Login!Idle.at = "idle"
    BY DEF Login!Idle
  <2>3. CASE Login!Answer(j)
    BY <2>1, <2>2, <2>3 DEF Login!Answer
  <2>4. CASE Login!TimeOut(j)
    BY <2>1, <2>2, <2>4 DEF Login!TimeOut, Login!InFlight
  <2>5. CASE Login!Receive(j)
    BY <2>1, <2>2, <2>5 DEF Login!Receive
  <2>6. QED
    BY <1>1, <2>3, <2>4, <2>5 DEF Login!CredStep
<1>5. PlainType'
  BY <1>1 DEF IInv, Types, PlainType
<1>6. QED
  BY <1>1, <1>3, <1>4, <1>5, Quiet DEF store, views

LEMMA ExpiryKeeps ==
  ASSUME IInv, TokenExpires
  PROVE  StepHolds
<1>1. UNCHANGED <<up, provider, jobs, store, views, service, borrow, lost>>
  BY DEF TokenExpires, Login!Expire
<1>2. authFile' = [authFile EXCEPT !.fresh = FALSE] /\ authFile \in [refresh: 0 .. MaxTokens, fresh: BOOLEAN]
  BY DEF TokenExpires, Login!Expire, IInv, Types, Login!CredTypeOK
<1>3. authFile' \in [refresh: 0 .. MaxTokens, fresh: BOOLEAN] /\ authFile'.refresh = authFile.refresh
  BY <1>2
<1>4. Login!CredTypeOK'
  BY <1>1, <1>3 DEF IInv, Types, Login!CredTypeOK
<1>5. TokenInv'
  BY <1>1, <1>3 DEF IInv, TokenInv, Unspent, Renewed
<1>6. PlainType'
  BY <1>1 DEF IInv, Types, PlainType
<1>7. QED
  BY <1>1, <1>4, <1>5, <1>6, Quiet DEF store, views

LEMMA EvictKeeps ==
  ASSUME IInv, NEW j \in JobIds, Evict(j)
  PROVE  StepHolds
<1> USE DEF Types
<1>1. /\ j \in Kept /\ jobs[j].state # "running" /\ jobs' = [jobs EXCEPT ![j] = Gone]
      /\ UNCHANGED <<up, provider, store, views, login>>
  BY DEF Evict
<1>2. jobs' \in Seq(Job \union {Gone}) /\ Len(jobs') = Len(jobs)
  BY <1>1 DEF IInv, JobsType, Kept
<1>3. /\ DOMAIN jobs' = DOMAIN jobs /\ jobs'[j] = Gone
      /\ \A i \in DOMAIN jobs : i # j => jobs'[i] = jobs[i]
  BY <1>1 DEF IInv, JobsType, Kept
<1>4. JobsType'
  BY <1>2 DEF IInv, JobsType
<1>5. Kept' = Kept \ {j} /\ \A i \in Kept' : i # j /\ i \in Kept /\ jobs'[i] = jobs[i]
  BY <1>3 DEF Kept
<1>6. \A i : Running(i)' <=> Running(i)
  BY <1>1, <1>5 DEF Running
<1>7. OneActivePerKey'
  BY <1>5, <1>6 DEF IInv, OneActivePerKey
<1>8. BorrowInv'
  BY <1>1, <1>5, <1>6 DEF login, IInv, BorrowInv, Running
<1>9. WikiJobsRest
  BY <1>5, <1>6 DEF WikiJobsRest, WikiJob, Running
<1>10. \A e \in Exports : \A i \in ByKey(ExportKey(e))' : i \in ByKey(ExportKey(e)) /\ jobs'[i] = jobs[i]
  BY <1>5 DEF ByKey
<1>11. ExportJobsRest
  BY <1>6, <1>10 DEF ExportJobsRest, IInv, ExportInv
<1>12. WikiType' /\ WikiInv' /\ ReadyIsWhole' /\ WikisStand
  BY <1>1, <1>9, WikiFrame DEF store, IInv, WikisStand
<1>13. ExportType' /\ ExportInv' /\ ExportIsWhole'
  BY <1>1, <1>11, ExportFrame DEF store, views, IInv
<1>14. ViewType' /\ ShownIsServed' /\ ReplyInv'
  BY <1>1, <1>12, ViewFrame DEF views, IInv, WikisStand
<1>15. Login!CredTypeOK' /\ TokenInv' /\ PlainType'
  BY <1>1, LoginStays DEF IInv, PlainType
<1>16. ExportsStand
  <2>1. \A e \in Exports : export'[e] = export[e]
    BY <1>1 DEF store
  <2>2. QED
    BY <1>10, <2>1 DEF ExportsStand, FinishedStay
<1>17. QED
  BY <1>4, <1>7, <1>8, <1>12, <1>13, <1>14, <1>15, <1>16 DEF IInv, StepHolds
-----------------------------------------------------------------------------
(* Jobs that start.                                                        *)

LEMMA StartedKeeps ==
  ASSUME IInv, UNCHANGED login,
         NEW key \in {WikiKey(w) : w \in Wikis} \union {ExportKey(e) : e \in Exports},
         Started(key)
  PROVE  LET n == Len(jobs) + 1
         IN  /\ JobsType' /\ OneActivePerKey' /\ BorrowInv' /\ Login!CredTypeOK' /\ TokenInv'
             /\ n \in JobIds /\ n \in Kept' /\ n \notin Kept /\ jobs'[n] = New(key)
             /\ \A i \in Kept' : i # n => i \in Kept /\ jobs'[i] = jobs[i] /\ (Running(i)' <=> Running(i))
             /\ \A e \in Exports : \A i \in ByKey(ExportKey(e)) : i \in ByKey(ExportKey(e))'
<1> USE DEF Types
<1> DEFINE n == Len(jobs) + 1
<1>1. /\ JobsType' /\ OneActivePerKey' /\ n \in JobIds /\ n \notin DOMAIN jobs
      /\ jobs'[n] = New(key) /\ (\A i \in DOMAIN jobs : jobs'[i] = jobs[i]) /\ Kept' = Kept \union {n}
  BY StartedFacts DEF IInv
<1> HIDE DEF n
<1>2. \A i \in Kept : i # n /\ i \in Kept' /\ jobs'[i] = jobs[i] /\ (Running(i)' <=> Running(i))
  BY <1>1 DEF Kept, Running
<1>3. BorrowInv'
  BY <1>1, <1>2 DEF login, IInv, BorrowInv, Running
<1>4. Login!CredTypeOK' /\ TokenInv'
  BY LoginStays DEF IInv
<1>5. \A e \in Exports : \A i \in ByKey(ExportKey(e)) : i \in ByKey(ExportKey(e))'
  BY <1>2 DEF ByKey
<1>6. n \notin Kept /\ \A i \in Kept' : i # n => i \in Kept
  BY <1>1 DEF Kept
<1>7. QED
  BY <1>1, <1>2, <1>3, <1>4, <1>5, <1>6 DEF n

LEMMA StartWikiKeeps ==
  ASSUME IInv, NEW w \in Wikis, StartWiki(w)
  PROVE  StepHolds
<1> USE DEF Types
<1> DEFINE n == Len(jobs) + 1
<1>1. /\ Started(WikiKey(w)) /\ UNCHANGED <<up, provider, store, views, login>>
      /\ WikiStatus(w) # "ready"
  BY DEF StartWiki
<1>2. /\ JobsType' /\ OneActivePerKey' /\ BorrowInv' /\ Login!CredTypeOK' /\ TokenInv'
      /\ n \in JobIds /\ n \in Kept' /\ n \notin Kept /\ jobs'[n] = New(WikiKey(w))
      /\ \A i \in Kept' : i # n => i \in Kept /\ jobs'[i] = jobs[i] /\ (Running(i)' <=> Running(i))
      /\ \A e \in Exports : \A i \in ByKey(ExportKey(e)) : i \in ByKey(ExportKey(e))'
  BY <1>1, StartedKeeps
<1> HIDE DEF n
<1>3. ~OnDisk(w) /\ wiki[w].meta = None
  <2>1. ~OnDisk(w)
    BY <1>1 DEF WikiStatus, Started
  <2>2. wiki[w].meta # None => wiki[w].toc # NoToc
    BY DEF IInv, ReadyIsWhole, NoToc
  <2>3. QED
    BY <2>1, <2>2 DEF OnDisk
<1>4. jobs'[n].key = WikiKey(w) /\ jobs'[n].at = "snapshot" /\ jobs'[n].n = 0
  BY <1>2 DEF New
<1>5. WikiType' /\ ReadyIsWhole' /\ WikisStand /\ \A v \in Wikis : OnDisk(v)' = OnDisk(v) /\ wiki'[v] = wiki[v]
  BY <1>1 DEF store, IInv, WikiType, ReadyIsWhole, WikisStand, OnDisk
<1>6. WikiInv'
  <2> SUFFICES ASSUME NEW v \in Wikis, NEW i \in JobIds, WikiJob(i, v)'
               PROVE  /\ wiki'[v].meta = None /\ ~OnDisk(v)'
                      /\ jobs'[i].at = "model" => Begun(wiki'[v], i, jobs'[i].n)
                      /\ jobs'[i].at = "snapshot" => jobs'[i].n = 0
    BY DEF WikiInv, Begun
  <2>1. CASE i = n
    <3>1. v = w
      BY <1>4, <2>1, Keys DEF WikiJob
    <3>2. QED
      BY <1>3, <1>4, <1>5, <2>1, <3>1
  <2>2. CASE i # n
    <3>1. WikiJob(i, v) /\ jobs'[i] = jobs[i]
      BY <1>2, <2>2 DEF WikiJob, Running
    <3>2. QED
      BY <1>5, <3>1 DEF IInv, WikiInv
  <2>3. QED
    BY <2>1, <2>2
<1>7. \A e \in Exports : \A i \in ByKey(ExportKey(e))' :
        i \in ByKey(ExportKey(e)) /\ jobs'[i] = jobs[i] /\ (Running(i)' <=> Running(i))
  BY <1>2, <1>4, Keys DEF ByKey
<1>8. ExportJobsRest
  BY <1>7 DEF ExportJobsRest, IInv, ExportInv
<1>9. ExportType' /\ ExportInv' /\ ExportIsWhole'
  BY <1>1, <1>8, ExportFrame DEF store, views, IInv
<1>10. ViewType' /\ ShownIsServed' /\ ReplyInv'
  BY <1>1, <1>5, ViewFrame DEF views, IInv
<1>11. ExportsStand
  <2>1. \A e \in Exports : export'[e] = export[e]
    BY <1>1 DEF store
  <2>2. QED
    BY <1>7, <2>1 DEF ExportsStand, FinishedStay
<1>12. PlainType'
  BY <1>1 DEF IInv, PlainType
<1>13. QED
  BY <1>2, <1>5, <1>6, <1>9, <1>10, <1>11, <1>12 DEF IInv, StepHolds

LEMMA StartExportKeeps ==
  ASSUME IInv, NEW e \in Exports, StartExport(e)
  PROVE  StepHolds
<1> USE DEF Types
<1> DEFINE n == Len(jobs) + 1
<1>1. /\ Started(ExportKey(e)) /\ UNCHANGED <<up, provider, store, page, replies, login>>
      /\ e \notin asked /\ asked' = asked \union {e}
  BY DEF StartExport
<1>2. /\ JobsType' /\ OneActivePerKey' /\ BorrowInv' /\ Login!CredTypeOK' /\ TokenInv'
      /\ n \in JobIds /\ n \in Kept' /\ n \notin Kept /\ jobs'[n] = New(ExportKey(e))
      /\ \A i \in Kept' : i # n => i \in Kept /\ jobs'[i] = jobs[i] /\ (Running(i)' <=> Running(i))
      /\ \A f \in Exports : \A i \in ByKey(ExportKey(f)) : i \in ByKey(ExportKey(f))'
  BY <1>1, StartedKeeps
<1> HIDE DEF n
<1>3. /\ jobs'[n].key = ExportKey(e) /\ jobs'[n].n = 0 /\ jobs'[n].state = "running"
  BY <1>2 DEF New
<1>4. ByKey(ExportKey(e)) = {} /\ export[e].manifest = NoManifest
  BY <1>1 DEF IInv, ExportInv
<1>5. WikiJobsRest
  BY <1>2, <1>3, Keys DEF WikiJobsRest, WikiJob, Running
<1>6. WikiType' /\ WikiInv' /\ ReadyIsWhole' /\ WikisStand
  BY <1>1, <1>5, WikiFrame DEF store, IInv, WikisStand
<1>7. ViewType' /\ ShownIsServed' /\ ReplyInv'
  BY <1>1, <1>6, ViewFrame DEF IInv, WikisStand
<1>8. ExportType' /\ ExportIsWhole' /\ \A f \in Exports : export'[f] = export[f]
  BY <1>1 DEF store, IInv, ExportType, ExportIsWhole
<1>9. \A f \in Exports : f # e => \A i \in ByKey(ExportKey(f))' :
        i \in ByKey(ExportKey(f)) /\ jobs'[i] = jobs[i] /\ (Running(i)' <=> Running(i))
  BY <1>2, <1>3, Keys DEF ByKey
<1>10. \A i \in ByKey(ExportKey(e))' : i = n
  BY <1>2, <1>4 DEF ByKey
<1>11. ExportInv'
  <2> SUFFICES ASSUME NEW f \in Exports
               PROVE  /\ f \notin asked' => export'[f].manifest = NoManifest
                      /\ \A i \in ByKey(ExportKey(f))' :
                           /\ f \in asked' /\ \A k \in ByKey(ExportKey(f))' : k = i
                           /\ jobs'[i].state = "done" <=> export'[f].manifest.sized
                           /\ Running(i)' => export'[f].manifest = NoManifest /\ jobs'[i].n < Intervals
    BY DEF ExportInv
  <2>1. CASE f = e
    BY <1>1, <1>3, <1>4, <1>8, <1>10, <2>1, PlanAssumption DEF NoManifest
  <2>2. CASE f # e
    BY <1>1, <1>8, <1>9, <2>2 DEF IInv, ExportInv
  <2>3. QED
    BY <2>1, <2>2
<1>12. ExportsStand
  <2>1. \A f \in Exports : f \in asked => f # e
    BY <1>1
  <2>2. QED
    BY <1>8, <1>9, <2>1 DEF ExportsStand, FinishedStay
<1>13. PlainType'
  BY <1>1 DEF IInv, PlainType
<1>14. QED
  BY <1>2, <1>6, <1>7, <1>8, <1>11, <1>12, <1>13 DEF IInv, StepHolds
-----------------------------------------------------------------------------
(* The pages.                                                              *)

LEMMA ViewKeeps ==
  ASSUME IInv, UNCHANGED <<up, provider, jobs, store, asked, login>>,
         ViewType', ShownIsServed', ReplyInv'
  PROVE  StepHolds
<1>1. /\ JobsType' /\ WikiType' /\ ExportType' /\ OneActivePerKey'
      /\ WikiInv' /\ ReadyIsWhole' /\ ExportInv' /\ ExportIsWhole'
      /\ WikisStand /\ ExportsStand
  BY StoreFrame DEF store
<1>2. Login!CredTypeOK' /\ TokenInv'
  BY LoginStays DEF IInv, Types
<1>3. BorrowInv'
  BY BorrowFrame DEF login, IInv
<1>4. PlainType'
  BY DEF IInv, Types, PlainType
<1>5. QED
  BY <1>1, <1>2, <1>3, <1>4 DEF IInv, Types, StepHolds

LEMMA AskKeeps ==
  ASSUME IInv, NEW w \in Wikis, Ask(w)
  PROVE  StepHolds
<1>1. /\ UNCHANGED <<up, provider, jobs, store, page, asked, login>>
      /\ replies' = [replies EXCEPT ![w] = @ \union {WikiStatus(w)}]
  BY DEF Ask
<1>2. \A v \in Wikis : OnDisk(v)' = OnDisk(v)
  BY <1>1 DEF OnDisk, store
<1>3. WikiStatus(w) \in Statuses /\ (WikiStatus(w) = "ready" => OnDisk(w))
  BY DEF WikiStatus, Statuses
<1>4. /\ ViewType' /\ replies'[w] = replies[w] \union {WikiStatus(w)}
      /\ \A v \in Wikis : v # w => replies'[v] = replies[v]
  BY <1>1, <1>3 DEF IInv, Types, ViewType
<1>5. ShownIsServed' /\ ReplyInv'
  BY <1>1, <1>2, <1>3, <1>4 DEF IInv, ShownIsServed, ReplyInv
<1>6. QED
  BY <1>1, <1>4, <1>5, ViewKeeps

LEMMA ShowKeeps ==
  ASSUME IInv, NEW w \in Wikis, NEW s, PageShows(w, s)
  PROVE  StepHolds
<1>1. /\ UNCHANGED <<up, provider, jobs, store, asked, login>> /\ s \in replies[w]
      /\ page' = [page EXCEPT ![w] = s] /\ replies' = [replies EXCEPT ![w] = @ \ {s}]
  BY DEF PageShows
<1>2. \A v \in Wikis : OnDisk(v)' = OnDisk(v)
  BY <1>1 DEF OnDisk, store
<1>3. /\ ViewType' /\ page'[w] = s
      /\ \A v \in Wikis : replies'[v] \subseteq replies[v] /\ (v # w => page'[v] = page[v])
  BY <1>1 DEF IInv, Types, ViewType
<1>4. ShownIsServed' /\ ReplyInv'
  BY <1>1, <1>2, <1>3 DEF IInv, ShownIsServed, ReplyInv
<1>5. QED
  BY <1>1, <1>3, <1>4, ViewKeeps
-----------------------------------------------------------------------------
(* A running job that writes nothing.                                      *)

\* At a snapshot nothing is borrowed; nothing is in flight when the call is over.
LEMMA CallsOver ==
  ASSUME IInv, NEW j \in JobIds
  PROVE  /\ jobs[j].at # "model" => borrow[j] = Login!Idle
         /\ jobs[j].at # "model" => ~Login!InFlight(j)
         /\ CallOver(j) => ~Login!InFlight(j)
         /\ MayAnswer(j) => CallOver(j)
<1>1. ~Login!InFlight(j) <=> borrow[j].at \notin {"asking", "answered", "refused"}
  BY DEF Login!InFlight
<1>2. QED
  BY <1>1 DEF IInv, BorrowInv, Login!Idle, CallOver, MayAnswer, Login!Lent

LEMMA ReturnsIdle ==
  ASSUME Login!CredTypeOK, NEW j \in JobIds, Returns(j)
  PROVE  borrow'[j] = Login!Idle
BY DEF Returns, Login!CredTypeOK

LEMMA FailureKeeps ==
  ASSUME IInv, NEW j \in JobIds, Running(j), Ends(j, "error"), LoginMoves(j),
         borrow'[j] = Login!Idle, UNCHANGED <<up, provider, store, views>>
  PROVE  StepHolds
<1>1. PICK new : Moves(j, new) /\ new.state = "error"
  BY EndsMoves DEF IInv, Types
<1>2. WikiJobsRest /\ ExportJobsRest
  BY <1>1, MovesRest DEF IInv, Types
<1>3. BorrowFits(j, new)
  BY DEF BorrowFits
<1>4. QED
  BY <1>1, <1>2, <1>3, NoWrite

LEMMA SnapshotFailsKeeps ==
  ASSUME IInv, NEW j \in JobIds, SnapshotFails(j)
  PROVE  StepHolds
<1>1. /\ Running(j) /\ jobs[j].at = "snapshot" /\ Ends(j, "error")
      /\ UNCHANGED <<up, provider, store, views, login>>
  BY DEF SnapshotFails
<1>2. borrow[j] = Login!Idle /\ ~Login!InFlight(j)
  BY <1>1, CallsOver
<1>3. LoginMoves(j) /\ borrow'[j] = Login!Idle
  BY <1>1, <1>2 DEF LoginMoves, login
<1>4. QED
  BY <1>1, <1>3, FailureKeeps

LEMMA ReviewFailsKeeps ==
  ASSUME IInv, NEW j \in JobIds, NEW e \in Exports, ReviewFails(j, e)
  PROVE  StepHolds
<1>1. /\ Running(j) /\ CallOver(j) /\ Ends(j, "error") /\ Returns(j)
      /\ UNCHANGED <<up, provider, store, views, authFile, service, lost>>
  BY DEF ReviewFails, ExportJob
<1>2. LoginMoves(j) /\ borrow'[j] = Login!Idle
  BY <1>1, CallsOver, ReturnsIdle DEF LoginMoves, IInv, Types
<1>3. QED
  BY <1>1, <1>2, FailureKeeps
-----------------------------------------------------------------------------
(* What a job writes of a wiki.                                            *)

LEMMA Laid ==
  ASSUME NEW d \in WikiDir, NEW j \in JobIds, NEW plan \in Plans
  PROVE  /\ WithToc(d, j, plan) \in WikiDir
         /\ WithToc(d, j, plan).toc.by = j /\ WithToc(d, j, plan).toc.sections = plan
         /\ WithToc(d, j, plan).meta = d.meta
BY DEF WithToc, WikiDir, JobIds

LEMMA Marked ==
  ASSUME NEW d \in WikiDir, NEW j \in JobIds
  PROVE  /\ WithMeta(d, j) \in WikiDir /\ WithMeta(d, j).meta = j
         /\ WithMeta(d, j).toc = d.toc /\ WithMeta(d, j).pages = d.pages
<1>1. j \in 0 .. MaxJobs
  BY PlanAssumption DEF JobIds
<1>2. QED
  BY <1>1 DEF WithMeta, WikiDir

LEMMA Paged ==
  ASSUME NEW d \in WikiDir, NEW j \in JobIds, NEW n, NEW k
  PROVE  /\ WithPages(d, j, n, k) \in WikiDir
         /\ WithPages(d, j, n, k).toc = d.toc /\ WithPages(d, j, n, k).meta = d.meta
         /\ \A i \in n + 1 .. n + k :
              d.toc.sections[i] \in Sections => WithPages(d, j, n, k).pages[d.toc.sections[i]] = j
         /\ \A s \in Sections : WithPages(d, j, n, k).pages[s] \in {j, d.pages[s]}
<1> DEFINE p == [s \in Sections |-> IF \E i \in n + 1 .. n + k : d.toc.sections[i] = s
                                    THEN j ELSE d.pages[s]]
<1>1. j \in 0 .. MaxJobs /\ d.pages \in [Sections -> 0 .. MaxJobs]
  BY PlanAssumption DEF JobIds, WikiDir
<1>2. p \in [Sections -> 0 .. MaxJobs]
  BY <1>1
<1>3. WithPages(d, j, n, k) = [d EXCEPT !.pages = p]
  BY DEF WithPages
<1>4. /\ \A i \in n + 1 .. n + k : d.toc.sections[i] \in Sections => p[d.toc.sections[i]] = j
      /\ \A s \in Sections : p[s] \in {j, d.pages[s]}
  OBVIOUS
<1> HIDE DEF p
<1>5. QED
  BY <1>2, <1>3, <1>4 DEF WikiDir

LEMMA PlanFacts ==
  ASSUME NEW plan \in Plans
  PROVE  /\ Len(plan) \in Nat \ {0} /\ \A i \in 1 .. Len(plan) : plan[i] \in Sections
         /\ \A s \in Range(plan) : s \in Sections /\ \E i \in 1 .. Len(plan) : plan[i] = s
<1>1. plan \in Seq(Sections) /\ plan # <<>>
  BY PlanAssumption
<1>2. QED
  BY <1>1 DEF Range

\* Where every page of the table is written, the marker makes a whole wiki.
LEMMA MarkedIsWhole ==
  ASSUME NEW d \in WikiDir, NEW j \in JobIds, d.toc.by = j, d.toc.sections \in Plans,
         \A i \in 1 .. Len(d.toc.sections) : d.pages[d.toc.sections[i]] = j
  PROVE  WholeDir(WithMeta(d, j))
BY Marked, PlanFacts DEF WholeDir

LEMMA WrittenFacts ==
  ASSUME NEW d \in WikiDir, NEW j \in JobIds, NEW plan \in Plans, NEW k \in Nat
  PROVE  /\ Written(d, j, plan, k) \in WikiDir
         /\ Written(d, j, plan, k).toc.by = j /\ Written(d, j, plan, k).toc.sections = plan
         /\ Written(d, j, plan, k).meta = d.meta
         /\ \A i \in 1 .. Len(plan) : i <= k => Written(d, j, plan, k).pages[plan[i]] = j
<1> DEFINE t == WithToc(d, j, plan)
<1>1. t \in WikiDir /\ t.toc.by = j /\ t.toc.sections = plan /\ t.meta = d.meta
  BY Laid
<1>2. Written(d, j, plan, k) = WithPages(t, j, 0, k)
  BY DEF Written
<1> HIDE DEF t
<1>3. /\ WithPages(t, j, 0, k) \in WikiDir
      /\ WithPages(t, j, 0, k).toc = t.toc /\ WithPages(t, j, 0, k).meta = t.meta
      /\ \A i \in 0 + 1 .. 0 + k :
           t.toc.sections[i] \in Sections => WithPages(t, j, 0, k).pages[t.toc.sections[i]] = j
  BY <1>1, Paged
<1>4. ASSUME NEW i \in 1 .. Len(plan), i <= k PROVE WithPages(t, j, 0, k).pages[plan[i]] = j
  <2>1. plan[i] \in Sections /\ i \in 0 + 1 .. 0 + k
    BY <1>4, PlanFacts
  <2>2. QED
    BY <1>1, <1>3, <2>1
<1>5. QED
  BY <1>1, <1>2, <1>3, <1>4

LEMMA WikiJobFacts ==
  ASSUME IInv, NEW j \in JobIds, NEW w \in Wikis, WikiJob(j, w)
  PROVE  /\ wiki[w] \in WikiDir /\ wiki[w].meta = None /\ jobs[j] \in Job /\ Running(j)
         /\ jobs[j].at = "snapshot" => jobs[j].n = 0
         /\ jobs[j].at = "model" => Begun(wiki[w], j, jobs[j].n)
BY JobFacts DEF IInv, Types, WikiType, WikiInv, WikiJob, Running

LEMMA CutShortFacts ==
  ASSUME IInv, NEW j \in JobIds, NEW w \in Wikis, WikiJob(j, w), NEW d \in CutShort(j, w)
  PROVE  d \in WikiDir /\ d.meta = None /\ (jobs[j].at = "model" => CallOver(j))
<1>1. wiki[w] \in WikiDir /\ wiki[w].meta = None
  BY WikiJobFacts
<1>2. CASE jobs[j].at = "model"
  <2>1. CallOver(j) /\ d \in {wiki[w], WithPages(wiki[w], j, jobs[j].n, 1)}
    BY <1>2 DEF CutShort
  <2>2. QED
    BY <1>1, <2>1, Paged
<1>3. CASE jobs[j].at # "model"
  <2>1. d = wiki[w] \/ \E plan \in Plans : \E k \in 0 .. Len(plan) : d = Written(wiki[w], j, plan, k)
    <3>1. \A plan \in Plans : 0 \in 0 .. Len(plan)
      BY PlanFacts
    <3>2. QED
      BY <1>3, <3>1 DEF CutShort
  <2>2. \A plan \in Plans : \A k \in 0 .. Len(plan) : k \in Nat
    BY PlanFacts
  <2>3. QED
    BY <1>1, <1>3, <2>1, <2>2, WrittenFacts
<1>4. QED
  BY <1>2, <1>3

LEMMA PlanWikiKeeps ==
  ASSUME IInv, NEW j \in JobIds, NEW w \in Wikis, PlanWiki(j, w)
  PROVE  StepHolds
<1>1. /\ WikiJob(j, w) /\ jobs[j].at = "snapshot"
      /\ UNCHANGED <<up, provider, legacy, export, views, authFile, service, lost>>
  BY DEF PlanWiki
<1>2. /\ wiki[w] \in WikiDir /\ wiki[w].meta = None /\ jobs[j] \in Job /\ Running(j)
      /\ jobs[j].n = 0 /\ borrow[j] = Login!Idle /\ ~Login!InFlight(j)
  BY <1>1, WikiJobFacts, CallsOver
<1>3. PICK plan \in Plans :
       \/ /\ wiki' = [wiki EXCEPT ![w] = WithToc(wiki[w], j, plan)]
          /\ jobs' = [jobs EXCEPT ![j].at = "model"]
          /\ Calls(j)
       \/ /\ wiki' = [wiki EXCEPT ![w] = WithMeta(Written(wiki[w], j, plan, Len(plan)), j)]
          /\ Ends(j, "done")
          /\ UNCHANGED borrow
  BY DEF PlanWiki
<1>4. CASE /\ wiki' = [wiki EXCEPT ![w] = WithToc(wiki[w], j, plan)]
           /\ jobs' = [jobs EXCEPT ![j].at = "model"]
           /\ Calls(j)
  <2> DEFINE new == [jobs[j] EXCEPT !.at = "model"]
             d == WithToc(wiki[w], j, plan)
  <2>1. /\ new \in Job /\ new.key = jobs[j].key /\ new.state = jobs[j].state
        /\ new.at = "model" /\ new.n = 0
    BY <1>2 DEF Job, At
  <2>2. jobs' = [jobs EXCEPT ![j] = new]
    BY <1>4
  <2>3. d \in WikiDir /\ d.toc.by = j /\ d.toc.sections = plan /\ d.meta = None
    BY <1>2, Laid
  <2>4. wiki' = [wiki EXCEPT ![w] = d]
    BY <1>4
  <2> HIDE DEF new, d
  <2>5. Moves(j, new) /\ new.state = "running"
    BY <1>2, <2>1, <2>2 DEF Moves, Running
  <2>6. Begun(d, j, new.n) /\ WholeDir(d)
    BY <2>1, <2>3, PlanFacts DEF Begun, WholeDir
  <2>7. LoginMoves(j) /\ BorrowFits(j, new)
    BY <1>1, <1>2, <1>4, <2>1, <2>5 DEF LoginMoves, BorrowFits
  <2>8. QED
    BY <1>1, <2>1, <2>3, <2>4, <2>5, <2>6, <2>7, WikiWrite
<1>5. CASE /\ wiki' = [wiki EXCEPT ![w] = WithMeta(Written(wiki[w], j, plan, Len(plan)), j)]
           /\ Ends(j, "done")
           /\ UNCHANGED borrow
  <2> DEFINE t == Written(wiki[w], j, plan, Len(plan))
             d == WithMeta(t, j)
  <2>1. PICK new : Moves(j, new) /\ new.state = "done"
    BY <1>2, <1>5, EndsMoves DEF IInv, Types
  <2>2. Len(plan) \in Nat
    BY PlanFacts
  <2>3. /\ t \in WikiDir /\ t.toc.by = j /\ t.toc.sections = plan
        /\ \A i \in 1 .. Len(plan) : t.pages[plan[i]] = j
    BY <1>2, <2>2, WrittenFacts
  <2>4. d \in WikiDir /\ WholeDir(d)
    BY <2>3, Marked, MarkedIsWhole
  <2>5. wiki' = [wiki EXCEPT ![w] = d]
    BY <1>5
  <2> HIDE DEF d, t
  <2>6. LoginMoves(j) /\ BorrowFits(j, new)
    BY <1>1, <1>2, <1>5 DEF LoginMoves, BorrowFits
  <2>7. QED
    BY <1>1, <2>1, <2>4, <2>5, <2>6, WikiWrite
<1>6. QED
  BY <1>3, <1>4, <1>5

LEMMA WritePageKeeps ==
  ASSUME IInv, NEW j \in JobIds, NEW w \in Wikis, WritePage(j, w)
  PROVE  StepHolds
<1> DEFINE n == jobs[j].n
           t == WithPages(wiki[w], j, n, 1)
<1>1. /\ WikiJob(j, w) /\ jobs[j].at = "model" /\ CallOver(j)
      /\ UNCHANGED <<up, provider, legacy, export, views, authFile, service, lost>>
  BY DEF WritePage
<1>2. /\ wiki[w] \in WikiDir /\ wiki[w].meta = None /\ jobs[j] \in Job /\ Running(j)
      /\ Begun(wiki[w], j, n) /\ ~Login!InFlight(j)
  BY <1>1, WikiJobFacts, CallsOver
<1>3. n \in Nat
  BY <1>2 DEF Job
<1>4. t \in WikiDir /\ t.toc = wiki[w].toc /\ t.meta = None
  BY <1>2, Paged
<1>5. /\ \A i \in n + 1 .. n + 1 :
           wiki[w].toc.sections[i] \in Sections => t.pages[wiki[w].toc.sections[i]] = j
      /\ \A s \in Sections : t.pages[s] \in {j, wiki[w].pages[s]}
  <2> DEFINE k == 1
  <2> HIDE DEF n, t, k
  <2>1. t = WithPages(wiki[w], j, n, k)
    BY DEF t, k
  <2>2. /\ \A i \in n + 1 .. n + k :
             wiki[w].toc.sections[i] \in Sections => t.pages[wiki[w].toc.sections[i]] = j
        /\ \A s \in Sections : t.pages[s] \in {j, wiki[w].pages[s]}
    BY <1>2, <2>1, Paged
  <2>3. QED
    BY <2>2 DEF k
<1>6. \/ /\ PagesLeft(j, w) > 1
         /\ wiki' = [wiki EXCEPT ![w] = t]
         /\ jobs' = [jobs EXCEPT ![j].n = @ + 1]
         /\ Calls(j)
      \/ /\ PagesLeft(j, w) = 1
         /\ wiki' = [wiki EXCEPT ![w] = WithMeta(t, j)]
         /\ Ends(j, "done")
         /\ Returns(j)
  BY DEF WritePage
<1> HIDE DEF t
<1>7. /\ t.toc.by = j /\ t.toc.sections \in Plans /\ Len(t.toc.sections) \in Nat
      /\ \A i \in 1 .. n + 1 : i <= Len(t.toc.sections) => t.pages[t.toc.sections[i]] = j
  <2>1. t.toc.by = j /\ t.toc.sections \in Plans /\ Len(t.toc.sections) \in Nat
    BY <1>2, <1>4, PlanFacts DEF Begun
  <2>2. ASSUME NEW i \in 1 .. n + 1, i <= Len(t.toc.sections) PROVE t.pages[t.toc.sections[i]] = j
    <3>1. t.toc.sections[i] \in Sections
      BY <1>3, <2>1, <2>2, PlanFacts
    <3>2. CASE i = n + 1
      BY <1>3, <1>4, <1>5, <3>1, <3>2
    <3>3. CASE i # n + 1
      <4>1. i \in 1 .. n
        BY <1>3, <3>3
      <4>2. wiki[w].pages[t.toc.sections[i]] = j
        BY <1>2, <1>4, <4>1 DEF Begun
      <4>3. QED
        BY <1>5, <3>1, <4>2
    <3>4. QED
      BY <3>2, <3>3
  <2>3. QED
    BY <2>1, <2>2
<1>8. PagesLeft(j, w) = Len(t.toc.sections) - n
  BY <1>4 DEF PagesLeft
<1>9. CASE /\ PagesLeft(j, w) > 1
           /\ wiki' = [wiki EXCEPT ![w] = t]
           /\ jobs' = [jobs EXCEPT ![j].n = @ + 1]
           /\ Calls(j)
  <2> DEFINE new == [jobs[j] EXCEPT !.n = n + 1]
  <2>1. /\ new \in Job /\ new.key = jobs[j].key /\ new.state = jobs[j].state
        /\ new.at = "model" /\ new.n = n + 1
    BY <1>1, <1>2, <1>3 DEF Job
  <2>2. jobs' = [jobs EXCEPT ![j] = new]
    BY <1>9
  <2> HIDE DEF new, n
  <2>3. Moves(j, new) /\ new.state = "running"
    BY <1>2, <2>1, <2>2 DEF Moves, Running
  <2>4. n + 1 < Len(t.toc.sections)
    BY <1>3, <1>7, <1>8, <1>9
  <2>5. \A i \in 1 .. n + 1 : t.pages[t.toc.sections[i]] = j
    BY <1>3, <1>7, <2>4
  <2>6. Begun(t, j, new.n) /\ WholeDir(t)
    BY <1>4, <1>7, <2>1, <2>4, <2>5 DEF Begun, WholeDir
  <2>7. LoginMoves(j) /\ BorrowFits(j, new)
    BY <1>1, <1>2, <1>9, <2>1, <2>3 DEF LoginMoves, BorrowFits
  <2>8. QED
    BY <1>1, <1>4, <1>9, <2>1, <2>3, <2>6, <2>7, WikiWrite
<1>10. CASE /\ PagesLeft(j, w) = 1
            /\ wiki' = [wiki EXCEPT ![w] = WithMeta(t, j)]
            /\ Ends(j, "done")
            /\ Returns(j)
  <2>1. PICK new : Moves(j, new) /\ new.state = "done"
    BY <1>2, <1>10, EndsMoves DEF IInv, Types
  <2> HIDE DEF n
  <2>2. Len(t.toc.sections) = n + 1
    BY <1>3, <1>7, <1>8, <1>10
  <2>3. \A i \in 1 .. Len(t.toc.sections) : t.pages[t.toc.sections[i]] = j
    BY <1>3, <1>7, <2>2
  <2>4. WithMeta(t, j) \in WikiDir /\ WholeDir(WithMeta(t, j))
    BY <1>4, <1>7, <2>3, Marked, MarkedIsWhole
  <2>5. LoginMoves(j) /\ BorrowFits(j, new)
    BY <1>1, <1>2, <1>10, ReturnsIdle DEF LoginMoves, BorrowFits, IInv, Types
  <2>6. QED
    BY <1>1, <1>10, <2>1, <2>4, <2>5, WikiWrite
<1>11. QED
  BY <1>6, <1>9, <1>10

LEMMA WikiWriteFailsKeeps ==
  ASSUME IInv, NEW j \in JobIds, NEW w \in Wikis, WikiWriteFails(j, w)
  PROVE  StepHolds
<1>1. /\ WikiJob(j, w) /\ Ends(j, "error") /\ Returns(j)
      /\ UNCHANGED <<up, provider, legacy, export, views, authFile, service, lost>>
  BY DEF WikiWriteFails
<1>2. PICK d \in CutShort(j, w) : wiki' = [wiki EXCEPT ![w] = d]
  BY DEF WikiWriteFails
<1>3. d \in WikiDir /\ d.meta = None /\ ~Login!InFlight(j)
  BY <1>1, CutShortFacts, CallsOver
<1>4. PICK new : Moves(j, new) /\ new.state = "error"
  BY <1>1, EndsMoves DEF WikiJob, IInv, Types
<1>5. LoginMoves(j) /\ BorrowFits(j, new)
  BY <1>1, <1>3, ReturnsIdle DEF LoginMoves, BorrowFits, IInv, Types
<1>6. WholeDir(d)
  BY <1>3 DEF WholeDir
<1>7. QED
  BY <1>1, <1>2, <1>3, <1>4, <1>5, <1>6, WikiWrite
-----------------------------------------------------------------------------
(* What a job writes of an export.                                         *)

LEMMA ArtifactFacts ==
  ASSUME NEW k \in 0 .. Len(Formats), NEW got \in SUBSET (1 .. Intervals)
  PROVE  Artifacts(k, got) \in UNION {[S -> SUBSET (1 .. Intervals)] : S \in SUBSET Range(Formats)}
<1> DEFINE S == {Formats[i] : i \in 1 .. k}
<1>1. S \subseteq Range(Formats)
  BY PlanAssumption DEF Range
<1>2. Artifacts(k, got) \in [S -> SUBSET (1 .. Intervals)]
  BY DEF Artifacts
<1> HIDE DEF S
<1>3. QED
  BY <1>1, <1>2

LEMMA CompleteFacts ==
  ASSUME NEW got \in SUBSET (1 .. Intervals), NEW sized \in BOOLEAN
  PROVE  /\ Complete(got, sized) \in ExportDir /\ WholeExport(Complete(got, sized))
         /\ Complete(got, sized).manifest.sized = sized
<1>1. Artifacts(Len(Formats), got) \in UNION {[S -> SUBSET (1 .. Intervals)] : S \in SUBSET Range(Formats)}
  <2>1. Len(Formats) \in 0 .. Len(Formats)
    BY PlanAssumption
  <2>2. QED
    BY <2>1, ArtifactFacts
<1>2. QED
  BY <1>1, PlanAssumption DEF Complete, ExportDir, WholeExport

LEMMA ExportJobFacts ==
  ASSUME IInv, NEW j \in JobIds, NEW e \in Exports, ExportJob(j, e)
  PROVE  /\ export[e] \in ExportDir /\ export[e].manifest = NoManifest
         /\ jobs[j] \in Job /\ Running(j) /\ jobs[j].n < Intervals
<1>1. j \in ByKey(ExportKey(e)) /\ jobs[j].state = "running" /\ Running(j)
  BY DEF ExportJob, ByKey, Running
<1>2. QED
  BY <1>1, JobFacts DEF IInv, Types, ExportType, ExportInv, Running

LEMMA FoundFacts ==
  ASSUME IInv, NEW j \in JobIds, NEW e \in Exports, ExportJob(j, e)
  PROVE  Found(j) \subseteq SUBSET (1 .. Intervals)
<1>1. jobs[j] \in Job /\ jobs[j].n < Intervals
  BY ExportJobFacts
<1>2. jobs[j].n + 1 \in 1 .. Intervals /\ jobs[j].got \in SUBSET (1 .. Intervals)
  BY <1>1, PlanAssumption DEF Job
<1>3. QED
  BY <1>2 DEF Found

LEMMA AnalysedKeeps ==
  ASSUME IInv, NEW j \in JobIds, NEW e \in Exports, ExportJob(j, e),
         NEW got \in SUBSET (1 .. Intervals), Analysed(j, e, got), LoginMoves(j),
         borrow'[j] = Login!Idle, UNCHANGED <<up, provider, wiki, legacy, views>>
  PROVE  StepHolds
<1>1. jobs[j] \in Job /\ Running(j) /\ jobs[j].n \in Nat /\ jobs[j].got \in SUBSET (1 .. Intervals)
  BY ExportJobFacts DEF Job
<1>2. CASE jobs[j].n + 1 < Intervals
  <2> DEFINE new == [jobs[j] EXCEPT !.n = jobs[j].n + 1, !.got = got, !.at = "snapshot"]
  <2>1. jobs' = [jobs EXCEPT ![j] = new] /\ UNCHANGED export
    BY <1>2 DEF Analysed
  <2>2. new \in Job /\ new.key = jobs[j].key /\ new.state = jobs[j].state /\ new.n = jobs[j].n + 1
    <3>1. jobs[j].n + 1 \in Nat /\ "snapshot" \in At
      BY <1>1 DEF At
    <3>2. QED
      BY <1>1, <3>1 DEF Job
  <2> HIDE DEF new
  <2>3. Moves(j, new) /\ new.state = "running"
    BY <1>1, <2>1, <2>2 DEF Moves, Running
  <2>4. WikiJobsRest /\ ExportJobsRest
    BY <1>2, <2>2, <2>3, MovesRest DEF IInv, Types
  <2>5. BorrowFits(j, new)
    BY DEF BorrowFits
  <2>6. QED
    BY <2>1, <2>3, <2>4, <2>5, NoWrite DEF store
<1>3. CASE ~(jobs[j].n + 1 < Intervals)
  <2> DEFINE x == Complete(got, TRUE)
  <2>1. Ends(j, "done") /\ export' = [export EXCEPT ![e] = x]
    BY <1>3 DEF Analysed
  <2>2. PICK new : Moves(j, new) /\ new.state = "done"
    BY <1>1, <2>1, EndsMoves DEF IInv, Types
  <2>4. x \in ExportDir /\ WholeExport(x) /\ x.manifest.sized
    BY CompleteFacts
  <2> HIDE DEF x
  <2>6. BorrowFits(j, new)
    BY DEF BorrowFits
  <2>7. QED
    BY <2>1, <2>2, <2>4, <2>6, ExportWrite
<1>4. QED
  BY <1>2, <1>3

LEMMA ComparedKeeps ==
  ASSUME IInv, NEW j \in JobIds, NEW e \in Exports, Compared(j, e)
  PROVE  StepHolds
<1>1. /\ ExportJob(j, e) /\ jobs[j].at = "snapshot"
      /\ UNCHANGED <<up, provider, wiki, legacy, views, authFile, service, lost>>
  BY DEF Compared
<1>2. /\ borrow[j] = Login!Idle /\ ~Login!InFlight(j)
      /\ jobs[j] \in Job /\ Running(j) /\ jobs[j].n < Intervals /\ jobs[j].got \in SUBSET (1 .. Intervals)
  BY <1>1, CallsOver, ExportJobFacts DEF Job
<1>3. CASE Analysed(j, e, jobs[j].got) /\ UNCHANGED borrow
  <2>1. LoginMoves(j) /\ borrow'[j] = Login!Idle
    BY <1>1, <1>2, <1>3 DEF LoginMoves
  <2>2. QED
    BY <1>1, <1>2, <1>3, <2>1, AnalysedKeeps
<1>4. CASE jobs' = [jobs EXCEPT ![j].at = "model"] /\ Calls(j) /\ UNCHANGED export
  <2> DEFINE new == [jobs[j] EXCEPT !.at = "model"]
  <2>1. jobs' = [jobs EXCEPT ![j] = new]
    BY <1>4
  <2>2. /\ new \in Job /\ new.key = jobs[j].key /\ new.state = jobs[j].state
        /\ new.n = jobs[j].n /\ new.at = "model"
    BY <1>2 DEF Job, At
  <2> HIDE DEF new
  <2>3. Moves(j, new) /\ new.state = "running"
    BY <1>2, <2>1, <2>2 DEF Moves, Running
  <2>4. WikiJobsRest /\ ExportJobsRest
    BY <1>1, <1>2, <2>2, <2>3, MovesRest DEF IInv, Types
  <2>5. LoginMoves(j) /\ BorrowFits(j, new)
    BY <1>1, <1>2, <1>4, <2>2, <2>3 DEF LoginMoves, BorrowFits
  <2>6. QED
    BY <1>1, <1>4, <2>3, <2>4, <2>5, NoWrite DEF store
<1>5. QED
  BY <1>3, <1>4 DEF Compared

LEMMA ReviewedKeeps ==
  ASSUME IInv, NEW j \in JobIds, NEW e \in Exports, Reviewed(j, e)
  PROVE  StepHolds
<1>1. /\ ExportJob(j, e) /\ MayAnswer(j) /\ Returns(j)
      /\ UNCHANGED <<up, provider, wiki, legacy, views, authFile, service, lost>>
  BY DEF Reviewed
<1>2. PICK got \in Found(j) : Analysed(j, e, got)
  BY DEF Reviewed
<1>5. got \in SUBSET (1 .. Intervals)
  BY <1>1, FoundFacts
<1>6. LoginMoves(j) /\ borrow'[j] = Login!Idle
  BY <1>1, CallsOver, ReturnsIdle DEF LoginMoves, IInv, Types
<1>7. QED
  BY <1>1, <1>2, <1>5, <1>6, AnalysedKeeps

\* What is cut short leaves no manifest, or the first one, and a whole export if any.
LEMMA CutShortExportFacts ==
  ASSUME IInv, NEW j \in JobIds, NEW e \in Exports, ExportJob(j, e), NEW x \in CutShortExport(j, e)
  PROVE  /\ x \in ExportDir /\ WholeExport(x) /\ ~x.manifest.sized
         /\ jobs[j].at = "model" => MayAnswer(j)
<1>1. /\ jobs[j].at = "model" => MayAnswer(j)
      /\ \/ \E got \in Found(j) : \E k \in 0 .. Len(Formats) : x = [export[e] EXCEPT !.files = Artifacts(k, got)]
         \/ \E got \in Found(j) : x = Complete(got, FALSE)
  <2> DEFINE Parts == {[export[e] EXCEPT !.files = Artifacts(k, got)] : k \in 0 .. Len(Formats), got \in Found(j)}
  <2> DEFINE Wholes == {Complete(got, FALSE) : got \in Found(j)}
  <2> DEFINE Writes == jobs[j].n + 1 = Intervals /\ (jobs[j].at = "model" => MayAnswer(j))
  <2>1. (jobs[j].at = "model" => MayAnswer(j)) /\ x \in Parts \union Wholes
    <3>1. CutShortExport(j, e) = IF Writes THEN Parts \union Wholes ELSE {}
      BY DEF CutShortExport
    <3> HIDE DEF Parts, Wholes
    <3>2. Writes /\ x \in Parts \union Wholes
      BY <3>1
    <3>3. QED
      BY <3>2
  <2>2. ASSUME x \in Parts
        PROVE  \E got \in Found(j) : \E k \in 0 .. Len(Formats) : x = [export[e] EXCEPT !.files = Artifacts(k, got)]
    BY <2>2
  <2>3. ASSUME x \in Wholes PROVE \E got \in Found(j) : x = Complete(got, FALSE)
    BY <2>3
  <2> HIDE DEF Parts, Wholes
  <2>4. QED
    BY <2>1, <2>2, <2>3
<1>2. \A got \in Found(j) : got \in SUBSET (1 .. Intervals)
  BY FoundFacts
<1>3. CASE \E got \in Found(j) : \E k \in 0 .. Len(Formats) : x = [export[e] EXCEPT !.files = Artifacts(k, got)]
  <2>1. PICK got \in Found(j), k \in 0 .. Len(Formats) : x = [export[e] EXCEPT !.files = Artifacts(k, got)]
    BY <1>3
  <2>2. export[e] \in ExportDir /\ export[e].manifest = NoManifest
    BY ExportJobFacts
  <2>3. Artifacts(k, got) \in UNION {[S -> SUBSET (1 .. Intervals)] : S \in SUBSET Range(Formats)}
    BY <1>2, ArtifactFacts
  <2>4. x \in ExportDir /\ x.manifest = NoManifest
    BY <2>1, <2>2, <2>3 DEF ExportDir
  <2>5. QED
    BY <1>1, <2>4 DEF WholeExport, NoManifest
<1>4. CASE \E got \in Found(j) : x = Complete(got, FALSE)
  BY <1>1, <1>2, <1>4, CompleteFacts
<1>5. QED
  BY <1>1, <1>3, <1>4

LEMMA ExportWriteFailsKeeps ==
  ASSUME IInv, NEW j \in JobIds, NEW e \in Exports, ExportWriteFails(j, e)
  PROVE  StepHolds
<1>1. /\ ExportJob(j, e) /\ Running(j) /\ Ends(j, "error") /\ Returns(j)
      /\ UNCHANGED <<up, provider, wiki, legacy, views, authFile, service, lost>>
  BY DEF ExportWriteFails, ExportJob
<1>2. PICK x \in CutShortExport(j, e) : export' = [export EXCEPT ![e] = x]
  BY DEF ExportWriteFails
<1>3. x \in ExportDir /\ WholeExport(x) /\ ~x.manifest.sized /\ ~Login!InFlight(j)
  BY <1>1, CutShortExportFacts, CallsOver
<1>4. PICK new : Moves(j, new) /\ new.state = "error"
  BY <1>1, EndsMoves DEF IInv, Types
<1>5. LoginMoves(j) /\ BorrowFits(j, new)
  BY <1>1, <1>3, ReturnsIdle DEF LoginMoves, BorrowFits, IInv, Types
<1>6. QED
  BY <1>1, <1>2, <1>3, <1>4, <1>5, ExportWrite
-----------------------------------------------------------------------------
(* The process is killed.                                                  *)

\* What a kill leaves in one directory: nothing with a marker that had none.
LEMMA KillKeeps ==
  ASSUME IInv, Kill
  PROVE  StepHolds
<1> USE DEF Types
<1>1. /\ up' = FALSE /\ jobs' = [j \in DOMAIN jobs |-> Gone] /\ Login!Abandon
      /\ UNCHANGED <<provider, views>>
  BY DEF Kill
<1>2. jobs' \in Seq(Job \union {Gone}) /\ Len(jobs') = Len(jobs) /\ \A i \in DOMAIN jobs' : jobs'[i] = Gone
  <2>1. DOMAIN jobs = 1 .. Len(jobs) /\ Len(jobs) \in Nat
    BY DEF IInv, JobsType
  <2>2. QED
    BY <1>1, <2>1
<1>3. JobsType' /\ Kept' = {}
  BY <1>2 DEF IInv, JobsType, Kept
<1>4. /\ \A i : ~Running(i)' /\ \A w \in Wikis : ~WikiJob(i, w)'
      /\ \A e \in Exports : ByKey(ExportKey(e))' = {}
  BY <1>3 DEF Running, WikiJob, ByKey
<1>5. OneActivePerKey' /\ WikiInv'
  BY <1>3, <1>4 DEF OneActivePerKey, WikiInv
<1>6. /\ borrow' = [b \in JobIds |-> Login!Idle] /\ UNCHANGED <<authFile, service>>
      /\ lost' = (lost \/ \E b \in JobIds : borrow[b].at = "answered")
  BY <1>1 DEF Login!Abandon
<1>7. BorrowInv' /\ Login!CredTypeOK'
  BY <1>6 DEF BorrowInv, IInv, Login!CredTypeOK
<1>8. TokenInv'
  <2>1. \A b \in JobIds : borrow'[b].at = "idle"
    BY <1>6 DEF Login!Idle
  <2>2. ~lost' => ~lost /\ \A b \in JobIds : borrow[b].at # "answered"
    BY <1>6 DEF IInv, Login!CredTypeOK
  <2>3. ~lost' => authFile.refresh = service
    BY <2>2 DEF IInv, TokenInv, Unspent, Renewed
  <2>4. QED
    BY <1>6, <2>1, <2>3 DEF TokenInv, Unspent
<1>9. WikiType' /\ ReadyIsWhole' /\ WikisStand
  <2>1. CASE wiki' = wiki /\ legacy' = legacy
    BY <2>1 DEF IInv, WikiType, ReadyIsWhole, WikisStand, OnDisk
  <2>2. ASSUME NEW w \in Wikis, NEW j \in Active(WikiKey(w)), NEW d \in CutShort(j, w),
               wiki' = [wiki EXCEPT ![w] = d], legacy' = legacy
        PROVE  WikiType' /\ ReadyIsWhole' /\ WikisStand
    <3>1. WikiJob(j, w) /\ j \in JobIds
      BY JobFacts DEF IInv, Active, ByKey, WikiJob, Running, Kept
    <3>2. d \in WikiDir /\ d.meta = None /\ ~OnDisk(w)
      BY <3>1, CutShortFacts DEF IInv, WikiInv
    <3>3. WikiType' /\ wiki'[w] = d /\ \A v \in Wikis : v # w => wiki'[v] = wiki[v]
      BY <2>2, <3>2 DEF IInv, WikiType
    <3>4. ReadyIsWhole'
      BY <3>2, <3>3 DEF IInv, ReadyIsWhole
    <3>5. WikisStand
      BY <2>2, <3>2, <3>3 DEF WikisStand, OnDisk
    <3>6. QED
      BY <3>3, <3>4, <3>5
  <2>3. QED
    BY <2>1, <2>2 DEF Kill, store
<1>10. /\ export' \in [Exports -> ExportDir] /\ ExportIsWhole'
       /\ \A e \in Exports :
            export'[e] # export[e] => e \in asked /\ ~AtRest(e) /\ export[e].manifest = NoManifest
  <2>1. CASE export' = export
    BY <2>1 DEF IInv, ExportType, ExportIsWhole
  <2>2. ASSUME NEW e \in Exports, NEW j \in Active(ExportKey(e)), NEW x \in CutShortExport(j, e),
               export' = [export EXCEPT ![e] = x]
        PROVE  /\ export' \in [Exports -> ExportDir] /\ ExportIsWhole'
               /\ \A f \in Exports :
                    export'[f] # export[f] => f \in asked /\ ~AtRest(f) /\ export[f].manifest = NoManifest
    <3>1. ExportJob(j, e) /\ j \in JobIds /\ j \in ByKey(ExportKey(e)) /\ ~AtRest(e)
      BY JobFacts DEF IInv, Active, ByKey, ExportJob, Running, Kept, AtRest
    <3>2. x \in ExportDir /\ WholeExport(x) /\ export[e].manifest = NoManifest
      BY <3>1, CutShortExportFacts, ExportJobFacts
    <3>3. /\ export' \in [Exports -> ExportDir] /\ export'[e] = x
          /\ \A f \in Exports : f # e => export'[f] = export[f]
      BY <2>2, <3>2 DEF IInv, ExportType
    <3>4. ExportIsWhole'
      BY <3>2, <3>3 DEF IInv, ExportIsWhole, WholeExport
    <3>5. e \in asked
      BY <3>1 DEF IInv, ExportInv
    <3>6. QED
      BY <3>1, <3>2, <3>3, <3>4, <3>5
  <2>3. QED
    BY <2>1, <2>2 DEF Kill, store
<1>11. ExportType' /\ ExportInv' /\ asked' = asked
  BY <1>1, <1>4, <1>10 DEF views, IInv, ExportType, ExportInv
<1>12. ExportsStand
  <2>1. ASSUME NEW e \in Exports, export[e].manifest # NoManifest PROVE export'[e].manifest # NoManifest
    BY <1>10, <2>1
  <2>2. QED
    BY <1>4, <1>10, <2>1 DEF ExportsStand, FinishedStay
<1>13. ViewType' /\ ShownIsServed' /\ ReplyInv'
  BY <1>1, <1>9, ViewFrame DEF views, IInv, WikisStand
<1>14. PlainType'
  BY <1>1 DEF IInv, PlainType
<1>15. QED
  BY <1>3, <1>5, <1>7, <1>8, <1>9, <1>10, <1>11, <1>12, <1>13, <1>14 DEF IInv, StepHolds
-----------------------------------------------------------------------------
(* The theorems.                                                           *)

LEMMA InitHolds == Init => IInv
<1> SUFFICES ASSUME Init PROVE IInv
  OBVIOUS
<1> USE DEF Types
<1>1. Kept = {} /\ jobs = <<>>
  BY DEF Init, Kept
<1>2. \A i : ~Running(i) /\ (\A w \in Wikis : ~WikiJob(i, w)) /\ (\A key : ByKey(key) = {})
  BY <1>1 DEF Running, WikiJob, ByKey
<1>3. PlainType /\ ViewType
  BY DEF Init, PlainType, ViewType, Statuses
<1>4. JobsType
  BY <1>1, PlanAssumption DEF JobsType
<1>5. /\ wiki \in [Wikis -> WikiDir] /\ legacy \in BOOLEAN
      /\ \A w \in Wikis : wiki[w].meta = None
  <2>1. EmptyWiki \in WikiDir /\ EmptyWiki.meta = None
    BY PlanAssumption DEF EmptyWiki, NoToc, None, WikiDir
  <2>2. QED
    BY <2>1 DEF Init
<1>6. export \in [Exports -> ExportDir] /\ asked = {} /\ \A e \in Exports : export[e].manifest = NoManifest
  <2>1. <<>> \in [{} -> SUBSET (1 .. Intervals)] /\ {} \in SUBSET Range(Formats)
    OBVIOUS
  <2>2. <<>> \in UNION {[S -> SUBSET (1 .. Intervals)] : S \in SUBSET Range(Formats)}
    BY <2>1
  <2>3. NoManifest \in [intervals: 0 .. Intervals, got: SUBSET (1 .. Intervals), sized: BOOLEAN]
    BY PlanAssumption DEF NoManifest
  <2>4. EmptyExport \in ExportDir /\ EmptyExport.manifest = NoManifest
    BY <2>2, <2>3 DEF EmptyExport, ExportDir
  <2>5. QED
    BY <2>4 DEF Init
<1>7. /\ authFile \in [refresh: {0}, fresh: BOOLEAN] /\ service = 0 /\ lost = FALSE
      /\ borrow = [b \in JobIds |-> Login!Idle]
  BY DEF Init, Login!CredInit
<1>8. Login!CredTypeOK
  <2>1. 0 \in 0 .. MaxTokens
    BY PlanAssumption
  <2>2. authFile \in [refresh: 0 .. MaxTokens, fresh: BOOLEAN]
    BY <1>7, <2>1
  <2>3. QED
    BY <1>7, <2>1, <2>2 DEF Login!CredTypeOK
<1>9. BorrowInv
  BY <1>7 DEF BorrowInv
<1>10. TokenInv
  <2>1. \A b \in JobIds : borrow[b].at = "idle"
    BY <1>7 DEF Login!Idle
  <2>2. QED
    BY <1>7, <2>1 DEF TokenInv, Unspent
<1>11. OneActivePerKey /\ WikiInv /\ ReadyIsWhole /\ ExportInv /\ ExportIsWhole
  BY <1>1, <1>2, <1>5, <1>6 DEF OneActivePerKey, WikiInv, ReadyIsWhole, ExportInv, ExportIsWhole
<1>12. ShownIsServed /\ ReplyInv
  BY DEF Init, ShownIsServed, ReplyInv
<1>13. QED
  BY <1>3, <1>4, <1>5, <1>6, <1>8, <1>9, <1>10, <1>11, <1>12 DEF IInv, WikiType, ExportType

LEMMA JobStepHolds ==
  ASSUME IInv, NEW j \in JobIds, JobStep(j)
  PROVE  StepHolds
<1>1. CASE SnapshotFails(j)
  BY <1>1, SnapshotFailsKeeps
<1>2. ASSUME NEW w \in Wikis, WikiStep(j, w) PROVE StepHolds
  BY <1>2, PlanWikiKeeps, WritePageKeeps, WikiWriteFailsKeeps DEF WikiStep
<1>3. ASSUME NEW e \in Exports, ExportStep(j, e) PROVE StepHolds
  BY <1>3, ComparedKeeps, ReviewedKeeps, ReviewFailsKeeps, ExportWriteFailsKeeps DEF ExportStep
<1>4. QED
  BY <1>1, <1>2, <1>3 DEF JobStep

LEMMA NextHolds ==
  ASSUME IInv, [Next]_vars
  PROVE  StepHolds
<1>1. ASSUME NEW j \in JobIds, JobStep(j) \/ CredentialStep(j) \/ Evict(j) PROVE StepHolds
  BY <1>1, JobStepHolds, CredentialKeeps, EvictKeeps
<1>2. ASSUME NEW w \in Wikis, StartWiki(w) \/ PageAsks(w) \/ PageAsksAgain(w) PROVE StepHolds
  BY <1>2, StartWikiKeeps, AskKeeps DEF PageAsks, PageAsksAgain
<1>3. ASSUME NEW w \in Wikis, NEW s, PageShows(w, s) PROVE StepHolds
  BY <1>3, ShowKeeps
<1>4. ASSUME NEW e \in Exports, StartExport(e) PROVE StepHolds
  BY <1>4, StartExportKeeps
<1>5. ASSUME NEW p \in {"none", "codex"}, SetProvider(p) PROVE StepHolds
  <2>1. PlainType' /\ UNCHANGED <<jobs, store, views, login>>
    BY <1>5 DEF SetProvider, IInv, Types, PlainType
  <2>2. QED
    BY <2>1, NothingMoves
<1>6. CASE Restart
  <2>1. PlainType' /\ UNCHANGED <<jobs, store, views, login>>
    BY <1>6 DEF Restart, IInv, Types, PlainType
  <2>2. QED
    BY <2>1, NothingMoves
<1>7. CASE UNCHANGED vars
  <2>1. PlainType' /\ UNCHANGED <<jobs, store, views, login>>
    BY <1>7 DEF vars, IInv, Types, PlainType
  <2>2. QED
    BY <2>1, NothingMoves
<1>8. QED
  BY <1>1, <1>2, <1>3, <1>4, <1>5, <1>6, <1>7, ExpiryKeeps, KillKeeps DEF Next

LEMMA Invariance == Spec => []IInv
<1>1. IInv /\ [Next]_vars => IInv'
  BY NextHolds DEF StepHolds
<1>2. QED
  BY <1>1, InitHolds, PTL DEF Spec

(***************************************************************************)
(* For any number of jobs: one active job to a key, a whole wiki behind    *)
(* its marker and a whole export behind its manifest whatever was killed   *)
(* or failed half-way, and pages that show "ready" only where there is     *)
(* something to show, however late the replies they acted on.              *)
(***************************************************************************)
THEOREM JobsHold == Spec => []JobsInv
<1>1. IInv => JobsInv
  <2> SUFFICES ASSUME IInv PROVE JobsInv
    OBVIOUS
  <2> USE DEF Types
  <2>1. Len(jobs) <= MaxJobs /\ \A j \in Kept : jobs[j] \in Job
    BY JobFacts DEF IInv, JobsType
  <2>2. \A e \in Exports : DOMAIN export[e].files \subseteq Range(Formats)
    BY DEF IInv, ExportType, ExportDir
  <2>3. TypeOK
    BY <2>1, <2>2 DEF TypeOK, IInv, PlainType, WikiType, WikiDir, ExportType, ViewType
  <2>4. QED
    BY <2>3 DEF IInv, JobsInv, ExportInv, DoneIsSized
<1>2. QED
  BY <1>1, Invariance, PTL

(***************************************************************************)
(* For any number of borrowers, renewals, timeouts and retries: unless an  *)
(* answer of the service was lost, its refresh token is in the file or on  *)
(* its way there.                                                          *)
(***************************************************************************)
THEOREM TokenStays == Spec => []TokenIsKept
<1>1. IInv => TokenIsKept
  BY DEF IInv, TokenInv, Unspent, Renewed, TokenIsKept, Login!TokenIsKept
<1>2. QED
  BY <1>1, Invariance, PTL

(***************************************************************************)
(* What the status endpoints once answered stands, through every step of   *)
(* every job, eviction, kill and restart: what is ready stays ready, an    *)
(* export that is gone stays gone, and one that failed is never generating *)
(* again, and ready only with the first of its two manifests.              *)
(***************************************************************************)
THEOREM OutcomesStand == Spec => OutcomeStands
<1> DEFINE Stand ==
       /\ \A w \in Wikis : WikiStatus(w) = "ready" => WikiStatus(w)' = "ready"
       /\ \A e \in Exports :
            /\ ExportStatus(e) = "ready" => ExportStatus(e)' = "ready"
            /\ ExportStatus(e) = "absent" /\ e \in asked => ExportStatus(e)' = "absent"
            /\ ExportStatus(e) = "error" =>
                 \/ ExportStatus(e)' \in {"error", "absent"}
                 \/ ExportStatus(e)' = "ready" /\ ~export'[e].manifest.sized
<1>1. ASSUME IInv, [Next]_vars PROVE Stand
  <2>1. IInv' /\ WikisStand /\ ExportsStand
    BY <1>1, NextHolds DEF StepHolds
  <2>2. DOMAIN jobs \subseteq JobIds /\ (DOMAIN jobs \subseteq JobIds)'
    <3>1. JobsType /\ JobsType'
      BY <1>1, <2>1 DEF IInv, Types
    <3>2. QED
      BY <3>1, PlanAssumption DEF JobsType, JobIds
  <2>3. ASSUME NEW w \in Wikis, WikiStatus(w) = "ready" PROVE WikiStatus(w)' = "ready"
    <3>1. OnDisk(w)
      BY <2>3 DEF WikiStatus
    <3>2. OnDisk(w)'
      BY <2>1, <3>1 DEF WikisStand
    <3>3. Active(WikiKey(w))' = {}
      BY <2>1, <2>2, <3>2 DEF IInv, WikiInv, Active, ByKey, WikiJob, Running, Kept
    <3>4. QED
      BY <3>2, <3>3 DEF WikiStatus
  <2>4. ASSUME NEW e \in Exports, ExportStatus(e) = "ready" PROVE ExportStatus(e)' = "ready"
    <3>1. /\ export[e].manifest # NoManifest
          /\ \A j \in ByKey(ExportKey(e)) : jobs[j].state \notin {"error", "running"}
      BY <2>4 DEF ExportStatus, Active
    <3>2. e \in asked
      BY <1>1, <3>1 DEF IInv, ExportInv
    <3>3. export'[e].manifest # NoManifest /\ FinishedStay(e)
      BY <2>1, <3>1, <3>2 DEF ExportsStand
    <3>4. \A j \in ByKey(ExportKey(e))' : jobs'[j].state \notin {"error", "running"}
      BY <3>1, <3>3 DEF FinishedStay
    <3>5. QED
      BY <3>3, <3>4 DEF ExportStatus, Active
  <2>5. ASSUME NEW e \in Exports, ExportStatus(e) = "absent", e \in asked PROVE ExportStatus(e)' = "absent"
    <3>1. /\ export[e].manifest = NoManifest
          /\ \A j \in ByKey(ExportKey(e)) : jobs[j].state \notin {"error", "running"}
      BY <2>5 DEF ExportStatus, Active
    <3>2. ASSUME NEW j \in ByKey(ExportKey(e)) PROVE FALSE
      <4>1. jobs[j].state \in States
        BY <1>1, JobFacts DEF IInv, Types, ByKey, Job
      <4>2. jobs[j].state = "done"
        BY <3>1, <4>1 DEF States
      <4>3. export[e].manifest.sized
        BY <1>1, <4>2 DEF IInv, ExportInv
      <4>4. QED
        BY <3>1, <4>3 DEF NoManifest
    <3>3. export'[e] = export[e] /\ ByKey(ExportKey(e))' = {}
      BY <2>1, <2>5, <3>2 DEF ExportsStand, FinishedStay, AtRest
    <3>4. QED
      BY <3>1, <3>3 DEF ExportStatus, Active
  <2>6. ASSUME NEW e \in Exports, ExportStatus(e) = "error"
        PROVE  \/ ExportStatus(e)' \in {"error", "absent"}
               \/ ExportStatus(e)' = "ready" /\ ~export'[e].manifest.sized
    <3>1. PICK j \in ByKey(ExportKey(e)) : jobs[j].state = "error"
      BY <2>6 DEF ExportStatus
    <3>2. /\ e \in asked /\ \A i \in ByKey(ExportKey(e)) : i = j
          /\ ~export[e].manifest.sized
      BY <1>1, <3>1 DEF IInv, ExportInv
    <3>3. \A i \in ByKey(ExportKey(e))' : jobs'[i].state = "error"
      BY <2>1, <3>1, <3>2 DEF ExportsStand, FinishedStay
    <3>4. ~export'[e].manifest.sized
      BY <2>1, <3>1, <3>2 DEF ExportsStand, AtRest
    <3>5. QED
      BY <3>3, <3>4 DEF ExportStatus, Active
  <2>7. QED
    BY <2>3, <2>4, <2>5, <2>6
<1>2. IInv /\ [Next]_vars => [Stand]_vars
  BY <1>1
<1>3. QED
  BY <1>2, Invariance, PTL DEF OutcomeStands, Spec
=============================================================================

---------------------------- MODULE ParseWorker ----------------------------
(***************************************************************************)
(* The parsing phase of indexAll (src/src/extraction/index.ts) and the     *)
(* worker thread it hands its files to (src/src/extraction/                *)
(* parse-worker.ts): one request at a time, with a timeout, a recycled     *)
(* worker after Interval requests, a pass that tries the files of dead     *)
(* workers again and one that tries them without their comments.           *)
(*                                                                         *)
(* The main thread and the workers exchange messages; the events of one    *)
(* worker arrive in order, those of two workers in any order.  A step of   *)
(* the main thread is a macrotask: a handler that settles the pending      *)
(* promise is one step with what indexAll does next.                       *)
(***************************************************************************)
EXTENDS Naturals, Sequences, FiniteSets

CONSTANTS N,         \* files found by the scan, taken in this order
          Inputs,    \* the files the scan may find: what each of them is
          Interval,  \* WORKER_RECYCLE_INTERVAL
          None       \* absent

Files == 1..N

\* Of the kinds, good and empty parse; broken is an answer without nodes but
\* errors; crash makes the worker exit, comments too unless its comments are
\* stripped, fleeting too and is gone when it is read again; heap kills the
\* thread with an error event; hang takes longer than any timeout; unread
\* cannot be read and huge is over MAX_FILE_SIZE.
Kinds == {"good", "empty", "broken", "crash", "comments", "fleeting",
          "heap", "hang", "unread", "huge"}

\* Why the parse of a file failed.
Reasons == {"read", "size", "exit", "timeout", "error", "result"}

ASSUME ParseAssumption ==
  /\ N \in Nat \ {0}
  /\ Interval \in Nat \ {0}
  /\ Inputs \subseteq [Files -> Kinds]
  /\ None \notin Nat \cup Reasons \cup [file : Files, stripped : BOOLEAN]
                 \cup [job : [id : Nat, file : Files, stripped : BOOLEAN], worker : Nat]

VARIABLES
  kind,          \* the kind of each file
  pc,            \* where indexAll is
  pass,          \* 1 all files, 2 retries, 3 retries without comments
  todo, still,   \* files to take in this pass, and in the next: retryableErrors, stillFailing
  cur,           \* the file being parsed
  parseWorker,   \* the current worker
  workers,       \* the threads spawned so far
  count,         \* workerParseCount
  pending,       \* the entry of pendingParses and the worker it was posted to
  nextId,
  aborted,       \* the signal
  stored,        \* the parse stored for each file
  failed,        \* the entry of each file in errors
  tally,         \* filesIndexed, filesSkipped, filesErrored
  hits,          \* history: why the requests of each file were rejected
  foreign        \* history: an exit rejected the request of another worker

mainVars == <<pc, pass, todo, still, cur>>
poolVars == <<parseWorker, workers, count, pending, nextId>>
resultVars == <<stored, failed, tally, hits>>
vars == <<kind, mainVars, poolVars, resultVars, aborted, foreign>>

Job == [id : Nat, file : Files, stripped : BOOLEAN]
Event == [type : {"loaded", "result", "error", "exit"}, job : Job \cup {None}]
Worker == [thread : {"loading", "up", "ended"}, killed : BOOLEAN,
           inbox : Seq(Job), outbox : Seq(Event), taken : Nat]

TypeOK ==
  /\ kind \in [Files -> Kinds]
  /\ pc \in {"spawning", "next", "reading", "parsing", "done", "aborted"}
  /\ pass \in 1..3
  /\ todo \in Seq(Files) /\ still \in Seq(Files)
  /\ cur \in Files \cup {None}
  /\ workers \in Seq(Worker)
  /\ parseWorker \in DOMAIN workers \cup {None}
  /\ count \in Nat /\ nextId \in Nat
  /\ pending \in [job : Job, worker : DOMAIN workers] \cup {None}
  /\ aborted \in BOOLEAN /\ foreign \in BOOLEAN
  /\ stored \in [Files -> [file : Files, stripped : BOOLEAN] \cup {None}]
  /\ failed \in [Files -> Reasons \cup {None}]
  /\ tally \in [indexed : Nat, skipped : Nat, errored : Nat]
  /\ hits \in [Files -> Seq({"exit", "timeout", "error"})]

Fresh == [thread |-> "loading", killed |-> FALSE, inbox |-> <<>>, outbox |-> <<>>, taken |-> 0]

\* indexAll has spawned its first worker and waits for the grammars.
Init ==
  /\ kind \in Inputs
  /\ pc = "spawning" /\ pass = 1
  /\ todo = [i \in 1..N |-> i] /\ still = <<>> /\ cur = None
  /\ parseWorker = 1 /\ workers = <<Fresh>>
  /\ count = 0 /\ pending = None /\ nextId = 0
  /\ aborted = FALSE /\ foreign = FALSE
  /\ stored = [f \in Files |-> None] /\ failed = [f \in Files |-> None]
  /\ tally = [indexed |-> 0, skipped |-> 0, errored |-> 0]
  /\ hits = [f \in Files |-> <<>>]
-----------------------------------------------------------------------------
(* The threads.                                                            *)

Event1(type) == [type |-> type, job |-> None]

Load(w) ==
  /\ workers[w].thread = "loading"
  /\ workers' = [workers EXCEPT ![w].thread = "up", ![w].outbox = Append(@, Event1("loaded"))]

\* A grammar does not load: the rejection ends the thread.
LoadFails(w) ==
  /\ workers[w].thread = "loading"
  /\ workers' = [workers EXCEPT ![w].thread = "ended",
                                ![w].outbox = @ \o <<Event1("error"), Event1("exit")>>]

Crashes(job) ==
  \/ kind[job.file] \in {"crash", "fleeting"}
  \/ kind[job.file] = "comments" /\ ~job.stripped

Parse(w) ==
  LET job == Head(workers[w].inbox)
      sent == workers[w].outbox
  IN /\ workers[w].thread = "up" /\ workers[w].inbox # <<>>
     /\ workers' = [workers EXCEPT
          ![w].inbox = Tail(@),
          ![w].thread = IF Crashes(job) \/ kind[job.file] = "heap" THEN "ended" ELSE "up",
          ![w].outbox = IF Crashes(job) THEN Append(@, Event1("exit"))
                        ELSE IF kind[job.file] = "heap" THEN @ \o <<Event1("error"), Event1("exit")>>
                        ELSE Append(@, [type |-> "result", job |-> job])]

\* terminate() takes effect some time later, or never in a stuck thread.
Die(w) ==
  /\ workers[w].killed /\ workers[w].thread # "ended"
  /\ workers' = [workers EXCEPT ![w].thread = "ended", ![w].outbox = Append(@, Event1("exit"))]

\* The thread has something to do that does not take too long.
Works(w) ==
  \/ workers[w].thread = "loading"
  \/ workers[w].inbox # <<>> /\ kind[Head(workers[w].inbox).file] # "hang"

Thread(w) ==
  /\ Load(w) \/ LoadFails(w) \/ Parse(w) \/ Die(w)
  /\ UNCHANGED <<kind, mainVars, parseWorker, count, pending, nextId, resultVars, aborted, foreign>>
-----------------------------------------------------------------------------
(* The pool: ensureWorker, recycleWorker, requestParse.                    *)

Kill(ws, w) == IF w = None THEN ws ELSE [ws EXCEPT ![w].killed = TRUE]

\* Post the parse of cur to worker w.
Post(w, ws) ==
  LET job == [id |-> nextId, file |-> cur', stripped |-> (pass = 3)]
  IN /\ pending' = [job |-> job, worker |-> w]
     /\ workers' = [ws EXCEPT ![w].inbox = Append(@, job), ![w].taken = @ + 1]
     /\ nextId' = nextId + 1
     /\ pc' = "parsing"

\* The worker to use, after it has been recycled when its turn has come, or a
\* new one whose grammars must load first.
Request ==
  LET recycle == count >= Interval
      ws == IF recycle THEN Kill(workers, parseWorker) ELSE workers
  IN IF recycle \/ parseWorker = None
       THEN /\ workers' = Append(ws, Fresh)
            /\ parseWorker' = Len(workers) + 1
            /\ count' = IF recycle THEN 0 ELSE count
            /\ pc' = "spawning"
            /\ UNCHANGED <<pending, nextId>>
       ELSE /\ Post(parseWorker, workers)
            /\ count' = count + 1
            /\ UNCHANGED parseWorker
-----------------------------------------------------------------------------
(* What indexAll does with an answer or a rejection of cur.                *)

Next1 == pc' = "next" /\ cur' = None /\ pending' = None

Count(field) == [tally EXCEPT ![field] = @ + 1]

\* The retries move a file from the errors to the indexed ones.
Mended == [tally EXCEPT !.indexed = @ + 1, !.errored = @ - 1]

Accept(job) ==
  LET empty == kind[job.file] = "empty"
      broken == kind[job.file] = "broken"
  IN /\ stored' = IF broken THEN stored
                  ELSE [stored EXCEPT ![cur] = [file |-> job.file, stripped |-> job.stripped]]
     /\ tally' = IF pass = 1 THEN Count(IF broken THEN "errored" ELSE IF empty THEN "skipped" ELSE "indexed")
                 ELSE IF broken THEN tally ELSE Mended
     /\ failed' = IF broken THEN IF pass = 1 THEN [failed EXCEPT ![cur] = "result"] ELSE failed
                  ELSE [failed EXCEPT ![cur] = None]
     /\ Next1
     /\ UNCHANGED <<pass, todo, still, hits>>

\* The errors of a worker that exited are retryable, in the second pass all are.
Retryable(reason) == pass = 2 \/ (pass = 1 /\ reason = "exit")

Refuse(reason) ==
  /\ failed' = IF pass = 1 THEN [failed EXCEPT ![cur] = reason] ELSE failed
  /\ tally' = IF pass = 1 THEN Count("errored") ELSE tally
  /\ still' = IF Retryable(reason) THEN Append(still, cur) ELSE still
  /\ hits' = [hits EXCEPT ![cur] = Append(@, reason)]
  /\ Next1
  /\ UNCHANGED <<pass, todo, stored>>
-----------------------------------------------------------------------------
(* Events at the main thread.                                              *)

Received(w) == [workers EXCEPT ![w].outbox = Tail(@)]

Arrived(w, type) == workers[w].outbox # <<>> /\ Head(workers[w].outbox).type = type

\* ensureWorker goes on: at the start of indexAll, or with the request it is for.
GrammarsLoaded(w) ==
  /\ Arrived(w, "loaded")
  /\ IF pc = "spawning" /\ w = parseWorker
       THEN IF cur = None
              THEN /\ pc' = "next" /\ workers' = Received(w)
                   /\ UNCHANGED <<cur, count, pending, nextId>>
              ELSE /\ cur' = cur /\ Post(w, Received(w)) /\ count' = count + 1
       ELSE workers' = Received(w) /\ UNCHANGED <<pc, cur, count, pending, nextId>>
  /\ UNCHANGED <<pass, todo, still, parseWorker, resultVars, foreign>>

\* An answer to a request that is no longer pending is dropped.
Answered(id) == pending # None /\ pending.job.id = id

Result(w) ==
  /\ Arrived(w, "result")
  /\ LET job == Head(workers[w].outbox).job
     IN IF Answered(job.id) THEN Accept(job) ELSE UNCHANGED <<mainVars, pending, resultVars>>
  /\ workers' = Received(w)
  /\ UNCHANGED <<parseWorker, count, nextId, foreign>>

WorkerError(w) ==
  /\ Arrived(w, "error")
  /\ IF pending # None THEN Refuse("error") ELSE UNCHANGED <<mainVars, pending, resultVars>>
  /\ workers' = Received(w)
  /\ UNCHANGED <<parseWorker, count, nextId, foreign>>

\* Whatever worker has ended, what is pending is rejected.
WorkerExit(w) ==
  /\ Arrived(w, "exit")
  /\ IF pending # None THEN Refuse("exit") ELSE UNCHANGED <<mainVars, pending, resultVars>>
  /\ foreign' = (foreign \/ (pending # None /\ pending.worker # w))
  /\ parseWorker' = IF parseWorker = w THEN None ELSE parseWorker
  /\ count' = IF parseWorker = w THEN 0 ELSE count
  /\ workers' = Received(w)
  /\ UNCHANGED nextId

Deliver(w) ==
  /\ GrammarsLoaded(w) \/ Result(w) \/ WorkerError(w) \/ WorkerExit(w)
  /\ UNCHANGED <<kind, aborted>>

\* No answer of worker w for a long time: it is at a file that hangs, such an
\* answer is only arriving, or nothing more will come.
Late(w) ==
  \/ workers[w].thread = "ended" /\ workers[w].outbox = <<>>
  \/ \E i \in DOMAIN workers[w].inbox : kind[workers[w].inbox[i].file] = "hang"
  \/ \E i \in DOMAIN workers[w].outbox :
       LET e == workers[w].outbox[i] IN e.type = "result" /\ kind[e.job.file] = "hang"

Timeout_RejectsOnExit ==
  /\ pc = "parsing" /\ Late(pending.worker) /\ ~workers[pending.worker].killed
  /\ parseWorker' = None /\ count' = 0
  /\ workers' = Kill(workers, pending.worker)
  /\ UNCHANGED <<kind, mainVars, pending, nextId, resultVars, aborted, foreign>>

Timeout_KeepsWorker ==
  /\ pc = "parsing" /\ Late(pending.worker)
  /\ Refuse("timeout")
  /\ workers' = Kill(workers, pending.worker)
  /\ UNCHANGED <<kind, parseWorker, count, nextId, aborted, foreign>>

\* The promise is rejected before terminate(), which may not return.
Timeout ==
  /\ pc = "parsing" /\ Late(pending.worker)
  /\ Refuse("timeout")
  /\ parseWorker' = None /\ count' = 0
  /\ workers' = Kill(workers, pending.worker)
  /\ UNCHANGED <<kind, nextId, aborted, foreign>>
-----------------------------------------------------------------------------
(* The loops of indexAll.  Events may arrive before any file: the reads of *)
(* a batch and of a retry are awaited.                                     *)

Stop == aborted /\ todo # <<>>

Take == cur' = Head(todo) /\ todo' = Tail(todo)

\* A file that cannot be read or is too large is not parsed.
PassOver ==
  /\ pc = "next" /\ pass = 1 /\ ~Stop /\ todo # <<>>
  /\ LET f == Head(todo)
     IN /\ kind[f] \in {"unread", "huge"}
        /\ failed' = [failed EXCEPT ![f] = IF kind[f] = "unread" THEN "read" ELSE "size"]
        /\ tally' = Count(IF kind[f] = "unread" THEN "errored" ELSE "skipped")
  /\ todo' = Tail(todo)
  /\ UNCHANGED <<kind, pc, pass, still, cur, poolVars, stored, hits, aborted, foreign>>

ParseFile ==
  /\ pc = "next" /\ pass = 1 /\ ~Stop /\ todo # <<>>
  /\ kind[Head(todo)] \notin {"unread", "huge"}
  /\ Take
  /\ Request
  /\ UNCHANGED <<kind, pass, still, resultVars, aborted, foreign>>

\* A retry takes a fresh worker and reads the file again.
Retry ==
  /\ pc = "next" /\ pass > 1 /\ ~Stop /\ todo # <<>>
  /\ Take
  /\ pc' = "reading"
  /\ workers' = Kill(workers, parseWorker)
  /\ parseWorker' = None /\ count' = 0
  /\ UNCHANGED <<kind, pass, still, pending, nextId, resultVars, aborted, foreign>>

ReadAgain ==
  /\ pc = "reading"
  /\ IF kind[cur] = "fleeting"
       THEN pc' = "next" /\ cur' = None /\ UNCHANGED poolVars
       ELSE cur' = cur /\ Request
  /\ UNCHANGED <<kind, pass, todo, still, resultVars, aborted, foreign>>

NextPass ==
  /\ pc = "next" /\ todo = <<>> /\ still # <<>>
  /\ todo' = still /\ still' = <<>>
  /\ pass' = pass + 1
  /\ UNCHANGED <<kind, pc, cur, poolVars, resultVars, aborted, foreign>>

\* Nothing to retry: the worker is terminated.
Finish ==
  /\ pc = "next" /\ todo = <<>> /\ still = <<>>
  /\ pc' = "done"
  /\ workers' = Kill(workers, parseWorker)
  /\ UNCHANGED <<kind, pass, todo, still, cur, parseWorker, count, pending, nextId, resultVars, aborted, foreign>>

\* The signal ends the first pass without a result, a retry loop at once.
Cease ==
  /\ pc = "next" /\ Stop
  /\ IF pass = 1 THEN pc' = "aborted" /\ workers' = Kill(workers, parseWorker) /\ UNCHANGED todo
                 ELSE todo' = <<>> /\ UNCHANGED <<pc, workers>>
  /\ UNCHANGED <<kind, pass, still, cur, parseWorker, count, pending, nextId, resultVars, aborted, foreign>>

AbortSignal ==
  /\ ~aborted /\ aborted' = TRUE
  /\ UNCHANGED <<kind, mainVars, poolVars, resultVars, foreign>>

Main == PassOver \/ ParseFile \/ Retry \/ ReadAgain \/ NextPass \/ Finish \/ Cease

\* ensureWorker waits for a thread that has ended.
Stuck ==
  /\ pc = "spawning"
  /\ parseWorker # None => workers[parseWorker].thread = "ended"

Rest == (pc \in {"done", "aborted"} \/ Stuck) /\ UNCHANGED vars

Next ==
  \/ Main \/ Timeout \/ AbortSignal \/ Rest
  \/ \E w \in DOMAIN workers : Thread(w) \/ Deliver(w)

Spec == Init /\ [][Next]_vars

\* The main thread, its timers and its events go on; a thread does what it is
\* asked, unless its file hangs, and need not ever end when it is terminated.
FairSpec ==
  /\ Spec
  /\ WF_vars(Main)
  /\ WF_vars(Timeout)
  /\ WF_vars(\E w \in DOMAIN workers : Deliver(w))
  /\ WF_vars(\E w \in DOMAIN workers : Works(w) /\ Thread(w))
-----------------------------------------------------------------------------
(* Properties.                                                             *)

\* What is stored for a file is the parse of that file, and one without its
\* comments only after two workers have ended on the whole file.
StoredIsOwnParse ==
  \A f \in Files : stored[f] # None =>
    /\ stored[f].file = f
    /\ stored[f].stripped => Len(hits[f]) >= 2

\* At the end each file is in one of the three counters, and filesErrored
\* counts the errors that are left: the retries move both.
CountsAddUp ==
  pc = "done" /\ ~aborted =>
    /\ tally.indexed + tally.skipped + tally.errored = N
    /\ tally.errored = Cardinality({f \in Files : failed[f] \notin {None, "size"}})
    /\ \A f \in Files : stored[f] = None <=> failed[f] # None

\* A file that parses is only lost to the exit of a worker that was not its
\* own: three times in its own passes, or once in that of a file behind which
\* it then waited.
LostToForeignExits ==
  pc = "done" /\ ~aborted => \A f \in Files :
    kind[f] \in {"good", "empty", "comments"} /\ stored[f] = None =>
      foreign /\ (Len(hits[f]) = 3 \/ hits[f][1] # "exit")

\* Only the current worker runs on: every other one has been terminated or has
\* ended.  And none parses more files than the recycling allows.
OneWorkerInUse ==
  \A w \in DOMAIN workers :
    /\ workers[w].taken <= Interval
    /\ workers[w].thread # "ended" /\ ~workers[w].killed =>
         w = parseWorker \/ pc \in {"done", "aborted"}

\* indexAll comes to an end whatever its files do to its workers, unless a
\* thread ends before its grammars are loaded.
IndexAllEnds == <>(pc \in {"done", "aborted"} \/ Stuck)

\* Whatever its workers do, indexAll stores each file's own parse, counts every
\* file once, loses a healthy one only to foreign exits, and runs one worker at a time.
ParseInv == TypeOK /\ StoredIsOwnParse /\ CountsAddUp /\ LostToForeignExits /\ OneWorkerInUse
=============================================================================

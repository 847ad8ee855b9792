-------------------------------- MODULE Jobs --------------------------------
(***************************************************************************)
(* The background jobs of the CodeDelta server: JobStore                   *)
(* (packages/codedelta-server/src/jobs/index.ts), the generation of a      *)
(* commit's wiki (services/wiki.ts), the training export                   *)
(* (services/training.ts), and the pages of the web application that poll  *)
(* them (apps/web/src/pages).                                              *)
(*                                                                         *)
(* The store lives in memory, the results on disk: a job writes its files  *)
(* one by one and a marker last (meta.json, and manifest.json, which is    *)
(* written twice), and what a reader is told is a combination of both.     *)
(* The server is one Node process, so an action is the code between two    *)
(* awaits; but it can be killed, or a write can fail, between any two      *)
(* files.                                                                  *)
(*                                                                         *)
(* A wiki is one commit in one language.  Pages are stamped with the job   *)
(* that wrote them.  Two generations of a wiki may plan other sections,    *)
(* since a snapshot depends on the analyzer that built it and on what it   *)
(* could parse.                                                            *)
(***************************************************************************)
EXTENDS Naturals, Sequences, FiniteSets, Functions

CONSTANTS Wikis, English,   \* the wikis, and the one in English
          Sections, Plans,  \* the tables of contents planWikiToc may make of the commit's snapshots
          Exports,          \* export ids: startTrainingExport draws a new one each time
          Formats,          \* the formats of an export, in the order they are written
          Intervals,        \* the commits of an export's range
          MaxJobs, MaxTokens, Attempts

None == 0
JobIds == 1 .. MaxJobs

ASSUME PlanAssumption == /\ Plans \subseteq Seq(Sections) \ {<<>>}
                         /\ English \in Wikis /\ Intervals \in Nat \ {0}
                         /\ Formats \in Seq(STRING) /\ MaxJobs \in Nat
                         /\ Attempts \in Nat \ {0} /\ MaxTokens \in Nat

VARIABLES up,            \* is the server running
          provider,      \* the provider in the settings: "none" or "codex"
          jobs,          \* the JobStore, in the order the jobs were started
          wiki,          \* [Wikis -> the localized directory]
          legacy,        \* does an older server's English directory hold a wiki
          export,        \* [Exports -> the export's directory]
          page,          \* [Wikis -> the status the Wiki page shows]
          replies,       \* [Wikis -> the statuses on their way to it]
          asked,         \* the exports asked for so far
          authFile, service, borrow, lost   \* the Codex login: module Credentials

Login == INSTANCE Credentials WITH Borrowers <- JobIds

store == <<wiki, legacy, export>>
views == <<page, replies, asked>>
login == <<authFile, service, borrow, lost>>
vars == <<up, provider, jobs, store, views, login>>
-----------------------------------------------------------------------------
(* The job store. *)

WikiKey(w) == <<"wiki", w>>
ExportKey(e) == <<"export", e>>

States == {"running", "done", "error"}
At == {"snapshot", "model"}   \* what a running job awaits

\* got: the intervals of an export that yielded episodes; n: pages written, or intervals analysed.
Job == [key: {WikiKey(w) : w \in Wikis} \union {ExportKey(e) : e \in Exports},
        state: States, at: At, n: Nat, got: SUBSET (1 .. Intervals)]

Gone == [state |-> "gone"]   \* evicted, or lost with the process

New(key) == [key |-> key, state |-> "running", at |-> "snapshot", n |-> 0, got |-> {}]
Kept == {j \in DOMAIN jobs : jobs[j] # Gone}
ByKey(key) == {j \in Kept : jobs[j].key = key}
Active(key) == {j \in ByKey(key) : jobs[j].state = "running"}

Running(j) == j \in Kept /\ jobs[j].state = "running"
WikiJob(j, w) == Running(j) /\ jobs[j].key = WikiKey(w)
ExportJob(j, e) == Running(j) /\ jobs[j].key = ExportKey(e)

\* JobStore.start: an active job of the key is returned, no second one is made.
Started(key) ==
  /\ Active(key) = {}
  /\ Len(jobs) < MaxJobs
  /\ jobs' = Append(jobs, New(key))

\* Mutant: the rejection of the runner is not recorded.
Ends_Uncaught(j, how) ==
  jobs' = IF how = "error" THEN jobs ELSE [jobs EXCEPT ![j] = [New(@.key) EXCEPT !.state = how]]

Ends(j, how) == jobs' = [jobs EXCEPT ![j] = [New(@.key) EXCEPT !.state = how]]

\* evictFinished: a finished job is forgotten some time later.
Evict(j) == /\ up /\ j \in Kept
            /\ jobs[j].state \in {"done", "error"}
            /\ jobs' = [jobs EXCEPT ![j] = Gone]
            /\ UNCHANGED <<up, provider, store, views, login>>

SetProvider(p) == /\ up /\ provider # p
                  /\ provider' = p
                  /\ UNCHANGED <<up, jobs, store, views, login>>
-----------------------------------------------------------------------------
(* The provider: a model call borrows the login first, and ends with a text or an error. *)

Calls(j) == borrow' = [borrow EXCEPT ![j] = Login!Borrowed]
Returns(j) == borrow' = [borrow EXCEPT ![j] = Login!Idle]

CallOver(j) == borrow[j].at \in {"lent", "failed"}
MayAnswer(j) == borrow[j] = Login!Lent

CredentialStep(j) == /\ up /\ Login!CredStep(j)
                     /\ UNCHANGED <<up, provider, jobs, store, views>>

TokenExpires == /\ Login!Expire
                /\ UNCHANGED <<up, provider, jobs, store, views>>
-----------------------------------------------------------------------------
(* The wiki of a commit. *)

NoToc == [by |-> None, sections |-> <<>>]
EmptyWiki == [toc |-> NoToc, pages |-> [s \in Sections |-> None], meta |-> None]

\* resolveWikiDir and the test of meta.json and toc.json in it.
OnDisk(w) == \/ wiki[w].meta # None /\ wiki[w].toc # NoToc
             \/ wiki[w].meta = None /\ w = English /\ legacy

WikiStatus(w) == IF Active(WikiKey(w)) # {} THEN "generating"
                 ELSE IF OnDisk(w) THEN "ready" ELSE "absent"

WithToc(d, j, plan) == [d EXCEPT !.toc = [by |-> j, sections |-> plan]]
\* Mutant: a page that is there already is not written again.
WithPages_Missing(d, j, n, k) ==
  [d EXCEPT !.pages = [s \in Sections |->
     IF @[s] = None /\ \E i \in n + 1 .. n + k : d.toc.sections[i] = s THEN j ELSE @[s]]]
\* The k pages of the table of contents after the first n, written over whatever is there.
WithPages(d, j, n, k) ==
  [d EXCEPT !.pages = [s \in Sections |-> IF \E i \in n + 1 .. n + k : d.toc.sections[i] = s
                                          THEN j ELSE @[s]]]
WithMeta(d, j) == [d EXCEPT !.meta = j]
PagesLeft(j, w) == Len(wiki[w].toc.sections) - jobs[j].n

\* Mutant: a wiki is generated again although it is there.
StartWiki_Anew(w) == /\ up
                /\ Started(WikiKey(w))
                /\ UNCHANGED <<up, provider, store, views, login>>

StartWiki(w) == /\ up /\ WikiStatus(w) # "ready"
                /\ Started(WikiKey(w))
                /\ UNCHANGED <<up, provider, store, views, login>>

SnapshotFails(j) == /\ up /\ Running(j) /\ jobs[j].at = "snapshot"
                    /\ Ends(j, "error")
                    /\ UNCHANGED <<up, provider, store, views, login>>

\* A wiki written in one go: the table of contents and the first k pages.
Written(d, j, plan, k) == WithPages(WithToc(d, j, plan), j, 0, k)

\* The table of contents, then up to the first await: with no provider, to the end.
PlanWiki(j, w) ==
  /\ up /\ WikiJob(j, w) /\ jobs[j].at = "snapshot"
  /\ \E plan \in Plans :
       \/ /\ provider = "codex"
          /\ wiki' = [wiki EXCEPT ![w] = WithToc(@, j, plan)]
          /\ jobs' = [jobs EXCEPT ![j].at = "model"]
          /\ Calls(j)
       \/ /\ provider = "none"
          /\ wiki' = [wiki EXCEPT ![w] = WithMeta(Written(@, j, plan, Len(plan)), j)]
          /\ Ends(j, "done")
          /\ UNCHANGED borrow
  /\ UNCHANGED <<up, provider, legacy, export, views, authFile, service, lost>>

\* A section's narrative came, or did not: the page is written either way.
WritePage(j, w) ==
  /\ up /\ WikiJob(j, w) /\ jobs[j].at = "model" /\ CallOver(j)
  /\ \/ /\ PagesLeft(j, w) > 1
        /\ wiki' = [wiki EXCEPT ![w] = WithPages(@, j, jobs[j].n, 1)]
        /\ jobs' = [jobs EXCEPT ![j].n = @ + 1]
        /\ Calls(j)
     \/ /\ PagesLeft(j, w) = 1
        /\ wiki' = [wiki EXCEPT ![w] = WithMeta(WithPages(@, j, jobs[j].n, 1), j)]
        /\ Ends(j, "done")
        /\ Returns(j)
  /\ UNCHANGED <<up, provider, legacy, export, views, authFile, service, lost>>

\* What the next step of j may have written of the wiki when it is cut short.
CutShort(j, w) ==
  IF jobs[j].at = "model"
  THEN IF CallOver(j) THEN {wiki[w], WithPages(wiki[w], j, jobs[j].n, 1)} ELSE {}
  ELSE {wiki[w]} \union UNION {{Written(wiki[w], j, plan, k) :
         k \in IF provider = "none" THEN 0 .. Len(plan) ELSE {0}} : plan \in Plans}

\* A write fails: the files before it stay, and the job ends in an error.
WikiWriteFails(j, w) ==
  /\ up /\ WikiJob(j, w)
  /\ \E d \in CutShort(j, w) : wiki' = [wiki EXCEPT ![w] = d]
  /\ Ends(j, "error")
  /\ Returns(j)
  /\ UNCHANGED <<up, provider, legacy, export, views, authFile, service, lost>>
-----------------------------------------------------------------------------
(* A training export: everything is analysed in memory, then the files are written. *)

NoManifest == [intervals |-> 0, got |-> {}, sized |-> FALSE]
EmptyExport == [files |-> <<>>, manifest |-> NoManifest]

\* The first k files of the export, each holding the episodes of the intervals in got.
Artifacts(k, got) == [f \in {Formats[i] : i \in 1 .. k} |-> got]
\* All of them and the manifest, which is written twice: first with 0 for its own size among the
\* artifacts, and again when that has been measured.
Complete(got, sized) == [files |-> Artifacts(Len(Formats), got),
                         manifest |-> [intervals |-> Intervals, got |-> got, sized |-> sized]]

ExportStatus(e) ==
  LET key == ExportKey(e)
  IN  IF \E j \in ByKey(key) : jobs[j].state = "error" THEN "error"
      ELSE IF Active(key) # {} THEN "generating"
      ELSE IF export[e].manifest # NoManifest THEN "ready" ELSE "absent"

\* startTrainingExport: the id is new.
StartExport(e) == /\ up /\ provider = "codex"
                  /\ e \notin asked
                  /\ Started(ExportKey(e))
                  /\ asked' = asked \union {e}
                  /\ UNCHANGED <<up, provider, store, page, replies, login>>

\* One interval is over, with episodes or skipped: the next one, or the files.
Analysed(j, e, got) ==
  IF jobs[j].n + 1 < Intervals
  THEN /\ jobs' = [jobs EXCEPT ![j] = [@ EXCEPT !.n = jobs[j].n + 1, !.got = got, !.at = "snapshot"]]
       /\ UNCHANGED export
  ELSE /\ Ends(j, "done")
       /\ export' = [export EXCEPT ![e] = Complete(got, TRUE)]

\* The comparison of the interval is there (or failed: the commit is skipped).
Compared(j, e) ==
  /\ up /\ ExportJob(j, e) /\ jobs[j].at = "snapshot"
  /\ \/ Analysed(j, e, jobs[j].got) /\ UNCHANGED borrow
     \/ /\ jobs' = [jobs EXCEPT ![j].at = "model"]
        /\ Calls(j)
        /\ UNCHANGED export
  /\ UNCHANGED <<up, provider, wiki, legacy, views, authFile, service, lost>>

\* What may have been found when the interval at hand is over: only a model's answer adds slices,
\* and none if it is invalid.
Found(j) == {jobs[j].got} \union (IF jobs[j].at = "model" THEN {jobs[j].got \union {jobs[j].n + 1}} ELSE {})

\* The model answered: valid slices, or the commit is skipped as invalid.
Reviewed(j, e) ==
  /\ up /\ ExportJob(j, e) /\ jobs[j].at = "model" /\ MayAnswer(j)
  /\ \E got \in Found(j) : Analysed(j, e, got)
  /\ Returns(j)
  /\ UNCHANGED <<up, provider, wiki, legacy, views, authFile, service, lost>>

\* The login or the model failed: the whole export does, with all that was analysed.
ReviewFails(j, e) ==
  /\ up /\ ExportJob(j, e) /\ jobs[j].at = "model" /\ CallOver(j)
  /\ Ends(j, "error")
  /\ Returns(j)
  /\ UNCHANGED <<up, provider, store, views, authFile, service, lost>>

\* The files of e that the last step of j may have written when it is cut short: some of the
\* artifacts, or all of them and the first of the two manifests.
CutShortExport(j, e) ==
  IF jobs[j].n + 1 = Intervals /\ (jobs[j].at = "model" => MayAnswer(j))
  THEN {[export[e] EXCEPT !.files = Artifacts(k, got)] : k \in 0 .. Len(Formats), got \in Found(j)}
         \union {Complete(got, FALSE) : got \in Found(j)}
  ELSE {}

\* A write fails, or the measuring of the first manifest: what was written stays, and the job ends
\* in an error.
ExportWriteFails(j, e) ==
  /\ up /\ ExportJob(j, e)
  /\ \E d \in CutShortExport(j, e) : export' = [export EXCEPT ![e] = d]
  /\ Ends(j, "error")
  /\ Returns(j)
  /\ UNCHANGED <<up, provider, wiki, legacy, views, authFile, service, lost>>
-----------------------------------------------------------------------------
(* The process is killed, between two steps or in the middle of one, and started again. *)

Kill ==
  /\ up
  /\ \/ UNCHANGED store
     \/ \E w \in Wikis : \E j \in Active(WikiKey(w)) : \E d \in CutShort(j, w) :
          wiki' = [wiki EXCEPT ![w] = d] /\ UNCHANGED <<legacy, export>>
     \/ \E e \in Exports : \E j \in Active(ExportKey(e)) : \E d \in CutShortExport(j, e) :
          export' = [export EXCEPT ![e] = d] /\ UNCHANGED <<wiki, legacy>>
  /\ up' = FALSE
  /\ jobs' = [j \in DOMAIN jobs |-> Gone]
  /\ Login!Abandon
  /\ UNCHANGED <<provider, views>>

Restart == /\ ~up
           /\ up' = TRUE
           /\ UNCHANGED <<provider, jobs, store, views, login>>
-----------------------------------------------------------------------------
(* The web application. *)

\* refreshStatus: a request now; its reply arrives at any later time, in any order.
Ask(w) == /\ up
          /\ replies' = [replies EXCEPT ![w] = @ \union {WikiStatus(w)}]
          /\ UNCHANGED <<up, provider, jobs, store, page, asked, login>>

\* The page asks when it opens and, every two seconds, while it shows "generating".
PageAsks(w) == page[w] \in {"none", "generating"} /\ Ask(w)

\* handleGenerate asks once more, so a reply of before may arrive after its own.
PageAsksAgain(w) == page[w] = "absent" /\ WikiStatus(w) # "absent" /\ Ask(w)

PageShows(w, s) == /\ s \in replies[w]
                   /\ page' = [page EXCEPT ![w] = s]
                   /\ replies' = [replies EXCEPT ![w] = @ \ {s}]
                   /\ UNCHANGED <<up, provider, jobs, store, asked, login>>
-----------------------------------------------------------------------------
Init == /\ up = TRUE
        /\ provider \in {"none", "codex"}
        /\ jobs = <<>>
        /\ wiki = [w \in Wikis |-> EmptyWiki]
        /\ legacy \in BOOLEAN
        /\ export = [e \in Exports |-> EmptyExport]
        /\ page = [w \in Wikis |-> "none"]
        /\ replies = [w \in Wikis |-> {}]
        /\ asked = {}
        /\ Login!CredInit

WikiStep(j, w) == PlanWiki(j, w) \/ WritePage(j, w) \/ WikiWriteFails(j, w)
ExportStep(j, e) == Compared(j, e) \/ Reviewed(j, e) \/ ReviewFails(j, e) \/ ExportWriteFails(j, e)

JobStep(j) == /\ Running(j)
              /\ \/ SnapshotFails(j)
                 \/ \E w \in Wikis : WikiStep(j, w)
                 \/ \E e \in Exports : ExportStep(j, e)

Next == \/ \E j \in JobIds : JobStep(j) \/ CredentialStep(j) \/ Evict(j)
        \/ \E w \in Wikis : StartWiki(w) \/ PageAsks(w) \/ PageAsksAgain(w)
        \/ \E w \in Wikis, s \in {"absent", "generating", "ready"} : PageShows(w, s)
        \/ \E e \in Exports : StartExport(e)
        \/ \E p \in {"none", "codex"} : SetProvider(p)
        \/ TokenExpires \/ Kill \/ Restart

\* Every await of a job ends: snapshots and model calls have timeouts.  The pages poll on a timer,
\* and every reply that ends the polling arrives.  Nothing is assumed of the user, of kills or of restarts.
Fairness ==
  /\ \A j \in JobIds : WF_vars(JobStep(j) \/ CredentialStep(j))
  /\ \A w \in Wikis : WF_vars(PageAsks(w))
  /\ \A w \in Wikis, s \in {"absent", "ready"} : WF_vars(PageShows(w, s))

Spec == Init /\ [][Next]_vars /\ Fairness
-----------------------------------------------------------------------------
Statuses == {"none", "absent", "generating", "ready"}

TypeOK ==
  /\ up \in BOOLEAN /\ provider \in {"none", "codex"}
  /\ Len(jobs) <= MaxJobs
  /\ \A j \in Kept : jobs[j] \in Job
  /\ wiki \in [Wikis -> [toc: [by: Nat, sections: {<<>>} \union Plans],
                         pages: [Sections -> 0 .. MaxJobs], meta: 0 .. MaxJobs]]
  /\ legacy \in BOOLEAN
  /\ \A e \in Exports : DOMAIN export[e].files \subseteq Range(Formats)
  /\ page \in [Wikis -> Statuses]
  /\ replies \in [Wikis -> SUBSET Statuses]
  /\ asked \subseteq Exports
  /\ Login!CredTypeOK

(***************************************************************************)
(* "Dedupe key - one active job per key" (jobs/index.ts:17), across any    *)
(* number of starts, failures, evictions and restarts.                     *)
(***************************************************************************)
OneActivePerKey == \A i, j \in Kept : Running(i) /\ Running(j) /\ jobs[i].key = jobs[j].key => i = j

(***************************************************************************)
(* A wiki with its marker is whole and of one piece: every section its     *)
(* table of contents lists has a page, written by the generation that      *)
(* wrote the table and the marker - not a page left by an earlier          *)
(* generation that was killed or failed and planned other sections.        *)
(***************************************************************************)
ReadyIsWhole ==
  \A w \in Wikis : wiki[w].meta # None =>
    /\ wiki[w].toc.by = wiki[w].meta
    /\ \A s \in Range(wiki[w].toc.sections) : wiki[w].pages[s] = wiki[w].meta

(***************************************************************************)
(* The manifest of an export says what the files beside it hold: every     *)
(* requested format is there, with the episodes of the whole range.        *)
(***************************************************************************)
ExportIsWhole ==
  \A e \in Exports : export[e].manifest # NoManifest =>
    /\ export[e].manifest.intervals = Intervals
    /\ export[e].files = Artifacts(Len(Formats), export[e].manifest.got)

(***************************************************************************)
(* A page that shows "ready" can load what it shows, however late or out   *)
(* of order the replies it acted on were, and whatever became of the       *)
(* server in between.                                                      *)
(***************************************************************************)
ShownIsServed == \A w \in Wikis : page[w] = "ready" => OnDisk(w)

(***************************************************************************)
(* A job is done only when the second manifest, with its own size, is      *)
(* written: an export that was cut short before is never told as done.     *)
(***************************************************************************)
DoneIsSized ==
  \A e \in Exports : \A j \in ByKey(ExportKey(e)) : jobs[j].state = "done" => export[e].manifest.sized

(***************************************************************************)
(* What the status endpoints once answered stands: a ready wiki or export  *)
(* stays ready, through regenerations, evictions and restarts, and an      *)
(* export that was asked for and is absent stays absent.                   *)
(*                                                                         *)
(* An export that failed is told so while its job is remembered.  It may   *)
(* be ready afterwards, but only where what failed came after the first of *)
(* the two writes of its manifest (training.ts:481): it is whole then, and *)
(* its manifest gives 0 as its own size.                                   *)
(***************************************************************************)
OutcomeStands ==
  [][/\ \A w \in Wikis : WikiStatus(w) = "ready" => WikiStatus(w)' = "ready"
     /\ \A e \in Exports :
          /\ ExportStatus(e) = "ready" => ExportStatus(e)' = "ready"
          /\ ExportStatus(e) = "absent" /\ e \in asked => ExportStatus(e)' = "absent"
          /\ ExportStatus(e) = "error" =>
               \/ ExportStatus(e)' \in {"error", "absent"}
               \/ ExportStatus(e)' = "ready" /\ ~export'[e].manifest.sized]_vars

TokenIsKept == Login!TokenIsKept

(***************************************************************************)
(* Nobody waits for ever: a page that shows "generating" comes to show     *)
(* something else unless the server is gone, and an export that is told to *)
(* be generating is told something else in the end.                        *)
(***************************************************************************)
WaitingEnds ==
  /\ \A w \in Wikis : page[w] = "generating" ~> page[w] # "generating" \/ ~up
  /\ \A e \in Exports : ExportStatus(e) = "generating" ~> ExportStatus(e) # "generating"

(***************************************************************************)
(* The jobs of the server and what they leave on disk: one active job to a *)
(* key, a whole wiki behind its marker, a whole export behind its          *)
(* manifest, whichever of the two it is, and pages that show only what is  *)
(* there.                                                                  *)
(***************************************************************************)
JobsInv == TypeOK /\ OneActivePerKey /\ ReadyIsWhole /\ ExportIsWhole /\ DoneIsSized /\ ShownIsServed
=============================================================================

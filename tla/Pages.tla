------------------------------- MODULE Pages -------------------------------
(***************************************************************************)
(* The pages of the web application (src/apps/web/src): the gate that      *)
(* waits for the server, and one page at a time that asks it for commits,  *)
(* comparisons, graphs, traces, exports and wiki pages.                    *)
(*                                                                         *)
(* A page is its React state.  What the user does and what the server      *)
(* answers are actions; an effect is an action too and runs when what it   *)
(* depends on has changed, before anything else happens.  Answers come in  *)
(* any order and any of them may be a failure.  A handler that its cleanup *)
(* cancels takes its call with it; any other handler runs whatever has     *)
(* happened since, and st.over remembers that one ran after a later event  *)
(* had set the same state.                                                 *)
(*                                                                         *)
(* There is one repository.  Left out: the General settings, the sections  *)
(* of a wiki, the modes and filters of an export, the options of a trace   *)
(* and of a provider, what the server still does for a page that is left,  *)
(* and storage of the browser that is full.  A symbol that is typed is     *)
(* typed and applied at once.  What the pages draw is left out, the        *)
(* conditions under which they draw it are the guards of the actions.      *)
(***************************************************************************)
EXTENDS Integers, Sequences, FiniteSets, SequencesExt

CONSTANTS
    Log,        \* [branch -> its commits, the newest first]
    Default,    \* the default branch
    Focuses,    \* symbols that a panorama may be rooted at
    Files, Questions, Kinds,
    Opened,     \* the [page, url] that a session may begin with
    MaxProbes,  \* MAX_ATTEMPTS
    MaxActs,    \* what a user does in a behaviour
    MaxCalls,   \* calls in flight when the user acts
    None

VARIABLES
    gate,    \* ServerBootGate
    page,    \* the route
    url,     \* its search parameters
    st,      \* the state of the page
    calls,   \* in flight, in the order of their requests
    kept,    \* the trace of sessionStorage
    chats,   \* the chats of sessionStorage, by commit
    server,  \* its wikis by commit, its exports, its provider
    acts     \* what the user may still do

pageVars == <<gate, page, url, st, calls, kept, chats, server, acts>>

Commits == UNION {ToSet(Log[b]) : b \in DOMAIN Log}
Position(list, c) == IF c \in ToSet(list) THEN CHOOSE i \in DOMAIN list : list[i] = c ELSE 0
At(list, i) == IF i \in DOMAIN list THEN list[i] ELSE None
Some(a, b) == IF a = None THEN b ELSE a
Of(branch) == IF branch = None THEN <<>> ELSE Log[branch]
-----------------------------------------------------------------------------
(* Calls.                                                                  *)

Call(kind, arg) == [kind |-> kind, arg |-> arg, live |-> TRUE, passed |-> FALSE]
Ask(s, kind, arg) == Append(s, Call(kind, arg))

\* What sets the state that the calls of these kinds would set.
Overtake(s, kinds) == [i \in DOMAIN s |-> IF s[i].kind \in kinds THEN [s[i] EXCEPT !.passed = TRUE] ELSE s[i]]

\* Without the cleanup.
Cancel_Not(s, kind) == s
\* A cleanup: let cancelled = true.
Cancel(s, kind) == SelectSeq(s, LAMBDA c : c.kind # kind)

\* An answer to the i-th, which overtakes the earlier ones of its kind.
Rest(i) ==
    RemoveAt([j \in DOMAIN calls |->
                IF j < i /\ calls[j].kind = calls[i].kind THEN [calls[j] EXCEPT !.passed = TRUE] ELSE calls[j]], i)

InFlight(kinds) == \E i \in DOMAIN calls : calls[i].live /\ calls[i].kind \in kinds

\* The handlers that do more than set the state of their page.
Probes == {"probe", "retry"}
Unmounted(s) ==
    LET own == SelectSeq(s, LAMBDA c : c.kind \in Probes \union {"trace", "ask", "import"})
    IN [i \in DOMAIN own |-> [own[i] EXCEPT !.live = @ /\ own[i].kind \in Probes]]
-----------------------------------------------------------------------------
(* The drill-down (panorama-focus.ts); None is the overview.               *)

Popped(stack, root) == [stack |-> Front(stack), root |-> Last(stack)]

Trail(stack, root) ==
    LET symbols == SelectSeq(stack, LAMBDA r : r # None)
    IN IF root = None \/ (symbols # <<>> /\ Last(symbols) = root) THEN symbols ELSE Append(symbols, root)

\* parseFocusPathParam.
Parsed(focus) ==
    IF focus = <<>> THEN [stack |-> <<>>, root |-> None]
    ELSE [stack |-> <<None>> \o Front(focus), root |-> Last(focus)]

\* focusAtTrailIndex: the overview is 0.
Jump(stack, root, i) ==
    IF i = 0 THEN [stack |-> <<>>, root |-> None] ELSE Parsed(SubSeq(Trail(stack, root), 1, i))
-----------------------------------------------------------------------------
(* What a page begins with, and what it asks for at once.                  *)

Url == [base |-> None, head |-> None, commit |-> None, branch |-> None, focus |-> <<>>, depth |-> 3, candidate |-> None]

Blank(p, u) ==
    CASE p = "import" -> [over |-> FALSE, loading |-> FALSE, error |-> FALSE, seen |-> <<>>]
      [] p = "timeline" ->
            [over |-> FALSE, loading |-> TRUE, error |-> FALSE, branch |-> None, list |-> None, selected |-> None,
             asked |-> None, seen |-> [list |-> <<>>]]
      [] p = "delta" ->
            [over |-> FALSE, loading |-> FALSE, error |-> FALSE, tab |-> "files", base |-> u.base, head |-> u.head,
             before |-> u, key |-> <<>>, result |-> None, root |-> None, stack |-> <<>>, graph |-> None, drawing |-> FALSE,
             file |-> None, diff |-> None, fetching |-> FALSE, seen |-> [url |-> <<>>, graph |-> <<>>]]
      [] p = "panorama" ->
            [over |-> FALSE, loading |-> FALSE, error |-> FALSE, branches |-> FALSE, branch |-> None, list |-> None,
             commit |-> None, root |-> Parsed(u.focus).root, stack |-> Parsed(u.focus).stack, graph |-> None,
             labels |-> None, enriching |-> FALSE, stuck |-> FALSE, key |-> <<>>, again |-> FALSE, before |-> u,
             seen |-> [list |-> <<>>, graph |-> <<>>]]
      [] p = "trace" ->
            [over |-> FALSE, loading |-> FALSE, error |-> FALSE, question |-> None, result |-> None,
             restored |-> FALSE, stray |-> FALSE, seen |-> [session |-> <<>>]]
      [] p = "training" ->
            [over |-> FALSE, loading |-> TRUE, error |-> FALSE, branch |-> None, list |-> None, base |-> None,
             head |-> None, export |-> None, status |-> None, files |-> None, running |-> FALSE,
             seen |-> [list |-> <<>>, files |-> <<>>]]
      [] p = "wiki" ->
            [over |-> FALSE, loading |-> FALSE, error |-> FALSE, commit |-> u.commit, listed |-> FALSE,
             status |-> None, toc |-> None,
             text |-> None, asking |-> FALSE, messages |-> <<>>, seen |-> [commit |-> <<>>, text |-> <<>>]]
      [] p = "provider" ->
            [over |-> FALSE, loading |-> FALSE, error |-> FALSE, config |-> "none", codex |-> None, saved |-> FALSE,
             edited |-> FALSE, seen |-> [codex |-> <<>>]]

Requests(p, u) ==
    IF p \in {"timeline", "training", "wiki", "panorama", "provider"} THEN <<Call("load", u)>> ELSE <<>>

Mount(p, u, s) == page' = p /\ url' = u /\ st' = Blank(p, u) /\ calls' = Unmounted(s) \o Requests(p, u)

\* What each effect of the page depends on.
Deps ==
    CASE page = "import" -> <<>>
      [] page = "timeline" -> [list |-> <<st.branch, st.loading>>]
      [] page = "delta" ->
            [url |-> <<url.base, url.head>>,
             graph |-> <<st.tab, st.result, st.graph, st.drawing, st.root, st.base, st.head>>]
      [] page = "panorama" ->
            [list |-> <<st.branch>>,
             graph |-> <<st.branch, st.list, url.commit, url.head, url.focus, url.depth, st.again>>]
      [] page = "trace" -> [session |-> <<url.candidate>>]
      [] page = "training" ->
            [list |-> <<st.branch, st.loading>>,
             files |-> <<st.export, IF st.status = None THEN None ELSE st.status.state>>]
      [] page = "wiki" -> [commit |-> <<st.commit>>, text |-> <<st.commit, st.toc>>]
      [] page = "provider" -> [codex |-> <<st.config, st.saved>>]

\* A branch of the URL that the panorama is not at.
OtherBranch == page = "panorama" /\ st.branches /\ url.branch \in DOMAIN Log /\ url.branch # st.branch

Mounted == gate.state = "ready"
Settled == st.seen = Deps /\ ~OtherBranch
Calm == Mounted => Settled
Due(p, effect) == Mounted /\ page = p /\ st.seen[effect] # Deps[effect]

\* The user acts on the page as it is drawn.
Act(p) == Mounted /\ page = p /\ Settled /\ acts > 0 /\ acts' = acts - 1
Room == Len(calls) < MaxCalls

\* An answer to the page on view.
Answer(p, kind, i) == Mounted /\ page = p /\ Settled /\ calls[i].kind = kind /\ calls[i].live
Stale(i) == st.over \/ calls[i].passed
-----------------------------------------------------------------------------
(* The gate: ServerBootGate.tsx.                                           *)

PagesInit ==
    /\ \E o \in Opened : page = o.page /\ url = o.url /\ st = Blank(o.page, o.url)
    /\ gate = [state |-> "waiting", timer |-> None]
    /\ calls = <<Call("probe", 0)>>
    /\ kept = None /\ chats = [c \in Commits |-> <<>>]
    /\ server = [wiki |-> [c \in Commits |-> "absent"], exports |-> <<>>, provider |-> "none"]
    /\ acts = MaxActs

\* The cleanup of the effect that polls.
Silenced(s) == [i \in DOMAIN s |-> IF s[i].kind = "probe" THEN [s[i] EXCEPT !.live = FALSE] ELSE s[i]]

Ready(s) ==
    /\ gate' = [state |-> "ready", timer |-> None]
    /\ IF Mounted THEN calls' = s /\ UNCHANGED <<page, url, st>> ELSE Mount(page, url, Silenced(s))

Failed(s) ==
    /\ gate' = [state |-> "failed", timer |-> None]
    /\ calls' = Silenced(Unmounted(s))
    /\ UNCHANGED <<page, url, st>>

\* poll() sets the state even when the run that called it is cancelled.
ProbeAnswered(i) ==
    /\ calls[i].kind = "probe"
    /\ \/ Ready(RemoveAt(calls, i))
       \/ IF ~calls[i].live THEN calls' = RemoveAt(calls, i) /\ UNCHANGED <<gate, page, url, st>>
          ELSE IF calls[i].arg >= MaxProbes THEN Failed(RemoveAt(calls, i))
          ELSE /\ gate' = [gate EXCEPT !.timer = calls[i].arg + 1] /\ calls' = RemoveAt(calls, i)
               /\ UNCHANGED <<page, url, st>>
    /\ UNCHANGED <<kept, chats, server, acts>>

ProbeAgain ==
    /\ gate.timer # None
    /\ calls' = Ask(calls, "probe", gate.timer) /\ gate' = [gate EXCEPT !.timer = None]
    /\ UNCHANGED <<page, url, st, kept, chats, server, acts>>

\* retry() polls beside the effect that its setState starts again.
Retry ==
    /\ gate.state = "failed" /\ acts > 0 /\ acts' = acts - 1
    /\ gate' = [gate EXCEPT !.state = "waiting"]
    /\ calls' = Ask(Ask(calls, "retry", None), "probe", 0)
    /\ UNCHANGED <<page, url, st, kept, chats, server>>

RetryAnswered(i) ==
    /\ calls[i].kind = "retry"
    /\ \/ Ready(RemoveAt(calls, i))
       \/ Failed(RemoveAt(calls, i))
    /\ UNCHANGED <<kept, chats, server, acts>>
-----------------------------------------------------------------------------
(* Routes.  A link of the shell leads to a page without parameters.        *)

\* The history of the browser has the parameters that others take the place of.
Departing(u, s) == [s EXCEPT !.before = IF u = url THEN @ ELSE url]

Go(p) ==
    /\ Mounted /\ acts > 0 /\ acts' = acts - 1 /\ p # page
    /\ Mount(p, Url, calls)
    /\ UNCHANGED <<gate, kept, chats, server>>

\* The link to the page on view leaves its state alone.
Renew ==
    /\ Mounted /\ Settled /\ page \in {"delta", "panorama", "trace"} /\ url # Url /\ Room
    /\ acts > 0 /\ acts' = acts - 1
    /\ url' = Url /\ st' = IF page = "trace" THEN st ELSE Departing(Url, st)
    /\ UNCHANGED <<gate, page, calls, kept, chats, server>>

\* navigate(..) of a handler, with parameters.
Open(p, u) == Mount(p, u, calls) /\ UNCHANGED <<gate, chats, server>>

\* Back and Forward of the browser, on one page.
Return ==
    /\ Mounted /\ Settled /\ page \in {"delta", "panorama"} /\ st.before # url /\ Room
    /\ acts > 0 /\ acts' = acts - 1
    /\ url' = st.before /\ st' = [st EXCEPT !.before = url]
    /\ UNCHANGED <<gate, page, calls, kept, chats, server>>

Import ==
    /\ Act("import") /\ ~st.loading
    /\ st' = [st EXCEPT !.loading = TRUE, !.error = FALSE]
    /\ calls' = Ask(calls, "import", None)
    /\ UNCHANGED <<gate, page, url, kept, chats, server>>

\* It navigates even when the user has gone elsewhere, or the gate has closed.
Imported(i) ==
    /\ calls[i].kind = "import" /\ Calm
    /\ \/ /\ page # "timeline"
          /\ page' = "timeline" /\ url' = Url /\ st' = Blank("timeline", Url)
          /\ calls' = Unmounted(RemoveAt(calls, i)) \o (IF Mounted THEN Requests("timeline", Url) ELSE <<>>)
       \/ page = "timeline" /\ calls' = Rest(i) /\ UNCHANGED <<page, url, st>>
       \/ /\ st' = IF calls[i].live THEN [st EXCEPT !.loading = FALSE, !.error = TRUE] ELSE st
          /\ calls' = Rest(i) /\ UNCHANGED <<page, url>>
    /\ UNCHANGED <<gate, kept, chats, server, acts>>
-----------------------------------------------------------------------------
(* The timeline: TimelinePage.tsx.                                         *)

Quiet == <<gate, page, url, kept, chats, server>>

\* load(): the branch of the URL is asked for even when the repository has
\* another one on view.
TimelineLoaded(i) ==
    /\ Answer("timeline", "load", i)
    /\ LET wanted == Some(calls[i].arg.branch, Default)
       IN \/ /\ st' = [st EXCEPT !.branch = IF wanted \in DOMAIN Log THEN wanted ELSE Default]
             /\ calls' = Ask(Rest(i), "list", [branch |-> wanted, first |-> TRUE])
          \/ st' = [st EXCEPT !.error = TRUE, !.loading = FALSE] /\ calls' = Rest(i)
    /\ UNCHANGED <<Quiet, acts>>

TimelineEffect ==
    /\ Due("timeline", "list")
    /\ st' = [st EXCEPT !.seen.list = Deps.list]
    /\ calls' = IF st.branch = None \/ st.loading THEN calls
                ELSE Ask(calls, "list", [branch |-> st.branch, first |-> FALSE])
    /\ UNCHANGED <<Quiet, acts>>

TimelineListed(i) ==
    /\ Answer("timeline", "list", i)
    /\ \E ok \in IF calls[i].arg.branch \in DOMAIN Log THEN BOOLEAN ELSE {FALSE} :
         st' = [st EXCEPT !.list = IF ok THEN calls[i].arg.branch ELSE @, !.error = @ \/ ~ok,
                          !.loading = @ /\ ~calls[i].arg.first, !.over = Stale(i)]
    /\ calls' = Rest(i)
    /\ UNCHANGED <<Quiet, acts>>

TimelineBranch(b) ==
    /\ Act("timeline") /\ ~st.loading /\ ~st.error /\ b # st.branch
    /\ st' = [st EXCEPT !.branch = b]
    /\ UNCHANGED <<Quiet, calls>>

SelectCommit(c) ==
    /\ Act("timeline") /\ ~st.loading /\ ~st.error /\ c \in ToSet(Of(st.list)) /\ Room
    /\ calls' = Ask(calls, "commit", c) /\ st' = [st EXCEPT !.asked = c]
    /\ UNCHANGED Quiet

CommitShown(i) ==
    /\ Answer("timeline", "commit", i)
    /\ \/ st' = [st EXCEPT !.selected = calls[i].arg, !.over = Stale(i)]
       \/ st' = [st EXCEPT !.error = TRUE]
    /\ calls' = Rest(i)
    /\ UNCHANGED <<Quiet, acts>>

\* Of the selected commit: its comparison with its parent, its graph, the
\* question that introduced it.
Parent(c) == CHOOSE p \in Commits \union {None} :
               \E b \in DOMAIN Log : c \in ToSet(Log[b]) /\ p = At(Log[b], Position(Log[b], c) + 1)

OpenFromTimeline ==
    /\ Act("timeline") /\ ~st.loading /\ ~st.error /\ st.selected # None
    /\ \/ Parent(st.selected) # None
          /\ Open("delta", [Url EXCEPT !.base = Parent(st.selected), !.head = st.selected])
       \/ Open("panorama", [Url EXCEPT !.commit = st.selected, !.branch = st.branch])
       \/ Open("trace", [Url EXCEPT !.candidate = st.selected])
    /\ UNCHANGED kept
-----------------------------------------------------------------------------
(* The comparison: DeltaViewPage.tsx.                                      *)

\* The URL drives the comparisons; one key is not asked for twice in a row.
UrlEffect ==
    /\ Due("delta", "url")
    /\ LET older == Some(url.base, st.base)
           newer == Some(url.head, st.head)
           new == url.base # None /\ url.head # None /\ st.key # <<url.base, url.head>>
       IN /\ st' = [st EXCEPT !.seen.url = Deps.url, !.base = older, !.head = newer,
                              !.key = IF new THEN <<url.base, url.head>> ELSE @,
                              !.loading = @ \/ new, !.error = @ /\ ~new]
          /\ calls' = IF new THEN Ask(calls, "compare", <<url.base, url.head>>) ELSE calls
    /\ UNCHANGED <<Quiet, acts>>

\* The graph tab asks when there is no graph; after a failure it asks again.
GraphEffect ==
    /\ Due("delta", "graph") /\ ~Due("delta", "url")
    /\ LET new == /\ st.tab = "graph" /\ st.result # None /\ st.graph = None /\ ~st.drawing
                  /\ st.base # None /\ st.head # None
       IN /\ st' = [st EXCEPT !.seen.graph = Deps.graph, !.drawing = @ \/ new]
          /\ calls' = IF new THEN Ask(calls, "draw", [base |-> st.base, head |-> st.head, root |-> st.root]) ELSE calls
    /\ UNCHANGED <<Quiet, acts>>

\* The boxes offer the default branch, on the right side of the other end.
SelectBase(c) ==
    /\ Act("delta") /\ c # st.base
    /\ c = None \/ Position(Log[Default], c) > Position(Log[Default], st.head)
    /\ st' = [st EXCEPT !.base = c]
    /\ UNCHANGED <<Quiet, calls>>

SelectHead(c) ==
    /\ Act("delta") /\ c # st.head
    /\ \/ c = None
       \/ /\ c \in ToSet(Log[Default])
          /\ st.base \in ToSet(Log[Default]) => Position(Log[Default], c) < Position(Log[Default], st.base)
    /\ st' = [st EXCEPT !.head = c]
    /\ UNCHANGED <<Quiet, calls>>

RunCompare ==
    /\ Act("delta") /\ ~st.loading /\ st.base # None /\ st.head # None /\ Room
    /\ IF <<url.base, url.head>> = <<st.base, st.head>>
       THEN /\ st' = [st EXCEPT !.key = <<st.base, st.head>>, !.loading = TRUE, !.error = FALSE]
            /\ calls' = Ask(calls, "compare", <<st.base, st.head>>) /\ UNCHANGED url
       ELSE /\ url' = [Url EXCEPT !.base = st.base, !.head = st.head]
            /\ st' = [st EXCEPT !.before = url] /\ UNCHANGED calls
    /\ UNCHANGED <<gate, page, kept, chats, server>>

\* A comparison takes the graph with it.
Compared(i) ==
    /\ Answer("delta", "compare", i)
    /\ \/ /\ st' = [st EXCEPT !.result = calls[i].arg, !.tab = "files", !.graph = None, !.root = None, !.stack = <<>>,
                                !.loading = FALSE, !.over = Stale(i)]
          /\ calls' = Overtake(Rest(i), {"draw"})
       \/ /\ st' = [st EXCEPT !.result = None, !.error = TRUE, !.loading = FALSE, !.over = Stale(i)]
          /\ calls' = Rest(i)
    /\ UNCHANGED <<Quiet, acts>>

ShowTab(t) ==
    /\ Act("delta") /\ st.result # None /\ t # st.tab
    /\ st' = [st EXCEPT !.tab = t]
    /\ UNCHANGED <<Quiet, calls>>

\* loadPanorama(asked), which is for the select boxes.
Refocus(to, asked) ==
    /\ Act("delta") /\ st.tab = "graph" /\ st.result # None /\ st.graph # None /\ ~st.drawing /\ Room
    /\ st' = [st EXCEPT !.stack = to.stack, !.root = to.root, !.drawing = TRUE]
    /\ calls' = Ask(calls, "draw", [base |-> st.base, head |-> st.head, root |-> asked])
    /\ UNCHANGED Quiet

Expand(r) == Refocus([stack |-> Append(st.stack, st.root), root |-> r], r)

\* popped.root || undefined: back at the overview the root that is left is
\* asked for again.
GoBack ==
    /\ page = "delta" /\ st.stack # <<>>
    /\ LET to == Popped(st.stack, st.root) IN Refocus(to, Some(to.root, st.root))
Overview == page = "delta" /\ st.root # None /\ Refocus([stack |-> <<>>, root |-> None], None)
SelectTrail(i) ==
    /\ page = "delta" /\ i < Len(Trail(st.stack, st.root))
    /\ LET to == Jump(st.stack, st.root, i) IN Refocus(to, Some(to.root, st.root))

\* Without the finally block: a failure leaves the spinner.
Drawn_Failed(i) ==
    /\ Answer("delta", "draw", i)
    /\ \/ st' = [st EXCEPT !.graph = calls[i].arg, !.drawing = FALSE, !.over = Stale(i)]
       \/ st' = [st EXCEPT !.graph = None, !.over = Stale(i)]
    /\ calls' = Rest(i)
    /\ UNCHANGED <<Quiet, acts>>

Drawn(i) ==
    /\ Answer("delta", "draw", i)
    /\ \/ st' = [st EXCEPT !.graph = calls[i].arg, !.drawing = FALSE, !.over = Stale(i)]
       \/ st' = [st EXCEPT !.graph = None, !.drawing = FALSE, !.over = Stale(i)]
    /\ calls' = Rest(i)
    /\ UNCHANGED <<Quiet, acts>>

\* The links to the whole panorama, of the commit or of the focus on view.
OpenFromDelta ==
    /\ Act("delta") /\ st.tab = "graph" /\ st.result # None /\ st.head # None
    /\ \/ Open("panorama", [Url EXCEPT !.commit = st.head])
       \/ /\ st.graph # None /\ ~st.drawing
          /\ Open("panorama", [Url EXCEPT !.commit = st.head, !.branch = Default, !.focus = Trail(st.stack, st.root)])
    /\ UNCHANGED kept

OpenFileDiff(f) ==
    /\ Act("delta") /\ st.result # None /\ st.base # None /\ st.head # None /\ Room
    /\ st' = [st EXCEPT !.file = f, !.fetching = TRUE, !.diff = None]
    /\ calls' = Ask(Overtake(calls, {"diff"}), "diff", f)
    /\ UNCHANGED Quiet

DiffShown(i) ==
    /\ Answer("delta", "diff", i)
    /\ \E diff \in {calls[i].arg, st.diff} : st' = [st EXCEPT !.diff = diff, !.fetching = FALSE, !.over = Stale(i)]
    /\ calls' = Rest(i)
    /\ UNCHANGED <<Quiet, acts>>
-----------------------------------------------------------------------------
(* The trace: TraceViewPage.tsx and trace-cache.ts.                        *)

\* The last trace is restored unless it is too old; else the candidate of the
\* URL is the question.
Restore ==
    /\ Due("trace", "session")
    /\ \E young \in BOOLEAN :
         IF kept # None /\ young
         THEN /\ st' = [st EXCEPT !.seen.session = Deps.session, !.question = kept.question, !.result = kept.result,
                                  !.restored = TRUE]
              /\ UNCHANGED kept
         ELSE /\ st' = [st EXCEPT !.seen.session = Deps.session, !.question = Some(url.candidate, @),
                                  !.stray = @ \/ st.result # None]
              /\ kept' = None
    /\ UNCHANGED <<gate, page, url, calls, chats, server, acts>>

\* The question stands for all that the form says.
TypeQuestion(q) ==
    /\ Act("trace") /\ q # st.question
    /\ st' = [st EXCEPT !.question = q]
    /\ UNCHANGED <<Quiet, calls>>

RunTrace ==
    /\ Act("trace") /\ ~st.loading /\ st.question # None /\ Room
    /\ st' = [st EXCEPT !.loading = TRUE, !.error = FALSE, !.restored = FALSE]
    /\ calls' = Ask(calls, "trace", st.question)
    /\ UNCHANGED Quiet

\* persist and clearTraceSession act on the session whatever page is there.
Traced(i) ==
    /\ calls[i].kind = "trace" /\ Calm
    /\ LET q == calls[i].arg
           live == calls[i].live
           stray == page = "trace" /\ ~live
       IN \/ /\ kept' = [question |-> q, result |-> q]
             /\ st' = IF live THEN [st EXCEPT !.result = q, !.loading = FALSE]
                      ELSE IF stray THEN [st EXCEPT !.stray = TRUE] ELSE st
          \/ /\ kept' = None
             /\ st' = IF live THEN [st EXCEPT !.result = None, !.loading = FALSE, !.error = TRUE]
                      ELSE IF stray THEN [st EXCEPT !.stray = TRUE] ELSE st
    /\ calls' = Rest(i)
    /\ UNCHANGED <<gate, page, url, chats, server, acts>>

ClearResults ==
    /\ Act("trace") /\ st.result # None
    /\ st' = [st EXCEPT !.result = None, !.restored = FALSE] /\ kept' = None
    /\ UNCHANGED <<gate, page, url, calls, chats, server>>

\* The trace is saved with what the form says now.
OpenFromTrace(c) ==
    /\ Act("trace") /\ st.result # None /\ Parent(c) # None
    /\ kept' = [question |-> st.question, result |-> st.result]
    /\ \/ Open("delta", [Url EXCEPT !.base = Parent(c), !.head = c])
       \/ Open("panorama", [Url EXCEPT !.commit = c])
-----------------------------------------------------------------------------
(* The panorama: PanoramaPage.tsx.                                         *)

\* resolveCommitFromParams and the key of what the URL asks for.
CommitOf(u, list) == Some(u.commit, Some(u.head, At(Of(list), 1)))
KeyOf(u, list) == [commit |-> CommitOf(u, list), depth |-> u.depth, root |-> Parsed(u.focus).root, stack |-> Parsed(u.focus).stack]

PanoramaLoaded(i) ==
    /\ Answer("panorama", "load", i)
    /\ LET wanted == calls[i].arg.branch
       IN \/ st' = [st EXCEPT !.branches = TRUE, !.branch = IF wanted \in DOMAIN Log THEN wanted ELSE Default]
          \/ st' = st
    /\ calls' = Rest(i)
    /\ UNCHANGED <<Quiet, acts>>

ListEffect ==
    /\ Due("panorama", "list")
    /\ st' = [st EXCEPT !.seen.list = Deps.list]
    /\ calls' = IF st.branch = None THEN calls ELSE Ask(Cancel(calls, "list"), "list", [branch |-> st.branch, url |-> url])
    /\ UNCHANGED <<Quiet, acts>>

\* A commit of the URL stands, the head of one only if the branch has it.  The
\* parameters are those of the time of the request.
PanoramaListed(i) ==
    /\ Answer("panorama", "list", i)
    /\ LET then == calls[i].arg.url
           list == Log[calls[i].arg.branch]
           direct == Some(then.commit, then.head)
           resolved == IF direct # None /\ (then.commit # None \/ direct \in ToSet(list)) THEN direct ELSE At(list, 1)
           next == IF resolved \in {None, then.commit} THEN url ELSE [then EXCEPT !.commit = resolved]
       IN \/ st' = Departing(next, [st EXCEPT !.list = calls[i].arg.branch]) /\ url' = next
          \/ st' = [st EXCEPT !.list = None] /\ UNCHANGED url
    /\ calls' = Rest(i)
    /\ UNCHANGED <<gate, page, kept, chats, server, acts>>

BranchOfUrl ==
    /\ Mounted /\ OtherBranch
    /\ st' = [st EXCEPT !.branch = url.branch]
    /\ UNCHANGED <<Quiet, calls, acts>>

\* What was asked for before is cancelled, its spinner included; what is on
\* view already is not asked for again.
LoadEffect ==
    /\ Due("panorama", "graph") /\ ~Due("panorama", "list")
    /\ LET key == KeyOf(url, st.list)
           others == Cancel(calls, "draw")
       IN IF st.branch = None \/ st.list = None \/ key.commit = None \/ key = st.key
          THEN st' = [st EXCEPT !.seen.graph = Deps.graph, !.stuck = @ \/ InFlight({"draw"})] /\ calls' = others
          ELSE /\ st' = [st EXCEPT !.seen.graph = Deps.graph, !.commit = key.commit, !.root = key.root,
                                   !.stack = key.stack, !.loading = TRUE, !.error = FALSE, !.stuck = FALSE]
               /\ calls' = Ask(others, "draw", [key |-> key, url |-> url, branch |-> st.branch])
    /\ UNCHANGED <<Quiet, acts>>

PanoramaDrawn(i) ==
    /\ Answer("panorama", "draw", i)
    /\ LET a == calls[i].arg
           next == [a.url EXCEPT !.commit = a.key.commit, !.base = None, !.head = None, !.branch = a.branch,
                                 !.focus = Trail(a.key.stack, a.key.root)]
       IN \/ /\ st' = Departing(next, [st EXCEPT !.graph = [commit |-> a.key.commit, root |-> a.key.root, depth |-> a.key.depth],
                                                !.labels = None, !.key = a.key, !.loading = FALSE])
             /\ url' = next
             /\ calls' = Overtake(Rest(i), {"enrich"})
          \/ /\ st' = [st EXCEPT !.graph = None, !.labels = None, !.error = TRUE, !.loading = FALSE]
             /\ calls' = Overtake(Rest(i), {"enrich"}) /\ UNCHANGED url
    /\ UNCHANGED <<gate, page, kept, chats, server, acts>>

\* A handler forgets the key, so that what it asks for is loaded again.
Turn(u, s) == url' = u /\ st' = Departing(u, [s EXCEPT !.key = <<>>]) /\ UNCHANGED <<gate, page, kept, chats, server>>

ChooseBranch(b) ==
    /\ Act("panorama") /\ st.branch # None /\ b # st.branch
    /\ Turn([url EXCEPT !.branch = b, !.commit = None, !.focus = <<>>],
            [st EXCEPT !.branch = b, !.stack = <<>>, !.root = None, !.graph = None, !.labels = None])
    /\ calls' = Overtake(calls, {"enrich"})

ChooseCommit(c) ==
    /\ Act("panorama") /\ c # st.commit /\ c \in ToSet(Of(st.list)) \union {None}
    /\ Turn([url EXCEPT !.commit = c, !.focus = <<>>],
            [st EXCEPT !.stack = <<>>, !.root = None, !.graph = None, !.labels = None])
    /\ calls' = Overtake(calls, {"enrich"})

ChooseDepth(d) ==
    /\ Act("panorama") /\ d # url.depth
    /\ Turn([url EXCEPT !.depth = d], st)
    /\ UNCHANGED calls

\* navigateFocus.
Navigate(stack, root) ==
    /\ Act("panorama")
    /\ LET commit == CommitOf(url, st.list)
           s == [st EXCEPT !.stack = stack, !.root = root]
       IN Turn(IF commit = None THEN url
               ELSE [url EXCEPT !.commit = commit, !.base = None, !.head = None, !.branch = st.branch,
                                !.focus = Trail(stack, root)], s)
    /\ UNCHANGED calls

\* The picture can be used when it is drawn.
Drawing == st.graph = None \/ st.loading
Focus(r) ==
    /\ page = "panorama"
    /\ \/ ~Drawing /\ Navigate(Append(st.stack, st.root), r)
       \/ (~Drawing \/ (~st.loading /\ st.commit # None)) /\ Navigate(<<>>, r)
       \/ ~Drawing /\ st.stack # <<>> /\ LET to == Popped(st.stack, st.root) IN Navigate(to.stack, to.root)
       \/ ~Drawing /\ st.root # None /\ Navigate(<<>>, None)
       \/ /\ ~Drawing
          /\ \E i \in 0..Len(Trail(st.stack, st.root)) - 1 :
               LET to == Jump(st.stack, st.root, i) IN Navigate(to.stack, to.root)

\* The links to the comparison, with the parent and without.
OpenFromPanorama ==
    /\ Act("panorama") /\ st.commit # None
    /\ \E base \in {None, IF st.commit \in ToSet(Of(st.list)) THEN Parent(st.commit) ELSE None} :
         Open("delta", [Url EXCEPT !.base = base, !.head = st.commit])
    /\ UNCHANGED kept

Refresh ==
    /\ Act("panorama") /\ ~st.loading /\ st.commit # None /\ st.root = None
    /\ st' = [st EXCEPT !.key = <<>>, !.again = ~@]
    /\ UNCHANGED <<Quiet, calls>>

Enrich ==
    /\ Act("panorama") /\ ~Drawing /\ ~st.enriching /\ st.commit # None /\ Room
    /\ st' = [st EXCEPT !.enriching = TRUE] /\ calls' = Ask(calls, "enrich", st.commit)
    /\ UNCHANGED Quiet

Enriched(i) ==
    /\ Answer("panorama", "enrich", i)
    /\ \/ st' = [st EXCEPT !.labels = IF st.graph = None THEN None ELSE calls[i].arg, !.enriching = FALSE, !.over = Stale(i)]
       \/ st' = [st EXCEPT !.error = TRUE, !.enriching = FALSE]
    /\ calls' = Rest(i)
    /\ UNCHANGED <<Quiet, acts>>
-----------------------------------------------------------------------------
(* The exports: TrainingDataPage.tsx.                                      *)

TrainingLoaded(i) ==
    /\ Answer("training", "load", i)
    /\ \/ st' = [st EXCEPT !.branch = Default] /\ calls' = Ask(Rest(i), "list", [branch |-> Default, first |-> TRUE])
       \/ st' = [st EXCEPT !.error = TRUE, !.loading = FALSE] /\ calls' = Rest(i)
    /\ UNCHANGED <<Quiet, acts>>

CommitsEffect ==
    /\ Due("training", "list")
    /\ IF st.branch = None \/ st.loading
       THEN st' = [st EXCEPT !.seen.list = Deps.list] /\ UNCHANGED calls
       ELSE /\ st' = [st EXCEPT !.seen.list = Deps.list, !.base = None, !.head = None]
            /\ calls' = Ask(Overtake(calls, {"list"}), "list", [branch |-> st.branch, first |-> FALSE])
    /\ UNCHANGED <<Quiet, acts>>

\* loadCommits: the two newest are the range, unless there is one already.
TrainingListed(i) ==
    /\ Answer("training", "list", i)
    /\ LET a == calls[i].arg
           list == Log[a.branch]
       IN \/ st' = [st EXCEPT !.list = a.branch, !.head = Some(@, At(list, 1)), !.base = Some(@, At(list, 2)),
                              !.loading = @ /\ ~a.first, !.over = Stale(i)]
          \/ st' = [st EXCEPT !.error = TRUE, !.loading = @ /\ ~a.first]
    /\ calls' = Rest(i)
    /\ UNCHANGED <<Quiet, acts>>

TrainingBranch(b) ==
    /\ Act("training") /\ ~st.loading /\ st.branch # None /\ b # st.branch
    /\ st' = [st EXCEPT !.branch = b]
    /\ UNCHANGED <<Quiet, calls>>

\* A choice is of the commits on the right side of the other end; it moves the
\* other end when it is not.  findIndex is one less than Place.
SetBeforeCommit(c) ==
    /\ Act("training") /\ ~st.loading /\ c # st.base
    /\ LET list == Of(st.list)
           before == Position(list, c)
           after == Position(list, st.head)
       IN /\ c \in ToSet(list) /\ (after > 0 => before > after)
          /\ st' = [st EXCEPT !.base = c, !.head = IF after >= before THEN At(list, before - 1) ELSE @]
    /\ calls' = Overtake(calls, {"list"})
    /\ UNCHANGED Quiet

SetAfterCommit(c) ==
    /\ Act("training") /\ ~st.loading /\ c # st.head
    /\ LET list == Of(st.list)
           after == Position(list, c)
           before == Position(list, st.base)
       IN /\ c \in ToSet(list) /\ (before > 0 => after < before)
          /\ st' = [st EXCEPT !.head = c, !.base = IF before <= after THEN At(list, after + 1) ELSE @]
    /\ calls' = Overtake(calls, {"list"})
    /\ UNCHANGED Quiet

StartExport ==
    /\ Act("training") /\ ~st.loading /\ st.branch # None /\ ~st.running /\ Room
    /\ st' = [st EXCEPT !.error = FALSE, !.files = None, !.running = TRUE]
    /\ calls' = Ask(Overtake(calls, {"files"}), "start", None)
    /\ UNCHANGED Quiet

ExportStarted(i) ==
    /\ Answer("training", "start", i)
    /\ \/ LET id == Len(server.exports) + 1
          IN /\ server' = [server EXCEPT !.exports = Append(@, "generating")]
             /\ st' = [st EXCEPT !.export = id, !.status = [of |-> id, state |-> "generating"], !.over = @ \/ st.files # None]
             /\ calls' = Overtake(Rest(i), {"poll"})
       \/ st' = [st EXCEPT !.running = FALSE, !.error = TRUE] /\ calls' = Rest(i) /\ UNCHANGED server
    /\ UNCHANGED <<gate, page, url, kept, chats, acts>>

\* The interval asks every second, whether it has been answered or not.
Over(status) == status # None /\ status.state \in {"ready", "error"}
PollExport ==
    /\ Mounted /\ page = "training" /\ Settled /\ st.export # None /\ ~Over(st.status) /\ Room
    /\ calls' = Ask(calls, "poll", st.export)
    /\ UNCHANGED <<Quiet, st, acts>>

\* After a failure another export can be started beside this one.
Polled(i) ==
    /\ Answer("training", "poll", i)
    /\ LET next == [of |-> calls[i].arg, state |-> server.exports[calls[i].arg]]
       IN \/ st' = [st EXCEPT !.status = next, !.running = @ /\ ~Over(next), !.error = @ \/ next.state = "error",
                              !.over = Stale(i)]
          \/ st' = [st EXCEPT !.running = FALSE, !.error = TRUE, !.over = TRUE]
    /\ calls' = Rest(i)
    /\ UNCHANGED <<Quiet, acts>>

FilesEffect ==
    /\ Due("training", "files") /\ ~Due("training", "list")
    /\ st' = [st EXCEPT !.seen.files = Deps.files]
    /\ LET others == Cancel(calls, "files")
       IN calls' = IF st.export # None /\ st.status.state = "ready" THEN Ask(others, "files", st.export) ELSE others
    /\ UNCHANGED <<Quiet, acts>>

FilesListed(i) ==
    /\ Answer("training", "files", i)
    /\ \/ st' = [st EXCEPT !.files = calls[i].arg, !.over = Stale(i)]
       \/ st' = [st EXCEPT !.error = TRUE]
    /\ calls' = Rest(i)
    /\ UNCHANGED <<Quiet, acts>>

\* The server ends an export, or forgets it when it is started again.
ExportEnds(id) ==
    /\ id \in DOMAIN server.exports /\ server.exports[id] = "generating"
    /\ \E end \in {"ready", "error", "absent"} : server' = [server EXCEPT !.exports[id] = end]
    /\ UNCHANGED <<gate, page, url, st, calls, kept, chats, acts>>
-----------------------------------------------------------------------------
(* The wiki: WikiPage.tsx.                                                 *)

WikiLoaded(i) ==
    /\ Answer("wiki", "load", i)
    /\ \/ st' = [st EXCEPT !.commit = Some(@, Some(calls[i].arg.commit, At(Log[Default], 1))), !.listed = TRUE]
       \/ st' = [st EXCEPT !.error = TRUE]
    /\ calls' = Rest(i)
    /\ UNCHANGED <<Quiet, acts>>

\* The commit goes to the URL, and all that is shown is asked for anew.
CommitEffect ==
    /\ Due("wiki", "commit")
    /\ st' = [st EXCEPT !.seen.commit = Deps.commit, !.status = None, !.toc = None, !.text = None, !.error = FALSE,
                        !.messages = IF st.commit = None THEN @ ELSE chats[st.commit]]
    /\ url' = [url EXCEPT !.commit = Some(st.commit, @)]
    /\ LET others == Overtake(calls, {"status", "toc", "generate", "ask"})
       IN calls' = IF st.commit = None THEN others ELSE Ask(others, "status", st.commit)
    /\ UNCHANGED <<gate, page, kept, chats, server, acts>>

WikiCommit(c) ==
    /\ Act("wiki") /\ st.listed /\ c \in ToSet(Log[Default]) \union {None} /\ c # st.commit
    /\ st' = [st EXCEPT !.commit = c]
    /\ UNCHANGED <<Quiet, calls>>

\* refreshStatus: the contents of a wiki that is ready are asked for next.
Follow(i, kind) == Append(Rest(i), [Call(kind, calls[i].arg) EXCEPT !.passed = calls[i].passed])
StatusShown(i) ==
    /\ Answer("wiki", "status", i)
    /\ LET c == calls[i].arg
           state == server.wiki[c]
       IN \/ /\ st' = [st EXCEPT !.status = [of |-> c, state |-> state], !.toc = IF state = "ready" THEN @ ELSE None,
                                  !.over = Stale(i)]
             /\ calls' = IF state = "ready" THEN Follow(i, "toc") ELSE Rest(i)
          \/ st' = [st EXCEPT !.error = TRUE] /\ calls' = Rest(i)
    /\ UNCHANGED <<Quiet, acts>>

TocShown(i) ==
    /\ Answer("wiki", "toc", i)
    /\ \/ st' = [st EXCEPT !.toc = calls[i].arg, !.seen.text = <<>>, !.over = Stale(i)]
       \/ st' = [st EXCEPT !.error = TRUE]
    /\ calls' = Rest(i)
    /\ UNCHANGED <<Quiet, acts>>

PollWiki ==
    /\ Mounted /\ page = "wiki" /\ Settled /\ st.commit # None /\ st.status # None /\ st.status.state = "generating" /\ Room
    /\ calls' = Ask(calls, "status", st.commit)
    /\ UNCHANGED <<Quiet, st, acts>>

TextEffect ==
    /\ Due("wiki", "text") /\ ~Due("wiki", "commit")
    /\ LET others == Cancel(calls, "text")
           new == st.commit # None /\ st.toc # None
       IN /\ st' = [st EXCEPT !.seen.text = Deps.text, !.loading = @ \/ new]
          /\ calls' = IF new THEN Ask(others, "text", st.commit) ELSE others
    /\ UNCHANGED <<Quiet, acts>>

TextShown(i) ==
    /\ Answer("wiki", "text", i)
    /\ \/ st' = [st EXCEPT !.text = calls[i].arg, !.loading = FALSE]
       \/ st' = [st EXCEPT !.error = TRUE, !.loading = FALSE]
    /\ calls' = Rest(i)
    /\ UNCHANGED <<Quiet, acts>>

Generate ==
    /\ Act("wiki") /\ st.commit # None /\ ~(st.status # None /\ st.status.state \in {"ready", "generating"}) /\ Room
    /\ st' = [st EXCEPT !.error = FALSE] /\ calls' = Ask(calls, "generate", st.commit)
    /\ UNCHANGED Quiet

Generated(i) ==
    /\ Answer("wiki", "generate", i)
    /\ \/ /\ server' = [server EXCEPT !.wiki[calls[i].arg] = IF @ = "absent" THEN "generating" ELSE @]
          /\ calls' = Follow(i, "status") /\ UNCHANGED st
       \/ st' = [st EXCEPT !.error = TRUE] /\ calls' = Rest(i) /\ UNCHANGED server
    /\ UNCHANGED <<gate, page, url, kept, chats, acts>>

WikiEnds(c) ==
    /\ server.wiki[c] = "generating"
    /\ \E end \in {"ready", "absent"} : server' = [server EXCEPT !.wiki[c] = end]
    /\ UNCHANGED <<gate, page, url, st, calls, kept, chats, acts>>

\* A symbol of the text leads to its panorama.
OpenFromWiki(r) ==
    /\ Act("wiki") /\ st.toc # None /\ st.text # None /\ ~st.loading /\ st.commit # None
    /\ st.status # None /\ st.status.state = "ready"
    /\ Open("panorama", [Url EXCEPT !.commit = st.commit, !.focus = <<r>>])
    /\ UNCHANGED kept

\* A message is the commit it was written about; a failure is an answer too.
AskWiki ==
    /\ Act("wiki") /\ st.toc # None /\ st.status # None /\ st.status.state = "ready" /\ ~st.asking /\ Room
    /\ LET with == Append(st.messages, st.commit)
       IN /\ st' = [st EXCEPT !.asking = TRUE, !.messages = with]
          /\ calls' = Ask(calls, "ask", [commit |-> st.commit, messages |-> with])
    /\ UNCHANGED Quiet

\* The chat is saved whatever page is there.
ChatSaved(i) ==
    /\ calls[i].kind = "ask" /\ Calm
    /\ chats' = [chats EXCEPT ![calls[i].arg.commit] = calls[i].arg.messages]
    /\ st' = IF calls[i].live THEN [st EXCEPT !.messages = calls[i].arg.messages, !.asking = FALSE, !.over = Stale(i)] ELSE st
    /\ calls' = Rest(i)
    /\ UNCHANGED <<gate, page, url, kept, server, acts>>
-----------------------------------------------------------------------------
(* The provider: ProviderSettingsPage.tsx.                                 *)

ProviderLoaded(i) ==
    /\ Answer("provider", "load", i)
    /\ \/ st' = [st EXCEPT !.config = server.provider, !.over = Stale(i), !.edited = FALSE]
       \/ st' = [st EXCEPT !.error = TRUE]
    /\ calls' = Rest(i)
    /\ UNCHANGED <<Quiet, acts>>

CodexEffect ==
    /\ Due("provider", "codex")
    /\ st' = [st EXCEPT !.seen.codex = Deps.codex] /\ calls' = Ask(calls, "codex", None)
    /\ UNCHANGED <<Quiet, acts>>

CodexShown(i) ==
    /\ Answer("provider", "codex", i)
    /\ \E codex \in {"configured", "absent", None} : st' = [st EXCEPT !.codex = codex]
    /\ calls' = Rest(i)
    /\ UNCHANGED <<Quiet, acts>>

ChooseKind(k) ==
    /\ Act("provider") /\ k # st.config
    /\ st' = [st EXCEPT !.config = k, !.edited = TRUE]
    /\ calls' = Overtake(calls, {"load", "save"})
    /\ UNCHANGED Quiet

\* The button is never disabled.
Save ==
    /\ Act("provider") /\ Room
    /\ IF st.config = "codex-oauth" /\ st.codex = "absent"
       THEN st' = [st EXCEPT !.saved = FALSE, !.error = TRUE] /\ UNCHANGED calls
       ELSE /\ st' = [st EXCEPT !.saved = FALSE, !.error = FALSE]
            /\ calls' = Ask(Overtake(calls, {"load", "save"}), "save", st.config)
    /\ UNCHANGED Quiet

Saved(i) ==
    /\ Answer("provider", "save", i)
    /\ \/ /\ server' = [server EXCEPT !.provider = calls[i].arg]
          /\ st' = [st EXCEPT !.config = calls[i].arg, !.saved = TRUE, !.over = Stale(i), !.edited = FALSE]
       \/ st' = [st EXCEPT !.error = TRUE] /\ UNCHANGED server
    /\ calls' = Rest(i)
    /\ UNCHANGED <<gate, page, url, kept, chats, acts>>
-----------------------------------------------------------------------------
GateNext == (\E i \in DOMAIN calls : ProbeAnswered(i) \/ RetryAnswered(i)) \/ ProbeAgain \/ Retry

PageNames == {"import", "timeline", "delta", "panorama", "trace", "training", "wiki", "provider"}
RouteNext ==
    \/ \E p \in PageNames : Go(p)
    \/ Import \/ Return \/ Renew \/ OpenFromTimeline \/ OpenFromDelta \/ OpenFromPanorama
    \/ \E c \in Commits : OpenFromTrace(c)
    \/ \E r \in Focuses : OpenFromWiki(r)

Effect ==
    \/ TimelineEffect \/ UrlEffect \/ GraphEffect \/ Restore \/ ListEffect \/ BranchOfUrl \/ LoadEffect
    \/ CommitsEffect \/ FilesEffect \/ CommitEffect \/ TextEffect
    \/ CodexEffect

Arrives(i) ==
    \/ Imported(i) \/ TimelineLoaded(i) \/ TimelineListed(i) \/ CommitShown(i)
    \/ Compared(i) \/ Drawn(i) \/ DiffShown(i) \/ Traced(i)
    \/ PanoramaLoaded(i) \/ PanoramaListed(i) \/ PanoramaDrawn(i) \/ Enriched(i)
    \/ TrainingLoaded(i) \/ TrainingListed(i) \/ ExportStarted(i) \/ Polled(i) \/ FilesListed(i)
    \/ WikiLoaded(i) \/ StatusShown(i) \/ TocShown(i) \/ TextShown(i) \/ Generated(i) \/ ChatSaved(i)
    \/ ProviderLoaded(i) \/ CodexShown(i) \/ Saved(i)

UserNext ==
    \/ \E b \in DOMAIN Log : TimelineBranch(b) \/ ChooseBranch(b) \/ TrainingBranch(b)
    \/ \E c \in Commits : SelectCommit(c) \/ SetBeforeCommit(c) \/ SetAfterCommit(c)
    \/ \E c \in Commits \union {None} : SelectBase(c) \/ SelectHead(c) \/ ChooseCommit(c) \/ WikiCommit(c)
    \/ RunCompare \/ GoBack \/ Overview \/ Refresh \/ Enrich \/ StartExport \/ Generate \/ AskWiki \/ Save
    \/ \E k \in Kinds : ChooseKind(k)
    \/ \E t \in {"files", "graph"} : ShowTab(t)
    \/ \E r \in Focuses : Expand(r) \/ Focus(r)
    \/ \E i \in 0..MaxActs : SelectTrail(i)
    \/ \E f \in Files : OpenFileDiff(f)
    \/ \E q \in Questions : TypeQuestion(q)
    \/ RunTrace \/ ClearResults \/ \E d \in {3, 5} : ChooseDepth(d)

ServerNext == PollExport \/ PollWiki \/ (\E id \in 1..2 : ExportEnds(id)) \/ \E c \in Commits : WikiEnds(c)

PagesNext == GateNext \/ RouteNext \/ Effect \/ (\E i \in DOMAIN calls : Arrives(i)) \/ UserNext \/ ServerNext
PagesSpec == PagesInit /\ [][PagesNext]_pageVars
-----------------------------------------------------------------------------
(* Properties.                                                             *)

Drained(kinds) == ~InFlight(kinds)

\* When no answer is due any more and none came too late, the timeline lists
\* the commits of its branch and shows the commit that was clicked last.
TimelineShows ==
    page = "timeline" /\ ~st.error /\ ~st.over =>
        /\ Drained({"load", "list"}) => st.list = st.branch
        /\ Drained({"commit"}) => st.selected = st.asked

\* So does the comparison, when none came too late: the result is of the ends in
\* the URL, the graph of the focus (the overview apart, which GoBack does not ask
\* for), and the diff of the file that was opened last.
DeltaShows ==
    page = "delta" /\ ~st.over =>
        /\ Drained({"compare"}) /\ ~st.error /\ url.base # None /\ url.head # None => st.result = <<url.base, url.head>>
        /\ Drained({"draw"}) /\ st.graph # None /\ st.root # None => st.graph.root = st.root
        /\ Drained({"diff"}) /\ st.diff # None => st.diff = st.file

\* A picture that is not being replaced is of the commit, the depth and the
\* focus that the URL says, whatever was chosen, cancelled, gone back to or
\* refreshed on the way; its labels are of its commit, unless they came too late.
PanoramaShows ==
    page = "panorama" /\ st.graph # None =>
        /\ Drained({"draw", "list"}) /\ ~st.loading /\ ~st.error /\ st.list # None =>
              LET key == KeyOf(url, st.list) IN st.graph = [commit |-> key.commit, root |-> key.root, depth |-> key.depth]
        /\ ~st.over => st.labels \in {None, st.graph.commit}

\* The trace on view is the one that the session keeps, so that it is there
\* when the user comes back from what it leads to; unless the answer to a trace
\* of an earlier visit has replaced that one, or it grew too old meanwhile.
TraceShows == page = "trace" /\ ~st.stray /\ st.result # None => kept # None /\ kept.result = st.result

\* Status and files are of the export on view, and the range goes from an older
\* to a newer commit of the list, as long as no answer came too late or failed to
\* a poll.
TrainingShows ==
    page = "training" /\ ~st.over =>
        /\ st.status # None => st.status.of = st.export
        /\ st.files \in {None, st.export}
        /\ LET list == Of(st.list) IN
           Drained({"load", "list"}) /\ Position(list, st.base) > 0 /\ Position(list, st.head) > 0 =>
              Position(list, st.base) > Position(list, st.head)

\* Status, contents, text and chat are of the commit that is selected, unless an
\* answer came too late; a chat that was shown so is the one way to get messages
\* of two commits in one.
Own(messages, c) == \A i \in DOMAIN messages : messages[i] = c
WikiShows ==
    page = "wiki" /\ ~st.over /\ st.commit # None =>
        /\ st.status # None => st.status.of = st.commit
        /\ st.toc \in {None, st.commit} /\ st.text \in {None, st.commit}
        /\ (\A c \in Commits : Own(chats[c], c)) => Own(st.messages, st.commit)

\* The provider on view is the one that the server has, but for what the user
\* has changed since and for answers that came too late.
ProviderShows ==
    page = "provider" /\ ~st.over /\ ~st.edited /\ ~st.error /\ Drained({"load", "save"}) => st.config = server.provider

\* What a page shows is what it was asked for last (the pages of
\* src/apps/web/src/pages).  In every order of answers and of what the user
\* does meanwhile this is said of the panorama's picture only, whose effects
\* are cancelled by their cleanups.  Of the timeline, delta, training, wiki and
\* provider pages and of the panorama's labels it is said until a handler has
\* run after a later event had set the same state (st.over; on the training
\* page also until a poll has failed, which lets a second export start beside
\* the first), and of the trace until the session that it keeps was written
\* behind its back (st.stray).  After that the code does show what is outdated.
PagesShow ==
    Mounted /\ Settled =>
        TimelineShows /\ DeltaShows /\ PanoramaShows /\ TraceShows /\ TrainingShows /\ WikiShows /\ ProviderShows

\* No page waits for what nobody is going to answer: a spinner or a disabled
\* button has its call in flight (the finally blocks of the pages), a gate that
\* waits has a probe or a timer.  The one exception is st.stuck, a picture that
\* Back or Forward cancelled on the way to the one on view.
SpinnersEnd ==
    /\ gate.state = "waiting" => gate.timer # None \/ InFlight({"probe"})
    /\ Mounted /\ Settled =>
        /\ page \in {"import", "timeline", "delta", "trace"} /\ st.loading => InFlight({"import", "load", "list", "compare", "trace"})
        /\ page = "delta" => (st.drawing => InFlight({"draw"})) /\ (st.fetching => InFlight({"diff"}))
        /\ page = "panorama" =>
              /\ st.loading => InFlight({"draw"}) \/ st.stuck
              /\ st.enriching => InFlight({"enrich"})
        /\ page = "training" =>
              /\ st.loading => InFlight({"load", "list"})
              /\ st.running => InFlight({"start"}) \/ (st.status # None /\ st.status.state \in {"generating", "absent"})
        /\ page = "wiki" => (st.loading => InFlight({"text"}) \/ st.toc = None \/ st.commit = None) /\ (st.asking => InFlight({"ask"}))
=============================================================================

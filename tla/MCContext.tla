----------------------------- MODULE MCContext -----------------------------
(* Who asks: a tool of the MCP server is called, or a user is at the pages  *)
(* of the web application.  A behaviour is one or the other.                *)
(*                                                                          *)
(* The graph of the tools is a search engine: a request class with methods, *)
(* a transport that extends it, a function that uses both, an import, and   *)
(* two tests.  The repository of the pages has two branches.                *)
EXTENDS Tools, Pages

CONSTANTS request, execute, prepare, transport, base, search, import, test, helper

W(id, name, kind, file) == [id |-> id, name |-> name, kind |-> kind, file |-> file]
MCRows ==
    <<W(request, <<"search", "request">>, "class", "request.ts"),
      W(execute, <<"execute">>, "method", "request.ts"),
      W(prepare, <<"prepare">>, "method", "request.ts"),
      W(transport, <<"transport", "search", "action">>, "class", "action.ts"),
      W(base, <<"base">>, "interface", "action.ts"),
      W(import, <<"search", "request">>, "import", "action.ts"),
      W(search, <<"search">>, "function", "action.ts"),
      W(test, <<"search", "request", "test">>, "class", "request.test.ts"),
      W(helper, <<"execute">>, "function", "request.test.ts")>>
MCPlace ==
    [f \in {"request.ts", "action.ts", "request.test.ts"} |->
        CASE f = "request.ts" -> [dirs |-> <<"search">>, base |-> <<"request">>, test |-> FALSE]
          [] f = "action.ts" -> [dirs |-> <<"transport">>, base |-> <<"action">>, test |-> FALSE]
          [] f = "request.test.ts" -> [dirs |-> <<"search">>, base |-> <<"request", "test">>, test |-> TRUE]]
MCScope == [i \in {request, execute, prepare, transport, base, search, import, test, helper} |->
             IF i \in {execute, prepare} THEN <<<<"search", "request">>>> ELSE <<>>]
MCSpan ==
    [i \in {request, execute, prepare, transport, base, search, import, test, helper} |->
        CASE i = request -> <<1, 28>>    [] i = execute -> <<3, 5>>     [] i = prepare -> <<12, 25>>
          [] i = import -> <<1, 1>>      [] i = transport -> <<1, 4>>   [] i = base -> <<5, 6>>
          [] i = search -> <<7, 8>>      [] i = test -> <<1, 9>>        [] i = helper -> <<10, 12>>]
\* request.ts has lost its last lines, which nothing was told of.
MCLines == [f \in DOMAIN MCPlace |-> CASE f = "request.ts" -> 24 [] f = "action.ts" -> 8 [] f = "request.test.ts" -> 12]
MCMentions == [i \in {request, execute, prepare, transport, base, search, import, test, helper} |->
                IF i \in {execute, prepare} THEN {"request"} ELSE {}]
MCTypos == {<<<<"serch">>, <<"search">>>>}

Links ==
    <<<<request, execute, "contains">>, <<request, prepare, "contains">>,
      <<transport, request, "extends">>, <<test, request, "references">>,
      <<import, request, "imports">>, <<search, execute, "calls">>, <<execute, prepare, "calls">>,
      <<prepare, search, "calls">>, <<helper, execute, "calls">>, <<search, transport, "calls">>, <<request, base, "implements">>>>
Fixed == {<<request, execute, "contains">>, <<import, request, "imports">>, <<transport, request, "extends">>,
           <<request, base, "implements">>}
MCWorlds == {SelectSeq(Links, LAMBDA e : e \in Fixed \union some) : some \in SUBSET (ToSet(Links) \ Fixed)}

MCLineOf ==
    [e \in ToSet(Links) |->
        CASE e = <<search, execute, "calls">> -> 8        [] e = <<execute, prepare, "calls">> -> 4
          [] e = <<prepare, search, "calls">> -> 24       [] e = <<helper, execute, "calls">> -> 11
          [] e = <<search, transport, "calls">> -> 7 [] e = <<import, request, "imports">> -> 1
          [] e = <<test, request, "references">> -> 2
          [] OTHER -> 0]

MCCommon == {<<"test">>}
T(words, case) == [words |-> words, case |-> case]
W1(word) == T(<<word>>, "flat")
SearchRequest == T(<<"search", "request">>, "camel")

Asking(tokens) == [text |-> tokens, kinds |-> {}, paths |-> {}, names |-> {}, test |-> FALSE]
High == {"class", "method", "function", "interface"}
About(tokens) ==
    [op |-> "context", query |-> Asking(tokens), limit |-> 3, max |-> 6, depth |-> 1, kinds |-> High,
     least |-> 30, blocks |-> 2, gone |-> {"action.ts"}]
Contexts ==
    {About(<<>>),
     [About(<<SearchRequest>>) EXCEPT !.max = 3],
     [About(<<SearchRequest, W1("prepare")>>) EXCEPT !.kinds = {}, !.limit = 2, !.depth = 2],
     [About(<<W1("execute"), W1("prepare")>>) EXCEPT !.limit = 4, !.max = 9],
     [About(<<W1("execute"), W1("prepare"), W1("search")>>) EXCEPT !.limit = 5, !.max = 5],
     [About(<<W1("search"), W1("request"), W1("action")>>) EXCEPT !.limit = 1, !.query.test = TRUE],
     [About(<<W1("transport"), W1("action")>>) EXCEPT !.limit = 1, !.max = 3],
     [About(<<W1("transport")>>) EXCEPT !.max = 12, !.limit = 1, !.depth = 3],
     [About(<<W1("execute"), T(<<"search", "request", "test">>, "camel")>>) EXCEPT !.limit = 6, !.max = 6],
     [About(<<W1("execute"), W1("test")>>) EXCEPT !.query.test = TRUE, !.limit = 5, !.max = 4],
     [About(<<W1("serch")>>) EXCEPT !.max = 4, !.depth = 2]}

\* A budget that holds all of it, one that cuts, and one in clusters.
Allowed(all, file, whole) == [total |-> all, file |-> file, whole |-> whole, gap |-> 4, header |-> 2, least |-> 3]
Exploring(tokens, budget) ==
    [op |-> "explore", query |-> Asking(tokens), limit |-> 4, max |-> 9, depth |-> 2, kinds |-> {}, least |-> 20,
     files |-> 3, gone |-> {}, budget |-> budget]
Explorations ==
    {Exploring(<<>>, Allowed(40, 14, 8))}
    \union {Exploring(<<W1("execute"), W1("prepare"), W1("search")>>, b) :
              b \in {Allowed(60, 60, 30), Allowed(40, 14, 8), Allowed(17, 9, 8), Allowed(13, 5, 3), Allowed(4, 4, 8)}}
    \union {[Exploring(<<SearchRequest, W1("prepare")>>, Allowed(40, 9, 8)) EXCEPT !.gone = g, !.files = n] :
              g \in {{}, {"request.ts"}, {"action.ts"}}, n \in {1, 3}}
    \union {[Exploring(<<W1("execute"), W1("prepare"), W1("search"), SearchRequest>>, Allowed(60, 60, 8)) EXCEPT !.max = 7]}
    \union {[Exploring(<<W1("execute"), W1("transport")>>, Allowed(30, 9, 8)) EXCEPT !.max = 3, !.depth = 1, !.limit = 2]}
    \union {[Exploring(<<W1("transport"), W1("base")>>, Allowed(30, 9, 8)) EXCEPT !.max = 5, !.depth = 0]}

Symbol(hints, last, colon) == [hints |-> hints, last |-> last, colon |-> colon]
Name(word) == Symbol(<<>>, <<word>>, FALSE)
Sought ==
    {Name("execute"), Name("transport"), Name("nowhere"), Symbol(<<>>, <<"search", "request">>, FALSE),
     Symbol(<<<<"search", "request">>>>, <<"execute">>, FALSE), Symbol(<<<<"search", "request">>>>, <<"execute">>, TRUE),
     Symbol(<<<<"request">>>>, <<"prepare">>, TRUE), Symbol(<<<<"crate">>, <<"base">>>>, <<"execute">>, TRUE)}
Lookups ==
    [op : {"callers", "callees", "node"}, symbol : Sought, limit : {1, 5}]
    \union [op : {"trace"}, limit : {5},
            symbol : {Name("search"), Name("execute"), Name("nowhere"), Symbol(<<<<"request", "test">>>>, <<"execute">>, TRUE)},
            to : {Name("prepare"), Name("transport"), Name("execute"), Symbol(<<>>, <<"search", "request">>, FALSE)}]

MCAsks == Contexts \union Explorations \union Lookups

MCLog == [b \in {"main", "side"} |-> IF b = "main" THEN <<"c3", "c2", "c1">> ELSE <<"d2", "c1">>]
MCOpened ==
    [page : PageNames, url : {Url}] \union
    {[page |-> "trace", url |-> [Url EXCEPT !.candidate = "c2"]],
     [page |-> "delta", url |-> [Url EXCEPT !.base = "c1", !.head = "c2"]],
     [page |-> "panorama", url |-> [Url EXCEPT !.head = "c2"]],
     [page |-> "panorama", url |-> [Url EXCEPT !.commit = "c2", !.focus = <<"f">>]],
     [page |-> "timeline", url |-> [Url EXCEPT !.branch = "gone"]]}

NoTool ==
    /\ world = <<>> /\ ask = [op |-> "none"] /\ pc = "idle"
    /\ results = <<>> /\ exact = {} /\ turn = <<>> /\ added = 0
    /\ sub = [nodes |-> <<>>, edges |-> <<>>, roots |-> <<>>] /\ shown = [blocks |-> <<>>, chains |-> <<>>]
    /\ glue = {} /\ left = <<>> /\ total = 0 /\ blocks = <<>> /\ out = Unanswered
NoPages ==
    /\ gate = [state |-> "none", timer |-> None] /\ page = "none" /\ url = Url /\ st = <<>> /\ calls = <<>>
    /\ kept = None /\ chats = <<>> /\ acts = 0
    /\ server = [wiki |-> [c \in Commits |-> "absent"], exports |-> <<>>, provider |-> "none"]

MCInit == (ToolInit /\ NoPages) \/ (PagesInit /\ NoTool)
MCNext == (ToolNext /\ UNCHANGED pageVars) \/ (PagesNext /\ UNCHANGED toolVars)
MCSpec == MCInit /\ [][MCNext]_<<toolVars, pageVars>>
=============================================================================

---------------------------- MODULE MCSnapshots ----------------------------
(* The snapshots of the server, the projects of the command line and what   *)
(* the command line is asked, in one run: a behaviour is of one of them.    *)
(*                                                                          *)
(* The projects are an inner and an outer directory and two processes; the  *)
(* first works in the inner one, the second forces, removes and unlocks it  *)
(* meanwhile; without the inner one both come upon the outer.               *)
EXTENDS Snapshots, Project

CONSTANTS p1, p2, app, lib, test

VARIABLE subject

MCCalls ==
    ({p1} \X {"init", "index", "sync", "status", "query"} \X {2})
    \union ({p2} \X {"init -i", "index --force", "uninit", "unlock"} \X {2})

Edges == {<<lib, app, "exported">>, <<"ui", lib, "file">>, <<"ui", app, "local">>, <<test, "ui", "file">>,
          <<test, lib, "exported">>, <<"e2e", test, "file">>, <<app, app, "file">>, <<app, "ui", "file">>}
Affected ==
    {[op |-> "affected", imports |-> edges, tests |-> {test, "e2e"}, changed |-> changed, depth |-> depth] :
        edges \in SUBSET Edges, changed \in {<<app>>, <<"ui", app>>, <<test, lib>>}, depth \in {1, 2, 5}}

Match(exact, of) == [exact |-> exact, of |-> of]
Symbols ==
    {[op |-> op, matches |-> matches, limit |-> 2] :
        op \in {"callers", "callees", "impact"},
        matches \in {<<>>} \union {<<Match(x, s)>> : x \in BOOLEAN, s \in {<<>>, <<app, lib>>}}
                    \union {<<Match(x, s), Match(y, t), Match(TRUE, <<>>)>> :
                               x \in BOOLEAN, y \in BOOLEAN, s \in {<<>>, <<app>>}, t \in {<<app, lib>>, <<lib, test>>}}}

MCQuestions == Affected \union Symbols

all == <<subject, vars, projectVars, ask>>

\* What a behaviour is not of stands still.
MCInit ==
    /\ subject \in {"snapshots", "project", "question"}
    /\ Init /\ ProjectInit /\ AskInit
    /\ subject # "snapshots" => limit = 1
    /\ subject # "project" => \A d \in Dirs : place[d] = Nowhere
    /\ subject # "question" => ask = Asked(CHOOSE q \in MCQuestions : TRUE)

MCNext ==
    /\ UNCHANGED subject
    /\ \/ subject = "snapshots" /\ Next /\ UNCHANGED <<projectVars, ask>>
       \/ subject = "project" /\ ProjectNext /\ UNCHANGED <<vars, ask>>
       \/ /\ subject = "question" /\ (AskNext \/ (ask.answer # None /\ UNCHANGED ask))
          /\ UNCHANGED <<vars, projectVars>>

MCSpec == MCInit /\ [][MCNext]_all /\ WF_vars(Timeout)
=============================================================================

---------------------------- MODULE MCGraphInputs ----------------------------
(* What the walks over a graph and the pictures of it are given.            *)
EXTENDS Integers, Sequences, SequencesExt, TLC

CONSTANTS cls, run, log, sub, gone, route, api, work, Absent

(* A class cls with members run and log, and a class sub that may use it;   *)
(* every graph over ten edges, with cycles of calls and of imports and a    *)
(* chain of inheritance.                                                    *)

All == {cls, run, log, sub}
Drawable ==
    {<<cls, run, "contains">>, <<cls, log, "contains">>,
     <<run, log, "calls">>, <<log, run, "calls">>, <<sub, log, "calls">>,
     <<sub, cls, "extends">>, <<log, sub, "implements">>,
     <<cls, sub, "imports">>, <<sub, cls, "imports">>, <<log, sub, "imports">>}

NoLimit == 5

Plain(op, start, depth) ==
    [op |-> op, start |-> start, to |-> start, depth |-> depth, limit |-> 9,
     dir |-> "outgoing", only |-> All, include |-> TRUE]

WalkAsks ==
    {Plain("bfs", gone, NoLimit),
     Plain("bfs", cls, 2),
     [Plain("bfs", log, NoLimit) EXCEPT !.dir = "both", !.include = FALSE],
     [Plain("bfs", cls, NoLimit) EXCEPT !.dir = "incoming", !.only = {cls, sub}],
     [Plain("bfs", sub, NoLimit) EXCEPT !.limit = 2],
     [Plain("dfs", log, NoLimit) EXCEPT !.dir = "both"],
     [Plain("dfs", cls, 2) EXCEPT !.limit = 2, !.include = FALSE],
     Plain("callers", log, 1), Plain("callers", run, 2),
     Plain("callees", sub, NoLimit),
     Plain("callgraph", log, 2),
     Plain("impact", cls, 1), Plain("impact", cls, 2), Plain("impact", run, NoLimit),
     Plain("hierarchy", sub, NoLimit),
     [Plain("path", cls, NoLimit) EXCEPT !.to = run],
     [Plain("path", sub, NoLimit) EXCEPT !.to = run],
     Plain("cycles", cls, NoLimit)}

-----------------------------------------------------------------------------
(* A route, an exported function and two helpers that may call one another. *)

Ids == <<api, log, route, work>>
Rank == (route :> 0) @@ (api :> 2) @@ (work :> 99) @@ (log :> 2)

Drawn == <<<<route, api, "references">>, <<route, work, "calls">>, <<api, work, "calls">>,
             <<work, log, "calls">>, <<log, api, "calls">>, <<work, api, "calls">>>>

Snapshot(nodes, links) ==
    [nodes |-> [i \in {route, api, work, log} |-> IF i \in DOMAIN nodes THEN nodes[i] ELSE Absent],
     edges |-> SelectSeq(Drawn, LAMBDA e : e \in links /\ {e[1], e[2]} \subseteq DOMAIN nodes)]

Once(S) == [i \in S |-> 1]
Bases == {<<Once({route, api, work}), ToSet(Drawn) \ {<<work, api, "calls">>}>>,
          <<Once({route, api, work, log}), {<<route, api, "references">>, <<work, log, "calls">>}>>}
Heads == {<<n, l>> : n \in {Once({route, api, work, log}), Once({api, log}), [Once({route, api, work, log}) EXCEPT ![work] = 2]},
                     l \in SUBSET ToSet(Drawn)}
Pairs == {[base |-> Snapshot(b[1], b[2]), head |-> Snapshot(h[1], h[2])] : b \in Bases, h \in Heads}

Ask(delta, root, depth, max) ==
    [delta |-> delta, root |-> root, depth |-> depth, max |-> max, seeds |-> <<>>, trace |-> <<>>]
PageAsks ==
    {[Ask(FALSE, Absent, 1, 6) EXCEPT !.trace = <<log, work>>], Ask(FALSE, Absent, 2, 4), [Ask(FALSE, work, 3, 2) EXCEPT !.trace = <<api>>],
     Ask(FALSE, route, 2, 4), [Ask(TRUE, Absent, 2, 3) EXCEPT !.trace = <<work>>], Ask(TRUE, log, 3, 9), [Ask(TRUE, Absent, 1, 4) EXCEPT !.seeds = <<work, api>>, !.trace = <<api, log>>]}
Budget == [entries |-> 2, perRoot |-> 2, deltaPerRoot |-> 3, bonus |-> 1, extra |-> 2, perExtra |-> 2, sparse |-> 3]
=============================================================================

----------------------------- MODULE Traversal -----------------------------
(***************************************************************************)
(* The walks of the graph queries (src/src/graph/traversal.ts and          *)
(* findCircularDependencies of src/src/graph/queries.ts).  A behaviour is  *)
(* one question about one graph: breadth-first walks keep a queue of paths *)
(* (traverseBFS, findPath), depth-first walks a stack of frames            *)
(* (traverseDFS, getCallers, getCallees, getCallGraph, getTypeHierarchy,   *)
(* getImpactRadius, findCircularDependencies), and a step is one iteration *)
(* of a loop.  The rows of an edge query come in no particular order.      *)
(* Every edge has its two nodes: the database's foreign keys see to it.    *)
(***************************************************************************)
EXTENDS Integers, Sequences, SequencesExt

CONSTANTS
    Nodes,      \* the nodes of the database, files for "cycles"
    Containers, \* the classes, interfaces, modules ... among them
    Relations,      \* edges <<source, target, kind>> the graph may have
    Asks,       \* the questions: [op, start, to, depth, limit, dir, only, include]
    Unlimited   \* no depth limit: above the length of every simple path

ASSUME WalksAssumption ==
    /\ IsFiniteSet(Nodes) /\ IsFiniteSet(Relations)
    /\ \A l \in Relations : l[1] \in Nodes /\ l[2] \in Nodes
    /\ Unlimited \in Nat /\ Cardinality(Nodes) <= Unlimited
    /\ \A a \in Asks :
          /\ a.op \in {"bfs", "path", "dfs", "callers", "callees", "callgraph", "hierarchy", "impact", "cycles"}
          /\ a.depth \in 0..Unlimited /\ a.limit \in Nat /\ a.include \in BOOLEAN
          /\ a.dir \in {"outgoing", "incoming", "both"}
          /\ a.op \in {"path", "hierarchy", "cycles"} => a.depth = Unlimited

VARIABLES
    graph,   \* the edges of the graph
    query,   \* the question
    at,      \* "ready", "walking" or "done"
    paths,   \* breadth-first: a queue of [node, path], the path in edges from the start
    stack,   \* depth-first: frames [node, depth, phase, todo]
    round,   \* depth-first: walks begun for this question
    visited, \* the nodes expanded
    nodes,   \* the nodes of the answer
    edges,   \* the edges of the answer
    found    \* the path of "path", the cycles of "cycles"

walkVars == <<graph, query, at, paths, stack, round, visited, nodes, edges, found>>

BreadthFirst == {"bfs", "path"}
Hierarchy == {"extends", "implements"}
Uses == {"calls", "references", "imports"}

----------------------------------------------------------------------------
(* Edge queries.                                                           *)

Out(n, kinds) == {e \in graph : e[1] = n /\ (kinds = {} \/ e[3] \in kinds)}
In(n, kinds) == {e \in graph : e[2] = n /\ (kinds = {} \/ e[3] \in kinds)}
Other(e, n) == IF e[1] = n THEN e[2] ELSE e[1]

(* getAdjacentEdges *)
Adjacent(n) ==
    CASE query.dir = "outgoing" -> Out(n, {})
      [] query.dir = "incoming" -> In(n, {})
      [] query.dir = "both" -> Out(n, {}) \union In(n, {})

(* What the r-th walk follows from n, apart from a container's members. *)
Follow(n, r) ==
    CASE query.op = "path" -> Out(n, {})
      [] query.op \in {"bfs", "dfs"} -> {e \in Adjacent(n) : Other(e, n) \in query.only}
      [] <<query.op, r>> \in {<<"callers", 1>>, <<"callgraph", 1>>} -> In(n, Uses)
      [] <<query.op, r>> \in {<<"callees", 1>>, <<"callgraph", 2>>} -> Out(n, Uses)
      [] query.op = "hierarchy" /\ r = 1 -> Out(n, Hierarchy)
      [] query.op = "hierarchy" /\ r = 2 -> In(n, Hierarchy)
      [] query.op = "impact" -> In(n, {})
      [] query.op = "cycles" -> Out(n, {"imports"})

Members(n) == IF n \in Containers THEN Out(n, {"contains"}) ELSE {}

----------------------------------------------------------------------------
(* Asking.                                                                 *)

WalkInit ==
    /\ graph \in SUBSET Relations
    /\ query \in Asks
    /\ at = "ready"
    /\ paths = <<>>
    /\ stack = <<>>
    /\ round = 0
    /\ visited = {}
    /\ nodes = {}
    /\ edges = {}
    /\ found = {}

StartIsIncluded ==
    query.op \in {"impact", "hierarchy", "callgraph"}
      \union IF query.include THEN {"bfs", "dfs"} ELSE {}

Known ==
    /\ query.op # "cycles" => query.start \in Nodes
    /\ query.op = "path" => query.to \in Nodes

(* A start that the database does not know has an empty answer. *)
AskUnknown ==
    /\ at = "ready"
    /\ ~Known
    /\ at' = "done"
    /\ UNCHANGED <<graph, query, paths, stack, round, visited, nodes, edges, found>>

Ask ==
    /\ at = "ready"
    /\ Known
    /\ at' = "walking"
    /\ paths' = IF query.op \in BreadthFirst THEN <<[node |-> query.start, path |-> <<>>]>> ELSE <<>>
    /\ nodes' = IF StartIsIncluded THEN {query.start} ELSE {}
    /\ UNCHANGED <<graph, query, stack, round, visited, edges, found>>

----------------------------------------------------------------------------
(* Breadth-first walks.                                                    *)

Full == query.op = "bfs" /\ Cardinality(nodes) >= query.limit

(* traverseBFS follows containment first, then calls, then the rest. *)
Priority(e) == CASE e[3] = "contains" -> 0 [] e[3] = "calls" -> 1 [] OTHER -> 2
InOrder(s) ==
    query.op = "bfs" => \A i, j \in DOMAIN s : i < j => Priority(s[i]) <= Priority(s[j])

Skip ==
    /\ Head(paths).node \in visited
    /\ paths' = Tail(paths)
    /\ UNCHANGED <<visited, nodes, edges>>

Visit_Deeper(step) ==
    LET fresh == IF Len(step.path) > query.depth THEN {}
                 ELSE {e \in Follow(step.node, round) :
                          Other(e, step.node) \notin visited \union {step.node}}
    IN /\ step.node \notin visited
       /\ visited' = visited \union {step.node}
       /\ edges' = IF query.op = "bfs" /\ step.path # <<>>
                   THEN edges \union {Last(step.path)} ELSE edges
       /\ nodes' = IF query.op = "bfs" THEN nodes \union {Other(e, step.node) : e \in fresh} ELSE nodes
       /\ \E s \in SetToSeqs(fresh) :
             /\ InOrder(s)
             /\ paths' = Tail(paths) \o
                   [i \in DOMAIN s |-> [node |-> Other(s[i], step.node),
                                        path |-> Append(step.path, s[i])]]
Visit(step) ==
    LET fresh == IF Len(step.path) >= query.depth THEN {}
                 ELSE {e \in Follow(step.node, round) :
                          Other(e, step.node) \notin visited \union {step.node}}
    IN /\ step.node \notin visited
       /\ visited' = visited \union {step.node}
       /\ edges' = IF query.op = "bfs" /\ step.path # <<>>
                   THEN edges \union {Last(step.path)} ELSE edges
       /\ nodes' = IF query.op = "bfs" THEN nodes \union {Other(e, step.node) : e \in fresh} ELSE nodes
       /\ \E s \in SetToSeqs(fresh) :
             /\ InOrder(s)
             /\ paths' = Tail(paths) \o
                   [i \in DOMAIN s |-> [node |-> Other(s[i], step.node),
                                        path |-> Append(step.path, s[i])]]

(* One iteration of the loop of traverseBFS or findPath. *)
TakeFromQueue ==
    /\ at = "walking"
    /\ paths # <<>>
    /\ ~Full
    /\ ~(query.op = "path" /\ Head(paths).node = query.to)
    /\ Skip \/ Visit(Head(paths))
    /\ UNCHANGED <<graph, query, at, stack, round, found>>

PathFound ==
    /\ at = "walking"
    /\ query.op = "path"
    /\ paths # <<>>
    /\ Head(paths).node = query.to
    /\ found' = {Head(paths).path}
    /\ at' = "done"
    /\ UNCHANGED <<graph, query, paths, stack, round, visited, nodes, edges>>

BreadthFirstEnds ==
    /\ at = "walking"
    /\ query.op \in BreadthFirst
    /\ paths = <<>> \/ Full
    /\ at' = "done"
    /\ UNCHANGED <<graph, query, paths, stack, round, visited, nodes, edges, found>>

----------------------------------------------------------------------------
(* Depth-first walks.                                                      *)

Top == Last(stack)
Below == Front(stack)

(* The members of a container are walked first, then what uses it. *)
FrameOf(n, d, r) ==
    IF query.op = "impact"
    THEN [node |-> n, depth |-> d, phase |-> "members", todo |-> Members(n)]
    ELSE [node |-> n, depth |-> d, phase |-> "users", todo |-> Follow(n, r)]

(* A recursive call for n at depth d in round r, with s left on the stack,  *)
(* `seen` visited and `answer` found: it returns at once or has a frame.    *)
Recurse(s, seen, answer, n, d, r) ==
    IF n \in seen \/ d >= query.depth \/ (query.op = "dfs" /\ Cardinality(answer) >= query.limit)
    THEN stack' = s /\ visited' = seen
    ELSE stack' = Append(s, FrameOf(n, d, r)) /\ visited' = seen \union {n}

Rounds == IF query.op \in {"callgraph", "hierarchy"} THEN 2 ELSE 1

(* getCallGraph walks callers and callees with a visited set each,         *)
(* getTypeHierarchy walks ancestors and descendants with one.              *)
BeginRound ==
    /\ at = "walking"
    /\ query.op \notin BreadthFirst \union {"cycles"}
    /\ stack = <<>>
    /\ round < Rounds
    /\ round' = round + 1
    /\ Recurse(<<>>, IF query.op = "callgraph" THEN {} ELSE visited, nodes, query.start, 0, round + 1)
    /\ UNCHANGED <<graph, query, at, paths, nodes, edges, found>>

(* getImpactRecursive tests the members against the visited nodes and the  *)
(* users against the answer, which the others do as well or not at all.    *)
Seen(n) ==
    IF query.op = "hierarchy" \/ (query.op = "impact" /\ Top.phase = "users")
    THEN n \in nodes ELSE n \in visited

TakeEdge ==
    /\ at = "walking"
    /\ query.op # "cycles"
    /\ stack # <<>>
    /\ \E e \in Top.todo :
          LET n == Other(e, Top.node)
              s == Append(Below, [Top EXCEPT !.todo = @ \ {e}])
          IN IF Seen(n)
             THEN stack' = s /\ UNCHANGED <<visited, nodes, edges>>
             ELSE /\ nodes' = nodes \union {n}
                  /\ edges' = edges \union {e}
                  /\ Recurse(s, visited, nodes', n,
                             IF Top.phase = "members" THEN Top.depth ELSE Top.depth + 1, round)
    /\ UNCHANGED <<graph, query, at, paths, round, found>>

WalkUsers ==
    /\ at = "walking"
    /\ stack # <<>>
    /\ Top.todo = {}
    /\ Top.phase = "members"
    /\ stack' = Append(Below, [Top EXCEPT !.phase = "users", !.todo = Follow(Top.node, round)])
    /\ UNCHANGED <<graph, query, at, paths, round, visited, nodes, edges, found>>

ReturnToCaller ==
    /\ at = "walking"
    /\ stack # <<>>
    /\ Top.todo = {}
    /\ Top.phase = "users"
    /\ stack' = Below
    /\ UNCHANGED <<graph, query, at, paths, round, visited, nodes, edges, found>>

DepthFirstEnds ==
    /\ at = "walking"
    /\ query.op \notin BreadthFirst \union {"cycles"}
    /\ stack = <<>>
    /\ round = Rounds
    /\ at' = "done"
    /\ UNCHANGED <<graph, query, paths, stack, round, visited, nodes, edges, found>>

----------------------------------------------------------------------------
(* findCircularDependencies: the frames are the recursion stack, their     *)
(* files the path.                                                         *)

OnPath(f) == {i \in DOMAIN stack : stack[i].node = f}

FrameOfFile(f) == [node |-> f, depth |-> Len(stack), phase |-> "users", todo |-> Follow(f, round)]

NextFile ==
    /\ at = "walking"
    /\ query.op = "cycles"
    /\ stack = <<>>
    /\ \E f \in Nodes \ visited :
          stack' = <<FrameOfFile(f)>> /\ visited' = visited \union {f}
    /\ UNCHANGED <<graph, query, at, paths, round, nodes, edges, found>>

TakeDependency ==
    /\ at = "walking"
    /\ query.op = "cycles"
    /\ stack # <<>>
    /\ \E e \in Top.todo :
          LET f == e[2]
              s == Append(Below, [Top EXCEPT !.todo = @ \ {e}])
          IN IF OnPath(f) # {}
             THEN /\ \E i \in OnPath(f) :
                        found' = found \union {[j \in 1..(Len(stack) - i + 1) |-> stack[i + j - 1].node]}
                  /\ stack' = s
                  /\ UNCHANGED visited
             ELSE /\ IF f \in visited
                     THEN stack' = s /\ UNCHANGED visited
                     ELSE stack' = Append(s, FrameOfFile(f)) /\ visited' = visited \union {f}
                  /\ UNCHANGED found
    /\ UNCHANGED <<graph, query, at, paths, round, nodes, edges>>

NoFileLeft ==
    /\ at = "walking"
    /\ query.op = "cycles"
    /\ stack = <<>>
    /\ Nodes \subseteq visited
    /\ at' = "done"
    /\ UNCHANGED <<graph, query, paths, stack, round, visited, nodes, edges, found>>

WalkNext ==
    \/ Ask \/ AskUnknown
    \/ TakeFromQueue \/ PathFound \/ BreadthFirstEnds
    \/ BeginRound \/ TakeEdge \/ WalkUsers \/ ReturnToCaller \/ DepthFirstEnds
    \/ NextFile \/ TakeDependency \/ NoFileLeft

WalkSpec == WalkInit /\ [][WalkNext]_walkVars

----------------------------------------------------------------------------
(* What the answers should be, without a walk.                             *)

(* The nodes of S, their members along the edges E, theirs, and so on. *)
Contained(E, n) == {e[2] : e \in {e \in E : e[1] = n /\ e[1] \in Containers /\ e[3] = "contains"}}
WithMembers(E, S) ==
    LET w[i \in 0..Unlimited] ==
          IF i = 0 THEN S ELSE w[i - 1] \union UNION {Contained(E, n) : n \in w[i - 1]}
    IN w[Unlimited]

(* One step further than S over the edges E, forwards (+1), backwards (-1) *)
(* or both ways (0); where `whole`, a step may also start at a member.     *)
Further(E, way, whole, S) ==
    LET from == IF whole THEN WithMembers(E, S) ELSE S
        Targets == {e[2] : e \in {e \in E : e[1] \in from}}
        Sources == {e[1] : e \in {e \in E : e[2] \in from}}
    IN from \union (IF way >= 0 THEN Targets ELSE {}) \union (IF way <= 0 THEN Sources ELSE {})

(* The nodes within d such steps of S0. *)
Within(S0, E, way, whole, d) ==
    LET w[i \in 0..d] == IF i = 0 THEN S0 ELSE Further(E, way, whole, w[i - 1])
    IN w[d]

OfKinds(kinds) == {e \in graph : e[3] \in kinds}

CallersWithin(d) == Within({query.start}, OfKinds(Uses), -1, FALSE, d)
CalleesWithin(d) == Within({query.start}, OfKinds(Uses), 1, FALSE, d)
SupertypesWithin(d) == Within({query.start}, OfKinds(Hierarchy), 1, FALSE, d)
SubtypesWithin(d) == Within({query.start}, OfKinds(Hierarchy), -1, FALSE, d)

Way == CASE query.dir = "outgoing" -> 1 [] query.dir = "incoming" -> -1 [] query.dir = "both" -> 0

(* An edge leads on only into a node of the wanted kinds. *)
Wanted ==
    {e \in graph : /\ Way >= 0 => e[2] \in query.only \union {query.start}
                   /\ Way <= 0 => e[1] \in query.only \union {query.start}}

Expected(d) ==
    CASE query.op = "impact" -> Within({query.start}, graph, -1, TRUE, d)
      [] query.op = "callers" -> CallersWithin(d)
      [] query.op = "callees" -> CalleesWithin(d)
      [] query.op = "callgraph" -> CallersWithin(d) \union CalleesWithin(d)
      [] query.op = "hierarchy" -> SupertypesWithin(d) \union SubtypesWithin(d)
      [] query.op \in {"bfs", "dfs"} -> Within({query.start}, Wanted, Way, FALSE, d)

Answered(op) == at = "done" /\ query.op = op /\ Known
Answer == nodes \union {query.start}
Limited == Cardinality(nodes) >= query.limit

----------------------------------------------------------------------------
(* Properties.                                                             *)

WalkTypeOK ==
    /\ graph \subseteq Relations
    /\ query \in Asks
    /\ at \in {"ready", "walking", "done"}
    /\ \A i \in DOMAIN paths : paths[i].node \in Nodes /\ paths[i].path \in Seq(graph)
    /\ \A i \in DOMAIN stack :
          /\ stack[i].node \in visited
          /\ stack[i].todo \subseteq graph
    /\ round \in 0..2
    /\ visited \subseteq Nodes
    /\ nodes \subseteq Nodes
    /\ edges \subseteq graph

(* traverseBFS finds exactly the nodes within the depth unless it stops at *)
(* the limit, and the edges it returns are a tree of shortest paths: each  *)
(* node is as near to the start in the answer as it is in the graph.       *)
BreadthFirstAnswer ==
    Answered("bfs") =>
        /\ Answer \subseteq Expected(query.depth)
        /\ ~Limited =>
              /\ Answer = Expected(query.depth)
              /\ \A d \in 0..query.depth : Within({query.start}, edges, Way, FALSE, d) = Expected(d)
              /\ Cardinality(edges) = Cardinality(Answer) - 1

(* The depth-first queries find nothing beyond the depth, miss nothing one *)
(* step away (for the impact of a class: from any of its members), and     *)
(* nothing at all when the depth does not bind.  In between they may miss  *)
(* a node first reached by a longer path than its shortest.                *)
DepthFirstAnswer ==
    \A op \in {"dfs", "callers", "callees", "callgraph", "impact"} :
        Answered(op) =>
            /\ Answer \subseteq Expected(query.depth)
            /\ ~(op = "dfs" /\ Limited) =>
                  /\ query.depth >= 1 => Expected(1) \subseteq Answer
                  /\ query.depth = Unlimited => Answer = Expected(Unlimited)

(* findPath returns a path of the graph from the one node to the other,    *)
(* none is shorter, and it returns null only if there is none.             *)
PathIsShortest ==
    Answered("path") =>
        LET Near(d) == Within({query.start}, graph, 1, FALSE, d)
        IN /\ found = {} => query.to \notin Near(Unlimited)
           /\ \A p \in found :
                 /\ \A i \in DOMAIN p :
                       /\ p[i] \in graph
                       /\ p[i][1] = IF i = 1 THEN query.start ELSE p[i - 1][2]
                 /\ query.to = IF p = <<>> THEN query.start ELSE Last(p)[2]
                 /\ p # <<>> => query.to \notin Near(Len(p) - 1)

(* What findCircularDependencies reports are cycles of imports without     *)
(* repetition, and it reports some if there are any.                       *)
CyclesAreFound ==
    Answered("cycles") =>
        LET Imports == OfKinds({"imports"})
            Onward(f) == {e[2] : e \in Out(f, {"imports"})}
        IN /\ \A c \in found :
                 /\ IsInjective(c)
                 /\ \A i \in DOMAIN c : c[(i % Len(c)) + 1] \in Onward(c[i])
           /\ found = {} =>
                 \A f \in Nodes : f \notin Within(Onward(f), Imports, 1, FALSE, Unlimited)

(* getTypeHierarchy finds every type above the start, and none that is     *)
(* neither above nor below it.                                             *)
SupertypesAreFound ==
    Answered("hierarchy") =>
        /\ SupertypesWithin(Unlimited) \subseteq nodes
        /\ nodes \subseteq Expected(Unlimited)

(* The walks that collect a subgraph find what reachability within their   *)
(* depth says, a path is a shortest one, and the cycles and supertypes     *)
(* there are are found.                                                    *)
WalksAnswer ==
    /\ WalkTypeOK /\ BreadthFirstAnswer /\ DepthFirstAnswer /\ PathIsShortest
    /\ CyclesAreFound /\ SupertypesAreFound

(* "Returns both ancestors (types this extends/implements) and descendants *)
(* (types that extend/implement this)" (getTypeHierarchy,                  *)
(* src/src/index.ts:785-786).                                              *)
SubtypesAreFound ==
    Answered("hierarchy") => SubtypesWithin(Unlimited) \subseteq nodes
=============================================================================

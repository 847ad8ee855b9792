------------------------------ MODULE Context ------------------------------
(***************************************************************************)
(* The part of the graph that a task is about (ContextBuilder of           *)
(* src/src/context/index.ts): four channels of search propose symbols,     *)
(* their scores are boosted and dampened, the best become entry points,    *)
(* the graph is expanded around them, and caps take it back to its budget. *)
(* What is shown then are the code of the most important symbols and the   *)
(* call paths between the entry points.                                    *)
(*                                                                         *)
(* A behaviour is one request; a step is a stage of findRelevantContext,   *)
(* or one root's turn in it.                                               *)
(***************************************************************************)
EXTENDS Search

CONSTANTS
    Worlds,       \* the graphs: sequences of edges <<source, target, kind>>
    Asks,         \* [op, query, limit, max, depth, kinds, least, blocks, gone]
    PerFile,      \* a file keeps at least so many symbols
    NonProd,      \* and so many symbols of tests stay
    Common        \* words that are no symbols of a query

VARIABLES
    world,        \* the graph, once it is read
    ask,
    pc,           \* the next stage
    results,      \* what the search proposes: [id, score]
    exact,        \* the ids of the first channels
    turn,         \* entry points, or types, whose turn is to come
    added,        \* hierarchyNodesAdded
    sub,          \* the subgraph: sequences nodes, edges and roots
    shown         \* [blocks, chains]: what buildContext shows

vars == <<world, ask, pc, results, exact, turn, added, sub, shown>>

Query == ask.query
Unreadable == ask.gone   \* files that are gone since they were indexed
Symbols == SelectSeq(Query.text, LAMBDA t : t.words \notin Common)
Names == Raised(Symbols)

Types == {"class", "interface", "struct", "trait", "protocol"}
Definitions == Types \union {"enum", "type_alias"}
Recoverable == {"calls", "extends", "implements", "references", "overrides"}

Nodes == ToSet(sub.nodes)
Roots == ToSet(sub.roots)
Add(s, x) == IF x \in ToSet(s) THEN s ELSE Append(s, x)
AddAll(s, more) == FoldLeft(Add, s, more)
Closed(edges, ids) == SelectSeq(edges, LAMBDA e : e[1] \in ids /\ e[2] \in ids)

Init ==
    /\ world = <<>>
    /\ ask \in Asks
    /\ pc = "exact"
    /\ results = <<>>
    /\ exact = {}
    /\ turn = <<>>
    /\ added = 0
    /\ sub = [nodes |-> <<>>, edges |-> <<>>, roots |-> <<>>]
    /\ shown = [blocks |-> <<>>, chains |-> <<>>]

Searching(stage, next) ==
    /\ pc = stage
    /\ pc' = next
    /\ UNCHANGED <<world, ask, turn, added, sub, shown>>
----------------------------------------------------------------------------
(* The channels.                                                           *)

\* Several names of the query in one file make each of them likelier.
CoLocated(s) ==
    LET NamesIn(f) == Cardinality({RowOf[i].name : i \in {j \in IdsOf(s) : RowOf[j].file = f}})
    IN ByScore([k \in DOMAIN s |-> [s[k] EXCEPT !.score = @ + 2000 * (NamesIn(RowOf[s[k].id].file) - 1)]])

\* Types whose names begin with a symbol, unless it is written like one.
Begun(symbol) ==
    LET hits == SelectSeq(SearchNodes(Plain(symbol.words, FALSE), Definitions, 30),
                          LAMBDA x : IsPrefix(symbol.words, RowOf[x.id].name))
        Brief(x) == Most(0, 10 - (4 * (Len(RowOf[x.id].name) - Len(symbol.words))) \div 3)
    IN IF symbol.case = "title" THEN <<>>
       ELSE Take(ByScore([k \in DOMAIN hits |-> [hits[k] EXCEPT !.score = @ + 1500 + 100 * Brief(hits[k])]]),
                 ask.limit)

Exact ==
    /\ Searching("exact", IF Query.text = <<>> THEN "done" ELSE "text")
    /\ LET named == Take(CoLocated(ByExactName(Names, ask.kinds, 5 * ask.limit)), 2 * ask.limit)
           Join(s, x) == IF x.id \in IdsOf(s) THEN s ELSE Append(s, x)
           all == FoldLeft(Join, named, FlattenSeq(Map(Symbols, Begun)))
       IN results' = Take(ByScore(all), 3 * ask.limit)
    /\ exact' = IdsOf(results')

\* Each term of the query by itself; a symbol that several find counts more.
Gathered(hits) ==
    LET ids == AddAll(<<>>, Map(FlattenSeq(hits), LAMBDA x : x.id))
        Scores(i) == {x.score : x \in {y \in UNION {ToSet(hits[k]) : k \in DOMAIN hits} : y.id = i}}
        Of(i) == Cardinality({k \in DOMAIN hits : i \in IdsOf(hits[k])})
        Score(i) == [id |-> i, score |-> CHOOSE m \in Scores(i) : \A n \in Scores(i) : n <= m]
    IN Take(ByScore(Map(ids, LAMBDA i : [Score(i) EXCEPT !.score = @ + 500 * (Of(i) - 1)])), 2 * ask.limit)
TextResults ==
    Gathered(Map(Terms(Query.text), LAMBDA t : SearchNodes(Plain(t, FALSE), ask.kinds, 2 * ask.limit)))

Merged(s, more) ==
    LET Join(acc, x) ==
          IF x.id \notin IdsOf(acc) THEN Append(acc, x)
          ELSE [k \in DOMAIN acc |-> IF acc[k].id = x.id THEN [x EXCEPT !.score = Most(@, acc[k].score)] ELSE acc[k]]
    IN FoldLeft(Join, s, more)

Text ==
    /\ Searching("text", "boost")
    /\ \E all \in {Merged(results, TextResults)} :
          results' = [k \in DOMAIN all |-> IF Test(all[k].id) /\ ~Query.test
                                        THEN [all[k] EXCEPT !.score = (@ * 3) \div 10] ELSE all[k]]
    /\ UNCHANGED exact

\* Terms within one another are one concept; a symbol that two concepts meet is
\* boosted, and one that was not asked for by name is dampened.
Concepts ==
    LET terms == SortSeq(Terms(Query.text), LAMBDA s, t : Len(s) > Len(t))
        Near(s, t) == Inside(s, t) \/ Inside(t, s)
        Join(groups, t) ==
          IF \E g \in DOMAIN groups : Near(groups[g][1], t)
          THEN LET g == CHOOSE g \in DOMAIN groups : Near(groups[g][1], t) /\ \A h \in 1..(g - 1) : ~Near(groups[h][1], t)
               IN [groups EXCEPT ![g] = Append(@, t)]
          ELSE Append(groups, <<t>>)
    IN FoldLeft(Join, <<>>, terms)
Met(i) ==
    LET dirs == {<<d>> : d \in ToSet(Place[RowOf[i].file].dirs)}
    IN Cardinality({g \in DOMAIN Concepts : \E t \in ToSet(Concepts[g]) : Inside(t, RowOf[i].name) \/ t \in dirs})

Boost ==
    /\ Searching("boost", "camel")
    /\ results' =
         IF Len(Terms(Query.text)) < 2 THEN results
         ELSE ByScore([k \in DOMAIN results |->
                LET m == Met(results[k].id)
                IN [results[k] EXCEPT !.score = IF m >= 2 THEN @ + (@ * m) \div 2
                                                ELSE IF results[k].id \in exact THEN @ ELSE (@ * 6) \div 10]])
    /\ UNCHANGED exact

\* Types with a symbol inside their name (step 5b), and types with two of the
\* symbols anywhere in it (step 5c).  Only a symbol of one word is found at a
\* boundary: its title case is no camel case.
Fresh(s) == SelectSeq(s, LAMBDA x : x.id \notin IdsOf(results) /\ (Test(x.id) => Query.test))
Brevity(i, words) == Most(0, 6 - (Len(RowOf[i].name) - words))
Camel ==
    LET Cands(t) == ByScore(Map(Fresh(BySubstring(t, Definitions, TRUE)), LAMBDA x :
                      [x EXCEPT !.score = 100 * (8 + Brevity(x.id, 1) + PathScore(RowOf[x.id].file, Query.text, Query.test))]))
        words == SelectSeq(AddAll(<<>>, Names), LAMBDA t : Len(t) = 1)
        hits == Map(words, LAMBDA t : Take(Cands(t), 4 * Half(ask.limit)))
        first == FoldLeft(LAMBDA acc, x : IF x.id \in IdsOf(acc) THEN acc ELSE Append(acc, x), <<>>, FlattenSeq(hits))
        Times(i) == Cardinality({k \in DOMAIN hits : i \in IdsOf(hits[k])})
    IN Take(ByScore(Map(first, LAMBDA x : [x EXCEPT !.score = @ * (1 + Times(x.id)) + 3000 * (Times(x.id) - 1)])),
            ask.limit)
Compound(sofar) ==
    LET hits == FlattenSeq(Map(AddAll(<<>>, Names), LAMBDA t : Fresh(BySubstring(t, Definitions, FALSE))))
        Times(i) == Cardinality({k \in DOMAIN hits : hits[k].id = i})
        some == SelectSeq(AddAll(<<>>, Map(hits, LAMBDA x : x.id)),
                          LAMBDA i : Times(i) >= 2 /\ i \notin IdsOf(sofar))
        Score(i) == 100 * (10 + 20 * (Times(i) - 1) + Brevity(i, Len(RowOf[i].name) \div 2)
                           + PathScore(RowOf[i].file, Query.text, Query.test))
    IN IF Len(Names) < 2 THEN <<>>
       ELSE Take(ByScore(Map(some, LAMBDA i : [id |-> i, score |-> Score(i)])), Half(ask.limit))

CamelCase ==
    /\ Searching("camel", "cut")
    /\ \E camel \in {Camel} : results' = results \o camel \o Compound(camel)
    /\ UNCHANGED exact
----------------------------------------------------------------------------
(* The entry points, and the graph around them.                            *)

Edges == ToSet(world)
Leaving(graph, i, kinds) == SelectSeq(graph, LAMBDA e : e[1] = i /\ e[3] \in kinds)
OutOf(i, kinds) == Leaving(world, i, kinds)

\* resolveImportsToDefinitions: an import stands for what it imports.
Resolved(graph, s) ==
    LET Defined(x, kind) == Map(Leaving(graph, x.id, {kind}), LAMBDA e : [x EXCEPT !.id = e[2]])
        Means(x) == CASE RowOf[x.id].kind = "import" -> Defined(x, "imports")
                      [] RowOf[x.id].kind = "export" -> Defined(x, "exports")
                      [] OTHER -> <<x>>
    IN FoldLeft(LAMBDA acc, x : IF x.id \in IdsOf(acc) THEN acc ELSE Append(acc, x), <<>>, FlattenSeq(Map(s, Means)))

\* The graph is read here for the first time: which one it is need not be known before.
Cut ==
    /\ pc = "cut"
    /\ world' \in Worlds
    /\ results' = Take(Resolved(world', SelectSeq(Take(ByScore(results), 3 * ask.limit), LAMBDA x : x.score >= ask.least)),
                       ask.limit)
    /\ LET ids == Map(results', LAMBDA x : x.id)
       IN /\ sub' = [nodes |-> ids, edges |-> <<>>, roots |-> ids]
          /\ turn' = SelectSeq(ids, LAMBDA i : RowOf[i].kind \in Types)
    /\ pc' = "types"
    /\ UNCHANGED <<ask, exact, added, shown>>

\* getTypeHierarchy: the supertypes, each by the edge that reached it.  The walk
\* to the subtypes begins at a node the first walk has visited, and ends there.
Hierarchy(i) ==
    LET RECURSIVE Up(_, _)
        Up(todo, acc) ==
          IF todo = <<>> THEN acc
          ELSE LET e == Head(todo)
               IN IF e[2] \in ToSet(acc.nodes) THEN Up(Tail(todo), acc)
                  ELSE Up(OutOf(e[2], {"extends", "implements"}) \o Tail(todo),
                          [nodes |-> Append(acc.nodes, e[2]), edges |-> Append(acc.edges, e)])
    IN Up(OutOf(i, {"extends", "implements"}), [nodes |-> <<i>>, edges |-> <<>>])

TypeBudget == (ask.max + 3) \div 4

\* The entry points' turn takes every supertype, over the budget if need be.
ExpandType ==
    /\ pc = "types"
    /\ turn # <<>> /\ added < TypeBudget
    /\ LET h == Hierarchy(Head(turn))
       IN /\ sub' = [sub EXCEPT !.nodes = AddAll(@, h.nodes), !.edges = AddAll(@, h.edges)]
          /\ added' = added + Len(sub'.nodes) - Len(sub.nodes)
    /\ turn' = Tail(turn)
    /\ UNCHANGED <<world, ask, pc, results, exact, shown>>

TypesExpanded ==
    /\ pc = "types"
    /\ turn = <<>> \/ added >= TypeBudget
    /\ pc' = "siblings"
    /\ turn' = IF added = 0 THEN <<>>
               ELSE SelectSeq(sub.nodes, LAMBDA i : RowOf[i].kind \in Types /\ i \notin Roots)
    /\ UNCHANGED <<world, ask, results, exact, added, sub, shown>>

\* The types that were found have theirs, within the budget.
ExpandSibling ==
    /\ pc = "siblings"
    /\ turn # <<>> /\ added < TypeBudget
    /\ LET h == Hierarchy(Head(turn))
           fresh == Take(SelectSeq(h.nodes, LAMBDA i : i \notin Nodes), TypeBudget - added)
           nodes == sub.nodes \o fresh
       IN /\ sub' = [sub EXCEPT !.nodes = nodes, !.edges = AddAll(@, Closed(h.edges, ToSet(nodes)))]
          /\ added' = added + Len(fresh)
    /\ turn' = Tail(turn)
    /\ UNCHANGED <<world, ask, pc, results, exact, shown>>

SiblingsExpanded ==
    /\ pc = "siblings"
    /\ turn = <<>> \/ added >= TypeBudget
    /\ pc' = "walk"
    /\ turn' = sub.roots
    /\ UNCHANGED <<world, ask, results, exact, added, sub, shown>>

\* traverseBFS, in both directions: what is contained first, then calls.
Around(i) ==
    LET Of(kinds) == SelectSeq(world, LAMBDA e : i \in {e[1], e[2]} /\ e[3] \in kinds)
        rest == SelectSeq(world, LAMBDA e : i \in {e[1], e[2]} /\ e[3] \notin {"contains", "calls"})
    IN Of({"contains"}) \o Of({"calls"}) \o rest
Walk(start, limit) ==
    LET RECURSIVE Visit(_, _, _)
        Visit(queue, seen, acc) ==
          IF queue = <<>> \/ Len(acc.nodes) >= limit THEN acc
          ELSE IF Head(queue).id \in seen THEN Visit(Tail(queue), seen, acc)
          ELSE LET step == Head(queue)
                   edges == IF step.depth = 0 THEN acc.edges ELSE Append(acc.edges, step.edge)
                   Other(e) == IF e[1] = step.id THEN e[2] ELSE e[1]
                   next == IF step.depth >= ask.depth THEN <<>>
                           ELSE SelectSeq(Around(step.id), LAMBDA e :
                                  /\ Other(e) \notin seen \union {step.id}
                                  /\ ask.kinds = {} \/ RowOf[Other(e)].kind \in ask.kinds)
               IN Visit(Tail(queue) \o Map(next, LAMBDA e : [id |-> Other(e), edge |-> e, depth |-> step.depth + 1]),
                        seen \union {step.id},
                        [nodes |-> AddAll(acc.nodes, Map(next, Other)), edges |-> edges])
    IN Visit(<<[id |-> start, edge |-> <<>>, depth |-> 0]>>, {}, [nodes |-> <<start>>, edges |-> <<>>])

WalkFrom ==
    /\ pc = "walk"
    /\ turn # <<>>
    /\ LET walk == Walk(Head(turn), (ask.max + Len(sub.roots) - 1) \div Len(sub.roots))
       IN sub' = [sub EXCEPT !.nodes = AddAll(@, walk.nodes), !.edges = AddAll(@, walk.edges)]
    /\ turn' = Tail(turn)
    /\ UNCHANGED <<world, ask, pc, results, exact, added, shown>>

AllWalked ==
    /\ pc = "walk"
    /\ turn = <<>>
    /\ pc' = "trim"
    /\ UNCHANGED <<world, ask, results, exact, turn, added, sub, shown>>
----------------------------------------------------------------------------
(* The caps.                                                               *)

Capping(stage, next) ==
    /\ pc = stage
    /\ pc' = next
    /\ UNCHANGED <<world, ask, results, exact, turn, added, shown>>

\* Entry points first, then what an edge joins to a symbol that is preferred
\* already, in the order of the edges; then the rest.
Preferred ==
    LET Join(acc, e) ==
          LET one == IF e[1] \in ToSet(acc) THEN Add(acc, e[2]) ELSE acc
          IN IF e[2] \in ToSet(one) THEN Add(one, e[1]) ELSE one
    IN SelectSeq(FoldLeft(Join, sub.roots, sub.edges), LAMBDA i : i \in Nodes)
Trim(nodes) == Take(AddAll(Preferred, nodes), ask.max)

TrimToBudget ==
    /\ Capping("trim", "files")
    /\ sub' = IF Len(sub.nodes) <= ask.max THEN sub
              ELSE [sub EXCEPT !.nodes = Trim(sub.nodes), !.edges = Closed(@, ToSet(Trim(sub.nodes)))]

Rank_ByKind(i) == IF RowOf[i].kind \in Types \union {"enum"} THEN 3 ELSE IF RowOf[i].kind \in {"method", "function"} THEN 1 ELSE 0
Rank(i) ==
    (IF i \in Roots THEN 10 ELSE 0)
    + (CASE RowOf[i].kind \in Types \union {"enum"} -> 3
         [] RowOf[i].kind \in {"method", "function"} -> 1
         [] OTHER -> 0)
MaxPerFile == Most(PerFile, (ask.max + 4) \div 5)
KeptOf(f) ==
    Take(ByScore(Map(SelectSeq(sub.nodes, LAMBDA i : RowOf[i].file = f), LAMBDA i : [id |-> i, score |-> Rank(i)])),
         MaxPerFile)

\* An entry point that is taken out of its file's nodes stays among the roots.
CapFiles ==
    /\ Capping("files", "tests")
    /\ sub' = [sub EXCEPT !.nodes = SelectSeq(@, LAMBDA i : i \in IdsOf(KeptOf(RowOf[i].file)))]

MaxTests == Most(NonProd, (3 * ask.max + 19) \div 20)
Evicted ==
    LET tests == SelectSeq(sub.nodes, Test)
    IN IF Query.test THEN {} ELSE ToSet(SubSeq(tests, MaxTests + 1, Len(tests)))

CapTests ==
    /\ Capping("tests", "recover")
    /\ sub' = [sub EXCEPT !.nodes = SelectSeq(@, LAMBDA i : i \notin Evicted),
                          !.roots = SelectSeq(@, LAMBDA i : i \notin Evicted)]

\* findEdgesBetweenNodes: the edges of the graph between what was kept.
Recovered(edges, ids) ==
    AddAll(Closed(edges, ids), SelectSeq(Closed(world, ids), LAMBDA e : e[3] \in Recoverable))

Recover ==
    /\ Capping("recover", ask.op)
    /\ sub' = [sub EXCEPT !.edges = Recovered(@, Nodes)]
----------------------------------------------------------------------------
(* What is shown of it (buildContext).                                     *)

Important ==
    LET others(kinds) == SelectSeq(sub.nodes, LAMBDA i : i \notin Roots /\ RowOf[i].kind \in kinds)
    IN SelectSeq(sub.roots, LAMBDA i : i \in Nodes) \o others({"function", "method"}) \o others({"class"})
Blocks == Take(SelectSeq(Important, LAMBDA i : RowOf[i].file \notin Unreadable), ask.blocks)

\* buildCallPathsSection: the simple paths of calls from the entry points that
\* cannot be continued, or are six symbols long.  The instance stays below the
\* two thousand calls that the search may make, and below five entry points.
MaxHops == 6
Callees(i) == AddAll(<<>>, Map(SelectSeq(sub.edges, LAMBDA e : e[1] = i /\ e[3] = "calls"), LAMBDA e : e[2]))
Chains(start) ==
    LET RECURSIVE From(_)
        From(path) ==
          LET next == SelectSeq(Callees(Last(path)), LAMBDA i : i \notin ToSet(path))
          IN IF next = <<>> \/ Len(path) >= MaxHops THEN IF Len(path) >= 3 THEN <<path>> ELSE <<>>
             ELSE FlattenSeq(Map(next, LAMBDA i : From(Append(path, i))))
    IN From(<<start>>)
RootsOn(path) == Cardinality(ToSet(path) \cap Roots)
Kept_Any(chains) == Take(chains, 3)
Kept(chains) ==
    LET some == SelectSeq(chains, LAMBDA c : RootsOn(c) >= 2)
        order == ByScore(Map(some, LAMBDA c : [path |-> c, score |-> 100 * RootsOn(c) + Len(c)]))
        Keep(acc, x) == IF \E k \in ToSet(acc) : Inside(x.path, k) THEN acc ELSE Append(acc, x.path)
    IN Take(FoldLeft(Keep, <<>>, order), 3)
Starts ==
    LET callers == SelectSeq(sub.nodes, LAMBDA i : Callees(i) # <<>>)
    IN Take(IF sub.roots = <<>> THEN callers ELSE SelectSeq(sub.roots, LAMBDA i : i \in ToSet(callers)), 5)

Show ==
    /\ pc = "context"
    /\ pc' = "done"
    /\ shown' = [blocks |-> Blocks, chains |-> Kept(FlattenSeq(Map(Starts, Chains)))]
    /\ UNCHANGED <<world, ask, results, exact, turn, added, sub>>

Next ==
    \/ Exact \/ Text \/ Boost \/ CamelCase \/ Cut
    \/ ExpandType \/ TypesExpanded \/ ExpandSibling \/ SiblingsExpanded \/ WalkFrom \/ AllWalked
    \/ TrimToBudget \/ CapFiles \/ CapTests \/ Recover
    \/ Show

Spec == Init /\ [][Next]_vars
----------------------------------------------------------------------------
(* What it promises.                                                       *)

OfFile(f) == {i \in Nodes : RowOf[i].file = f}

TypeOK ==
    /\ results \in Seq([id : Ids, score : Int])
    /\ exact \subseteq Ids
    /\ Nodes \subseteq Ids /\ Roots \subseteq Ids /\ ToSet(sub.edges) \subseteq Edges
    /\ IsInjective(sub.nodes) /\ IsInjective(sub.edges) /\ IsInjective(sub.roots)
    /\ IsInjective(Map(results, LAMBDA x : x.id))

\* The subgraph keeps its budget, its share for a file and for tests; its edges
\* join symbols that are in it, and none that tells how they use one another is
\* missing (findRelevantContext).
SubgraphIsWhole ==
    pc = ask.op =>
        /\ Len(sub.nodes) <= ask.max
        /\ \A i \in Nodes : Cardinality(OfFile(RowOf[i].file)) <= MaxPerFile
        /\ Query.test \/ Cardinality({i \in Nodes : Test(i)}) <= MaxTests
        /\ \A e \in ToSet(sub.edges) : {e[1], e[2]} \subseteq Nodes
        /\ \A e \in Edges : {e[1], e[2]} \subseteq Nodes /\ e[3] \in Recoverable => e \in ToSet(sub.edges)

\* What the search proposed stays before anything that the graph added: an entry
\* point is only missing where entry points alone fill the budget, or its file,
\* or where it is one test of too many (findRelevantContext).
EntryPointsStay ==
    pc = ask.op =>
        \A k \in DOMAIN results :
            LET i == results[k].id
            IN \/ i \in Nodes
               \/ Test(i) /\ ~Query.test /\ Cardinality({j \in Nodes : Test(j)}) = MaxTests
               \/ Len(results) > ask.max
               \/ Cardinality(OfFile(RowOf[i].file) \cap IdsOf(results)) = MaxPerFile

\* The simple paths of at most MaxHops symbols that begin with an entry point.
Paths ==
    LET e == {<<f[1], f[2]>> : f \in {g \in ToSet(sub.edges) : g[3] = "calls"}}
        p[n \in 1..MaxHops] ==
          IF n = 1 THEN {<<i>> : i \in ToSet(Take(SelectSeq(sub.roots, LAMBDA i : \E f \in e : f[1] = i), 5))}
          ELSE UNION {Q \union UNION {{Append(q, i) : i \in {j \in Nodes : <<Last(q), j>> \in e /\ j \notin ToSet(q)}} : q \in Q}
                      : Q \in {p[n - 1]}}
    IN p[MaxHops]

\* The call paths that are shown are calls from an entry point that lead to
\* another one; none repeats a part of another, and there are some wherever a
\* path of three symbols meets two entry points (buildCallPathsSection).
CallPathsAreFlows ==
    pc = "done" /\ ask.op = "context" /\ Roots # {} =>
        LET flows == {p \in Paths : Len(p) >= 3 /\ RootsOn(p) >= 2}
        IN /\ ToSet(shown.chains) \subseteq flows
           /\ \A j, k \in DOMAIN shown.chains : j # k => ~Inside(shown.chains[j], shown.chains[k])
           /\ flows # {} => shown.chains # <<>>

\* Code is shown of entry points first (extractCodeBlocks).
CodeIsOfEntryPoints ==
    pc = "done" /\ ask.op = "context" =>
        \A k \in DOMAIN shown.blocks :
            \/ shown.blocks[k] \in Roots
            \/ \A i \in Roots \cap Nodes : RowOf[i].file \in Unreadable \/ i \in ToSet(shown.blocks)

ContextInv == TypeOK /\ SubgraphIsWhole /\ EntryPointsStay /\ CodeIsOfEntryPoints

\* A comment says that "subclasses and superclasses always appear in results":
\* subclasses do not, for the walk to them ends where it begins.
HierarchyIsShown ==
    pc = "done" =>
        \A e \in Edges : e[3] \in {"extends", "implements"} /\ e[2] \in Roots => e[1] \in Nodes
=============================================================================

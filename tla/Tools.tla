------------------------------- MODULE Tools --------------------------------
(***************************************************************************)
(* What the tools of the MCP server answer (src/src/mcp/tools.ts).  The    *)
(* tools for one symbol look it up by name and say who calls it, what it   *)
(* calls, or which calls lead from it to another one.  codegraph_explore   *)
(* takes the subgraph of Context, adds the symbols that join its entry     *)
(* points, and shows the source of the files it lies in, within a budget.  *)
(*                                                                         *)
(* A line of source counts as one character, separators and headers of     *)
(* sections as none.  Left out: codegraph_impact (see Traversal), _status, *)
(* _files, _search (see Search), the Relationships section, and notes.     *)
(***************************************************************************)
EXTENDS Context

CONSTANTS
    Scope,        \* id -> the names of the symbols around it, outermost first
    Span,         \* id -> <<startLine, endLine>>
    LineOf,       \* edge -> the line of the use, or 0
    Lines,        \* file -> the lines it has now
    LowValue,     \* files of tests, icons and translations
    Padding,      \* contextPadding
    GlueCap,      \* GLUE_NODE_CAP
    Wide, Narrow, \* the limits of the lookups: of all symbols, of one
    MaxSteps,     \* MAX_HOPS of codegraph_trace
    FewHits       \* a name with no more symbols than this is not ambiguous

VARIABLES
    glue,         \* glueNodeIds
    left,         \* the files whose turn is to come
    total,        \* totalChars
    blocks,       \* the source shown: [file, lines, whole, cut]
    out           \* the answer

toolVars == <<vars, glue, left, total, blocks, out>>

Budget == ask.budget     \* [total, file, whole, gap, header, least]

Unanswered == [of |-> <<>>, list |-> <<>>, path |-> <<>>]
ToolInit ==
    /\ world = <<>>
    /\ ask \in Asks
    /\ pc = IF ask.op \in {"context", "explore"} THEN "exact" ELSE "symbol"
    /\ results = <<>> /\ exact = {} /\ turn = <<>> /\ added = 0
    /\ sub = [nodes |-> <<>>, edges |-> <<>>, roots |-> <<>>]
    /\ shown = [blocks |-> <<>>, chains |-> <<>>]
    /\ glue = {} /\ left = <<>> /\ total = 0 /\ blocks = <<>>
    /\ out = Unanswered
----------------------------------------------------------------------------
(* Symbols by name: [hints, last, colon], what stands before the last      *)
(* separator and behind it, and whether the separators are colons.         *)

Qualified(symbol) == symbol.hints # <<>>
RustPrefixes == {<<"crate">>, <<"super">>, <<"self">>}

\* matchesSymbol: the qualified name contains the symbol, or the path does.
InScope(i, symbol) ==
    LET names == Append(Scope[i], RowOf[i].name)
        parts == Append(symbol.hints, symbol.last)
        n == Len(parts)
    IN \E k \in 0..(Len(names) - n) :
          /\ IsSuffix(parts[1], names[k + 1])
          /\ \A j \in 2..(n - 1) : parts[j] = names[k + j]
          /\ IsPrefix(parts[n], names[k + n])
OnPath(i, symbol) ==
    LET hints == ToSet(symbol.hints) \ RustPrefixes
        place == Place[RowOf[i].file]
    IN hints # {} /\ \A h \in hints : h = place.base \/ h \in {<<d>> : d \in ToSet(place.dirs)}
MatchesSymbol(i, symbol) ==
    RowOf[i].name = symbol.last /\ (Qualified(symbol) => InScope(i, symbol) \/ OnPath(i, symbol))

\* The full-text search drops colons, and what they joined is found nowhere.
Named(words, limit) == Map(SearchNodes(Plain(words, FALSE), {}, limit), LAMBDA x : x.id)
OrItsLast(ids, symbol, limit) ==
    IF ids = <<>> /\ Qualified(symbol) THEN Named(symbol.last, limit) ELSE ids
Looked(symbol, limit) ==
    OrItsLast(IF Qualified(symbol) /\ symbol.colon THEN <<>>
              ELSE Named(Joined(Append(symbol.hints, symbol.last)), limit), symbol, limit)
Matches(ids, symbol) == SelectSeq(ids, LAMBDA i : MatchesSymbol(i, symbol))
MatchesOr(ids, symbol, others) == IF Matches(ids, symbol) # <<>> THEN Matches(ids, symbol) ELSE others

\* findSymbol: the first that matches, or what else was found unless the symbol is qualified.
FindSymbol_Anyway(symbol) == Take(Looked(symbol, IF Qualified(symbol) THEN Wide ELSE Narrow), 1)
Preferred1(ids, symbol) == Take(MatchesOr(ids, symbol, IF Qualified(symbol) THEN <<>> ELSE ids), 1)
FindSymbol(symbol) == Preferred1(Looked(symbol, IF Qualified(symbol) THEN Wide ELSE Narrow), symbol)

\* findAllSymbols: every one that matches, or what else was found.
AllOr1(ids, symbol) == MatchesOr(ids, symbol, Take(ids, 1))
FindAllSymbols(symbol) == AllOr1(Looked(symbol, Wide), symbol)

\* getCallers and getCallees, one step deep; a symbol is not its own neighbour.
Uses == {"calls", "references", "imports"}
CallersOf(graph, i) == Map(SelectSeq(graph, LAMBDA e : e[2] = i /\ e[1] # i /\ e[3] \in Uses), LAMBDA e : e[1])
CalleesOf(graph, i) == Map(SelectSeq(graph, LAMBDA e : e[1] = i /\ e[2] # i /\ e[3] \in Uses), LAMBDA e : e[2])
----------------------------------------------------------------------------
(* The tools for a symbol: each reads the graph and answers at once.       *)

Handling(op) ==
    /\ pc = "symbol" /\ ask.op = op
    /\ world' \in Worlds
    /\ pc' = "answered"
    /\ UNCHANGED <<ask, results, exact, turn, added, sub, shown, glue, left, total, blocks>>

Aggregated(of, Neighbours(_)) ==
    Take(AddAll(<<>>, FlattenSeq(Map(of, Neighbours))), ask.limit)
HandleCallers ==
    /\ Handling("callers")
    /\ \E of \in {FindAllSymbols(ask.symbol)} :
          out' = [Unanswered EXCEPT !.of = of, !.list = Aggregated(of, LAMBDA i : CallersOf(world', i))]
HandleCallees ==
    /\ Handling("callees")
    /\ \E of \in {FindAllSymbols(ask.symbol)} :
          out' = [Unanswered EXCEPT !.of = of, !.list = Aggregated(of, LAMBDA i : CalleesOf(world', i))]

\* The trail of a symbol; of a container, its members too (buildContainerOutline).
HandleNode ==
    /\ Handling("node")
    /\ LET Trail(i) == Take(AddAll(<<>>, CalleesOf(world', i)), ask.limit) \o Take(AddAll(<<>>, CallersOf(world', i)), ask.limit)
           Outline(i) == Map(Leaving(world', i, {"contains"}), LAMBDA e : e[2])
       IN \E of \in {FindSymbol(ask.symbol)} :
             out' = [Unanswered EXCEPT !.of = of, !.list = FlattenSeq(Map(of, LAMBDA i : Outline(i) \o Trail(i)))]

\* findPath over calls: breadth first, so a shortest path.
Step(graph, i) == Map(Leaving(graph, i, {"calls"}), LAMBDA e : e[2])
FindPath(graph, from, to) ==
    LET RECURSIVE Search(_, _)
        Search(queue, seen) ==
          IF queue = <<>> THEN <<>>
          ELSE LET path == Head(queue)
                   i == Last(path)
                   next == SelectSeq(Step(graph, i), LAMBDA j : j \notin seen \union {i})
               IN IF i = to THEN path
                  ELSE IF i \in seen THEN Search(Tail(queue), seen)
                  ELSE Search(Tail(queue) \o Map(next, LAMBDA j : Append(path, j)), seen \union {i})
    IN Search(<<<<from>>>>, {})

\* The first of nine pairs between which there is a path that is not too long.
Candidates9(from, to) ==
    FlattenSeq(Map(Take(from, 3), LAMBDA f : Map(Take(to, 3), LAMBDA t : <<f, t>>)))
HandleTrace ==
    /\ Handling("trace")
    /\ \E from \in {FindAllSymbols(ask.symbol)}, to \in {FindAllSymbols(ask.to)} :
       LET paths == Map(Candidates9(from, to), LAMBDA p : FindPath(world', p[1], p[2]))
           usable == SelectSeq(paths, LAMBDA p : Len(p) \in 2..MaxSteps)
           path == IF usable = <<>> THEN <<>> ELSE Head(usable)
           beyond(i) == SelectSeq(CalleesOf(world', i), LAMBDA j : j \notin ToSet(path))
       IN out' = [of |-> <<from, to>>, path |-> path,
                  list |-> IF from = <<>> \/ to = <<>> THEN <<>>
                           ELSE IF path = <<>> THEN CalleesOf(world', Head(from)) ELSE beyond(Last(path))]
----------------------------------------------------------------------------
(* codegraph_explore: the symbols that join the entry points, the files in *)
(* the order of their relevance, and one step for each file.               *)

\* Callers and callees of the entry points, in files that are there already.
Glued ==
    LET files == {RowOf[i].file : i \in Nodes}
        around == FlattenSeq(Map(sub.roots, LAMBDA i : CallersOf(world, i) \o CalleesOf(world, i)))
    IN Take(SelectSeq(AddAll(<<>>, around), LAMBDA i : i \notin Nodes /\ RowOf[i].file \in files), GlueCap)

\* The files of the symbols that are neither imports nor exports, their
\* symbols, and what those count.
Real(s) == SelectSeq(s, LAMBDA i : RowOf[i].kind \notin {"import", "export"})
Group(f) == SelectSeq(Real(sub.nodes), LAMBDA i : RowOf[i].file = f)
Groups == AddAll(<<>>, Map(Real(sub.nodes), LAMBDA i : RowOf[i].file))
Connected == {i \in Ids : \E e \in ToSet(sub.edges) : i \in {e[1], e[2]} /\ ({e[1], e[2]} \ {i}) \cap Roots # {}}
Worth(i) == IF i \in Roots THEN 10 ELSE IF i \in Connected THEN 3 ELSE 1
FileScore(f) == FoldLeft(LAMBDA sum, i : sum + Worth(i), 0, Group(f))

Ordered(files, Score(_)) == Map(ByScore(Map(files, LAMBDA f : [file |-> f, score |-> Score(f)])), LAMBDA x : x.file)

\* What the query names comes first, files of tests last; then the score.
Speaks(f) ==
    \E k \in DOMAIN Query.text :
        LET t == Query.text[k].words
        IN \/ Inside(t, Place[f].base) \/ t \in {<<d>> : d \in ToSet(Place[f].dirs)}
           \/ \E i \in ToSet(Group(f)) : Inside(t, RowOf[i].name)
Sorted ==
    LET relevant == SelectSeq(Groups, LAMBDA f : FileScore(f) >= 3)
        Score(f) == (IF Speaks(f) THEN 2000000 ELSE 0) + (IF f \in LowValue THEN 0 ELSE 1000000)
                    + 1000 * FileScore(f) + Len(Group(f))
    IN Ordered(relevant, Score)

Glue ==
    /\ pc = "explore"
    /\ glue' = ToSet(Glued)
    /\ sub' = [sub EXCEPT !.nodes = @ \o Glued]
    /\ pc' = IF Query.text = <<>> \/ sub.nodes = <<>> THEN "done" ELSE "sorting"
    /\ UNCHANGED <<world, ask, results, exact, turn, added, shown, left, total, blocks, out>>

SortFiles ==
    /\ pc = "sorting"
    /\ left' = Sorted
    /\ pc' = "source"
    /\ UNCHANGED <<world, ask, results, exact, turn, added, sub, shown, glue, total, blocks, out>>

\* The ranges of lines that matter in a file, by their first line: symbols that
\* are no envelope of half the file, and the places where they use others.
Envelopes == {"file", "module", "class", "struct", "interface", "enum", "namespace", "protocol", "trait", "component"}
Importance(i) == IF i \in Roots THEN 10 ELSE IF i \in glue THEN 6 ELSE IF i \in Connected THEN 3 ELSE 1
Envelope(i) == RowOf[i].kind \in Envelopes /\ 2 * (Span[i][2] - Span[i][1] + 1) > Lines[RowOf[i].file]
Ranges(f) ==
    LET symbols == SelectSeq(Group(f), LAMBDA i : ~Envelope(i))
        lined == SelectSeq(FlattenSeq(Map(Group(f), LAMBDA i : SelectSeq(world, LAMBDA e : e[1] = i))),
                           LAMBDA e : LineOf[e] > 0 /\ e[3] # "contains")
        places == AddAll(<<>>, Map(lined, LAMBDA e : <<LineOf[e], e[2]>>))
        all == Map(symbols, LAMBDA i : [start |-> Span[i][1], end |-> Span[i][2], importance |-> Importance(i)])
               \o Map(places, LAMBDA p : [start |-> p[1], end |-> p[1], importance |-> 2])
        order == ByScore([k \in DOMAIN all |-> [at |-> k, score |-> -all[k].start]])
    IN Map(order, LAMBDA x : all[x.at])

\* Ranges that are near one another are one cluster.
Joins(cluster, r) == r.start <= cluster.end + Budget.gap
Clusters(f) ==
    LET New(r) == [start |-> r.start, end |-> r.end, score |-> r.importance, most |-> r.importance]
        Grow(acc, r) ==
          IF acc = <<>> \/ ~Joins(Last(acc), r) THEN Append(acc, New(r))
          ELSE [acc EXCEPT ![Len(acc)] = [start |-> @.start, end |-> Most(@.end, r.end),
                                          score |-> @.score + r.importance, most |-> Most(@.most, r.importance)]]
    IN FoldLeft(Grow, <<>>, Ranges(f))

\* The lines of a cluster with some around it, as far as the file goes.
Section(f, c) ==
    LET first == Most(1, c.start - Padding)
        last == IF c.end + Padding < Lines[f] THEN c.end + Padding ELSE Lines[f]
    IN [k \in 1..Most(0, last - first + 1) |-> first + k - 1]

\* A cluster with an entry point outranks a dense one.
Outranks(c, d) ==
    LET span(x) == x.end - x.start + 1
        dense(x, y) == x.score * span(y)
    IN \/ c.most > d.most
       \/ c.most = d.most /\ dense(c, d) > dense(d, c)
       \/ c.most = d.most /\ dense(c, d) = dense(d, c) /\ c.score > d.score
       \/ c.most = d.most /\ dense(c, d) = dense(d, c) /\ c.score = d.score /\ span(c) < span(d)
Chosen(f, clusters) ==
    LET ranked == SortSeq([k \in DOMAIN clusters |-> k],
                          LAMBDA j, k : Outranks(clusters[j], clusters[k])
                                        \/ (~Outranks(clusters[k], clusters[j]) /\ j < k))
        Length(k) == Len(Section(f, clusters[k]))
        Choose(acc, k) == IF acc.ids # {} /\ acc.chars + Length(k) > Budget.file THEN acc
                          ELSE [ids |-> acc.ids \union {k}, chars |-> acc.chars + Length(k)]
        chosen == FoldLeft(Choose, [ids |-> {}, chars |-> 0], ranked).ids
    IN SelectSeq([k \in DOMAIN clusters |-> k], LAMBDA k : k \in chosen)
Whole(f) == Lines[f] <= Budget.whole /\ Lines[f] <= 3 * Budget.file
Sections(f, clusters) == FlattenSeq(Map(Chosen(f, clusters), LAMBDA k : Section(f, clusters[k])))
AllOf(f) == IF Whole(f) THEN [k \in 1..Lines[f] |-> k] ELSE Sections(f, Clusters(f))
Capped(f, text) == IF Whole(f) THEN text ELSE Take(text, Budget.file)

Shows ==
    /\ pc = "source"
    /\ UNCHANGED <<world, ask, results, exact, turn, added, sub, shown, glue, out>>
Full == Len(blocks) >= ask.files \/ 10 * total > 9 * Budget.total
Skipped(f) == f \in Unreadable \/ (~Whole(f) /\ Ranges(f) = <<>>)
Remaining == Budget.total - total - Budget.header

SkipFile ==
    /\ Shows
    /\ left # <<>> /\ ~Full /\ Skipped(Head(left))
    /\ left' = Tail(left)
    /\ UNCHANGED <<pc, total, blocks>>

\* A section that does not fit is cut to what remains; one in clusters is the last then.
ShowFile ==
    /\ Shows
    /\ left # <<>> /\ ~Full /\ ~Skipped(Head(left))
    /\ \E f \in {Head(left)}, all \in {AllOf(Head(left))} :
       LET text == Capped(f, all)
           fits == Len(text) <= Remaining
           lines == Take(text, Remaining)
       IN /\ fits \/ Remaining >= Budget.least
          /\ blocks' = Append(blocks, [file |-> f, lines |-> lines, whole |-> Whole(f), cut |-> Len(lines) < Len(all)])
          /\ total' = total + Len(lines) + Budget.header
          /\ left' = Tail(left)
          /\ pc' = IF fits \/ Whole(f) THEN pc ELSE "rest"

NoRoomLeft ==
    /\ Shows
    /\ \/ left = <<>> \/ Full
       \/ left # <<>> /\ ~Skipped(Head(left)) /\ Len(Capped(Head(left), AllOf(Head(left)))) > Remaining /\ Remaining < Budget.least
    /\ pc' = "rest"
    /\ UNCHANGED <<left, total, blocks>>
----------------------------------------------------------------------------
(* buildFlowFromNamedSymbols: the longest way of calls from one symbol that *)
(* the query names to another, with no two in a row that it does not name. *)

Callable == {"method", "function", "component", "constructor"}
NamedSymbols ==
    LET tokens == AddAll(<<>>, Raised(Query.text))
        pool == ToSet(tokens)
        Of(t) == SelectSeq(FindAllSymbols([hints |-> <<>>, last |-> t, colon |-> FALSE]),
                           LAMBDA i : RowOf[i].kind \in Callable)
        Pick(ids) == IF Len(ids) <= FewHits THEN ids
                     ELSE SelectSeq(ids, LAMBDA i : Scope[i] # <<>> /\ Last(Scope[i]) \in pool)
    IN IF Len(tokens) < 2 THEN <<>> ELSE AddAll(<<>>, FlattenSeq(Map(tokens, LAMBDA t : Pick(Of(t)))))

Bridged(named, i, j) == i \in named \/ j \in named
Ways(seed, named) ==
    LET RECURSIVE Grow(_, _)
        Grow(q, h) ==
          IF h > Len(q) THEN q
          ELSE LET me == q[h]
                   next == IF me.depth >= MaxSteps - 1 THEN <<>>
                           ELSE SelectSeq(AddAll(<<>>, Step(world, me.id)),
                                  LAMBDA j : j \notin IdsOf(q) /\ Bridged(named, me.id, j))
               IN Grow(q \o Map(next, LAMBDA j : [id |-> j, depth |-> me.depth + 1, path |-> Append(me.path, j)]), h + 1)
    IN Grow(<<[id |-> seed, depth |-> 0, path |-> <<seed>>]>>, 1)
LongestFlow(named) ==
    LET ends(seed) == SelectSeq(Ways(seed, ToSet(named)), LAMBDA x : x.id \in ToSet(named) /\ x.id # seed)
        deepest(seed) == Take(ByScore(Map(ends(seed), LAMBDA x : [path |-> x.path, score |-> x.depth])), 1)
        best == ByScore(FlattenSeq(Map(Take(named, 8), deepest)))
    IN IF Len(named) < 2 \/ best = <<>> \/ best[1].score < 2 THEN <<>> ELSE best[1].path
Flow == LongestFlow(NamedSymbols)

\* What is not shown is listed (ten of it, and in no small project): as many files
\* as are shown are left out of the list.
ListRest ==
    /\ pc = "rest"
    /\ out' = [Unanswered EXCEPT !.path = Flow,
                                 !.list = SubSeq(Sorted, Len(blocks) + 1, Len(Sorted))
                                          \o Ordered(SelectSeq(Groups, LAMBDA f : FileScore(f) < 3), FileScore)]
    /\ pc' = "done"
    /\ UNCHANGED <<world, ask, results, exact, turn, added, sub, shown, glue, left, total, blocks>>

ToolNext ==
    \/ Next /\ UNCHANGED <<glue, left, total, blocks, out>>
    \/ HandleCallers \/ HandleCallees \/ HandleNode \/ HandleTrace
    \/ Glue \/ SortFiles \/ SkipFile \/ ShowFile \/ NoRoomLeft \/ ListRest

ToolSpec == ToolInit /\ [][ToolNext]_toolVars
----------------------------------------------------------------------------
(* What the answers promise.                                               *)

Answered(ops) == pc \in {"done", "answered"} /\ ask.op \in ops
NamedSo(symbol) == {i \in Ids : RowOf[i].name = symbol.last}
Within(graph, i, n) ==
    LET r[k \in 0..n] == IF k = 0 THEN {i} ELSE UNION {S \union UNION {ToSet(Step(graph, j)) : j \in S} : S \in {r[k - 1]}}
    IN r[n]

(* A plain name stands for all the symbols that have it, however many      *)
(* others the search finds as well: who calls one of them and what one     *)
(* calls is listed, up to the limit.  A qualified one that is shown is the *)
(* one that was asked for (findAllSymbols, findSymbol).                    *)
LookupAnswers ==
    /\ Answered({"callers", "callees"}) /\ ~Qualified(ask.symbol) /\ NamedSo(ask.symbol) # {} =>
          LET of == ToSet(out.of)
              all == IF ask.op = "callers"
                     THEN {e[1] : e \in {f \in Edges : f[2] \in of /\ f[1] # f[2] /\ f[3] \in Uses}}
                     ELSE {e[2] : e \in {f \in Edges : f[1] \in of /\ f[1] # f[2] /\ f[3] \in Uses}}
          IN /\ of = NamedSo(ask.symbol)
             /\ ToSet(out.list) \subseteq all
             /\ Cardinality(all) <= ask.limit => ToSet(out.list) = all
    /\ Answered({"node"}) =>
          /\ Qualified(ask.symbol) => \A i \in ToSet(out.of) : MatchesSymbol(i, ask.symbol)
          /\ ~Qualified(ask.symbol) /\ NamedSo(ask.symbol) # {} => ToSet(out.of) \subseteq NamedSo(ask.symbol) /\ out.of # <<>>

(* A trace is a shortest path of calls between two of the symbols, and     *)
(* none is shown only where the first three of either name are joined by   *)
(* none of the length (handleTrace).                                       *)
TraceIsPath ==
    Answered({"trace"}) /\ out.of[1] # <<>> /\ out.of[2] # <<>> =>
        LET path == out.path
        IN IF path = <<>>
           THEN \A f \in ToSet(Take(out.of[1], 3)), t \in ToSet(Take(out.of[2], 3)) :
                   f = t \/ t \notin Within(world, f, MaxSteps - 1)
           ELSE /\ path[1] \in ToSet(out.of[1]) /\ Last(path) \in ToSet(out.of[2])
                /\ \A k \in 1..(Len(path) - 1) : <<path[k], path[k + 1], "calls">> \in Edges
                /\ Last(path) \notin Within(world, path[1], Len(path) - 2)

(* The flow through the symbols of a query joins two of them, meets no two *)
(* in a row that it does not name, and is as long as any such shortest way *)
(* (buildFlowFromNamedSymbols).                                            *)
FlowIsLongest ==
    Answered({"explore"}) /\ Query.text # <<>> /\ sub.nodes # <<>> =>
      \A named \in {n \in {ToSet(NamedSymbols)} : Cardinality(n) >= 2} :
        LET on == SelectSeq(world, LAMBDA e : {e[1], e[2]} \cap named # {})
            Far(n) == {p \in named \X named : p[2] \in Within(on, p[1], n) /\ (n > 0 => p[2] \notin Within(on, p[1], n - 1))}
            lengths == {n \in 2..(MaxSteps - 1) : Far(n) # {}}
        IN IF out.path = <<>> THEN lengths = {}
           ELSE /\ <<out.path[1], Last(out.path)>> \in Far(Len(out.path) - 1)
                /\ \A n \in lengths : n <= Len(out.path) - 1
                /\ \A k \in 1..(Len(out.path) - 1) : <<out.path[k], out.path[k + 1], "calls">> \in ToSet(on)

(* The source that is shown keeps to the budget, no line is shown twice,   *)
(* and of a file with entry points one of them is there, unless the        *)
(* section was cut: declarations in a row do not crowd them out            *)
(* (handleExplore).                                                        *)
EntriesOf(f) == {i \in Roots \cap Nodes : RowOf[i].file = f /\ ~Envelope(i) /\ RowOf[i].kind \notin {"import", "export"}}
SourceIsShown ==
    ask.op = "explore" /\ pc \in {"source", "rest", "done"} =>
        /\ total <= Budget.total
        /\ \A j, k \in DOMAIN blocks : blocks[j].file = blocks[k].file => j = k
        /\ \A b \in ToSet(blocks) :
              /\ \A j, k \in DOMAIN b.lines : j < k => b.lines[j] < b.lines[k]
              /\ b.cut \/ EntriesOf(b.file) = {} \/
                    \E i \in EntriesOf(b.file) : (Span[i][1]..Span[i][2]) \cap (1..Lines[b.file]) \subseteq ToSet(b.lines)

(* Every file of the subgraph is shown or listed as not shown, and none is *)
(* both, where none had to be skipped (handleExplore).                     *)
ListIsExact ==
    Answered({"explore"}) /\ Query.text # <<>> /\ sub.nodes # <<>> =>
        LET files == {b.file : b \in ToSet(blocks)}
        IN (\A f \in ToSet(Sorted) : ~Skipped(f)) =>
              files \cap ToSet(out.list) = {} /\ files \union ToSet(out.list) = ToSet(Groups)

(* A tool answers for the symbol that was asked for and keeps its budget   *)
(* (tools.ts).                                                             *)
ToolsInv == LookupAnswers /\ TraceIsPath /\ FlowIsLongest /\ SourceIsShown /\ ListIsExact
=============================================================================

------------------------------- MODULE Search -------------------------------
(***************************************************************************)
(* How symbols are found by name (src/src/db/queries.ts, src/src/search/): *)
(* the full-text index, then substrings, then names one typing error away, *)
(* with the exactly named symbols supplemented, one score of several       *)
(* signals, and the filters of the query (kind:, path:, name:) last.       *)
(*                                                                         *)
(* A name is a sequence of words, as camel case shows them; a word stands  *)
(* for about four letters where lengths count.  Scores are in hundredths.  *)
(* Languages, offsets, stems and the limits of the single SELECTs, which   *)
(* are far above the instance's rows, are left out.                        *)
(***************************************************************************)
EXTENDS Integers, Sequences, FiniteSets, SequencesExt, TLC

CONSTANTS
    Rows,         \* the table nodes: a sequence of [id, name, kind, file]
    Place,        \* file -> [dirs, base, test]: its directories, the words of
                  \* its name, and whether isTestFile says it is a test
    Mentions,     \* id -> the other words that the full-text index has of it
    Typos,        \* pairs of names within the distance of the fuzzy search
    Distinctive,  \* a name in fewer files than this is distinctive
    MinPerName    \* findNodesByExactName keeps at least so many of a name

Ids == {Rows[k].id : k \in DOMAIN Rows}
RowOf == [i \in Ids |-> CHOOSE r \in ToSet(Rows) : r.id = i]
Test(i) == Place[RowOf[i].file].test

Take(s, n) == SubSeq(s, 1, IF Len(s) < n THEN Len(s) ELSE n)
Most(a, b) == IF a > b THEN a ELSE b
Half(n) == (n + 1) \div 2

\* Array.prototype.sort is stable.
ByScore(s) ==
    LET order == SortSeq([i \in DOMAIN s |-> i],
                         LAMBDA i, j : s[i].score > s[j].score \/ (s[i].score = s[j].score /\ i < j))
    IN [i \in DOMAIN s |-> s[order[i]]]

Found(r, score) == [id |-> r.id, score |-> score]
IdsOf(s) == {s[k].id : k \in DOMAIN s}
OfKinds(kinds) == SelectSeq(Rows, LAMBDA r : kinds = {} \/ r.kind \in kinds)
Map(s, Op(_)) == [k \in DOMAIN s |-> Op(s[k])]

Inside(a, b) == \E k \in 0..(Len(b) - Len(a)) : SubSeq(b, k + 1, k + Len(a)) = a
Joined(words) == FlattenSeq(words)
Raised(s) == [k \in DOMAIN s |-> s[k].words]
----------------------------------------------------------------------------
(* The signals.  A query's text is a sequence of tokens [words, case]: the  *)
(* words of a "camel" one can be told apart, those of a "flat" one cannot; *)
(* a "title" is one word with a capital letter.                            *)

Parts(t) == IF t.case = "camel" THEN [k \in DOMAIN t.words |-> <<t.words[k]>>] ELSE <<t.words>>

\* extractSearchTerms without stems: the compounds and their parts.
Terms(text) ==
    LET of(t) == (IF t.case = "camel" THEN <<t.words>> ELSE <<>>) \o Parts(t)
        all == FlattenSeq([k \in DOMAIN text |-> of(text[k])])
    IN FoldLeft(LAMBDA s, t : IF t \in ToSet(s) THEN s ELSE Append(s, t), <<>>, all)

\* scorePathRelevance
PathScore(file, text, test) ==
    LET place == Place[file]
        Points(t) == (IF Inside(t, place.base) THEN 10 ELSE 0)
                     + (IF \E k \in DOMAIN place.dirs : Inside(t, <<place.dirs[k]>>) THEN 5 ELSE 0)
    IN FoldLeft(LAMBDA sum, t : sum + Points(t), 0, Terms(text))
       - (IF ~test /\ place.test THEN 15 ELSE 0)

\* nameMatchBonus
NameBonus(name, text) ==
    LET whole == Joined(Raised(text))
        parts == FlattenSeq([k \in DOMAIN text |-> Parts(text[k])])
    IN CASE name = whole -> 80
         [] name # whole /\ Len(text) > 1 /\ name \in ToSet(Raised(text)) -> 60
         [] OTHER -> IF IsPrefix(whole, name) THEN 10 + (30 * Len(whole)) \div Len(name)
                     ELSE IF Len(parts) > 1 /\ \A k \in DOMAIN parts : Inside(parts[k], name) THEN 15
                     ELSE IF Inside(whole, name) THEN 10 ELSE 0

\* kindBonus
KindBonus(kind) ==
    CASE kind \in {"function", "method"} -> 10
      [] kind \in {"interface", "trait", "protocol", "route"} -> 9
      [] kind \in {"class", "component"} -> 8
      [] kind \in {"type_alias", "struct"} -> 6
      [] kind = "enum" -> 5
      [] kind \in {"module", "namespace"} -> 4
      [] kind \in {"property", "field", "constant", "enum_member"} -> 3
      [] kind = "variable" -> 2
      [] kind \in {"import", "export"} -> 1
      [] OTHER -> 0
----------------------------------------------------------------------------
(* The searches.                                                           *)

\* SQLite's rank: a name that begins with the word counts most, and the more
\* the shorter it is.
Hits(r, token) == IsPrefix(token.words, r.name)
Bm25(r, text) ==
    FoldLeft(LAMBDA sum, t : sum + (IF Hits(r, t) THEN 2000 \div Len(r.name)
                                    ELSE IF t.words[1] \in Mentions[r.id] THEN 100 ELSE 0),
             0, text)

\* searchNodesFTS: any of the tokens, as a prefix.
Fts(text, kinds, limit) ==
    LET some == SelectSeq(OfKinds(kinds), LAMBDA r : Bm25(r, text) > 0)
    IN Take(ByScore(Map(some, LAMBDA r : Found(r, Bm25(r, text)))), Most(5 * limit, 100))

\* searchNodesLike: the text as it stands within a name; a name has no blanks.
Like(text, kinds, limit) ==
    LET some == SelectSeq(OfKinds(kinds), LAMBDA r : Len(text) = 1 /\ Inside(text[1].words, r.name))
        Of100(r) == IF r.name = text[1].words THEN 100 ELSE IF IsPrefix(text[1].words, r.name) THEN 90 ELSE 80
    IN Take(ByScore(Map(some, LAMBDA r : Found(r, Of100(r)))), limit)

\* searchNodesFuzzy
Fuzzy(text, kinds, limit) ==
    LET some == SelectSeq(OfKinds(kinds), LAMBDA r : <<Joined(Raised(text)), r.name>> \in Typos)
    IN Take(Map(some, LAMBDA r : Found(r, 50)), limit)

\* A query made of filters only has every row for its candidates.
AllByFilters(kinds, limit) == Take(Map(OfKinds(kinds), LAMBDA r : Found(r, 100)), limit)

Candidates(text, kinds, limit) ==
    LET fts == IF text = <<>> THEN AllByFilters(kinds, 5 * limit) ELSE Fts(text, kinds, limit)
        like == IF fts = <<>> /\ text # <<>> THEN Like(text, kinds, limit) ELSE fts
    IN IF like = <<>> /\ text # <<>> THEN Fuzzy(text, kinds, limit) ELSE like

\* The symbols that a token names exactly join with the best score there is.
Supplemented(s, text, kinds) ==
    LET best == IF s = <<>> THEN 0 ELSE ByScore(s)[1].score
        named(t) == SelectSeq(OfKinds(kinds), LAMBDA r : r.name = t)
        Join(acc, r) == IF r.id \in IdsOf(acc) THEN acc ELSE Append(acc, Found(r, best))
    IN IF s = <<>> THEN s
       ELSE FoldLeft(Join, s, FlattenSeq(Map(Raised(text), named)))

\* The kinds of the caller and those of the query.
MergedKinds(kinds, q) == IF q.kinds = {} THEN kinds ELSE kinds \union q.kinds

\* searchNodes: q is [text, kinds, paths, names, test], as parseQuery has it.
SearchNodes(q, asked, limit) ==
    LET kinds == MergedKinds(asked, q)
        scoring == IF q.text # <<>> THEN q.text
                   ELSE Map(SetToSeq(q.paths) \o SetToSeq(q.names), LAMBDA w : [words |-> <<w>>, case |-> "flat"])
        Score(x) == LET r == RowOf[x.id]
                    IN [x EXCEPT !.score = @ + 100 * (KindBonus(r.kind) + PathScore(r.file, scoring, q.test)
                                                      + NameBonus(r.name, scoring))]
        some == Supplemented(Candidates(q.text, kinds, limit), q.text, kinds)
        OnPath(x) == LET place == Place[RowOf[x.id].file]
                     IN q.paths = {} \/ \E w \in q.paths : w \in ToSet(place.dirs) \union ToSet(place.base)
        OfName(x) == q.names = {} \/ \E w \in q.names : Inside(<<w>>, RowOf[x.id].name)
    IN SelectSeq(Take(ByScore(Map(some, Score)), limit), LAMBDA x : OnPath(x) /\ OfName(x))

Plain(words, test) ==
    [text |-> <<[words |-> words, case |-> "flat"]>>, kinds |-> {}, paths |-> {}, names |-> {}, test |-> test]

\* findNodesByExactName: names that share a file with a distinctive one first.
ByExactName(names, kinds, limit) ==
    LET rows(n) == SelectSeq(OfKinds(kinds), LAMBDA r : r.name = n)
        files(n) == {rows(n)[k].file : k \in DOMAIN rows(n)}
        distinctive == UNION {files(n) : n \in {m \in ToSet(names) : Cardinality(files(m)) < Distinctive}}
        Score(r) == Found(r, 100 + (IF r.file \in distinctive THEN 2000 ELSE 0))
        perName == Most(MinPerName, (limit + Len(names) - 1) \div Len(names))
        More(acc, n) ==
            acc \o Take(ByScore(SelectSeq(Map(rows(n), Score), LAMBDA x : x.id \notin IdsOf(acc))), perName)
    IN IF names = <<>> THEN <<>> ELSE Take(ByScore(FoldLeft(More, <<>>, names)), limit)

\* findNodesByNameSubstring: the shortest names first.
BySubstring(words, kinds, noPrefix) ==
    LET some == SelectSeq(OfKinds(kinds), LAMBDA r : Inside(words, r.name) /\ (noPrefix => ~IsPrefix(words, r.name)))
    IN ByScore(Map(some, LAMBDA r : Found(r, -Len(r.name))))
=============================================================================

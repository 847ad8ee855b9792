------------------------------ MODULE NameMatch ------------------------------
(***************************************************************************)
(* Which symbol a reference is matched to by its name (src/src/resolution/ *)
(* name-matcher.ts and the prefilter of src/src/resolution/index.ts): the  *)
(* methods of a receiver, the exact name with findBestMatch among several, *)
(* and the name without regard to case.  A reference is a plain name or    *)
(* recv.name.  Paths with a slash, names with :: and the declared types of *)
(* C++ and Java receivers are not modelled.  Of equal candidates the code  *)
(* takes the first row, this module one of them.                           *)
(***************************************************************************)
EXTENDS Integers, Sequences, FiniteSets

CONSTANTS Files, Names,
          Lang,      \* of each file
          Dir,       \* directory of each file: its segments
          Capital,   \* each name with a capital
          Lower,     \* each name in lower case
          Words,     \* of each name, where its camel case splits
          None       \* absent

ASSUME NamesAssumption ==
  /\ \A f \in Files : Dir[f] \in Seq(STRING)
  /\ \A n \in Names : Capital[n] \in Names /\ IsFiniteSet(Words[n])
  /\ None \notin Names

\* A symbol in a file; owner is the class of a method, name None a file node.
Symbol == [name : Names, owner : Names \cup {None},
           kind : {"class", "function", "method"}, exported : BOOLEAN]
Node == [file : Files, sym : Symbol \cup {None}]

EdgeKinds == {"calls", "instantiates", "decorates", "extends"}

Ref == [recv : Names \cup {None}, name : Names, kind : EdgeKinds]

FileNode(f) == [file |-> f, sym |-> None]

Named(nodes, n) == {x \in nodes : x.sym # None /\ x.sym.name = n}
-----------------------------------------------------------------------------
(* findBestMatch.                                                          *)

LeastOf(a, b) == IF a < b THEN a ELSE b

\* Directories from the root that both paths share.
Shared(f, g) ==
  Cardinality({k \in 1..LeastOf(Len(Dir[f]), Len(Dir[g])) :
                 \A i \in 1..k : Dir[f][i] = Dir[g][i]})

Proximity(f, g) == LeastOf(15 * Shared(f, g), 80)

If(b, n) == IF b THEN n ELSE 0

\* What the kind of the reference prefers.
Preference(ref, x) ==
  CASE ref.kind \in {"calls", "decorates"} /\ x.sym.kind \in {"function", "method"} -> 25
    [] ref.kind = "instantiates" /\ x.sym.kind = "class" -> 25
    [] ref.kind = "decorates" /\ x.sym.kind = "class" -> 15
    [] OTHER -> 0

Language(f, g) == IF Lang[f] = Lang[g] THEN 50 ELSE -80

\* The bonus for a near line, at most 20 and only in the own file, is left out:
\* it chooses between symbols of that file.
Points(f, ref, x) ==
  If(x.file = f, 100) + Proximity(f, x.file) + Language(f, x.file)
    + Preference(ref, x) + If(x.sym.exported, 10)

\* A score has to beat -1.
FindBest(f, ref, S) ==
  LET good == {x \in S : Points(f, ref, x) > -1}
  IN {x \in good : \A y \in good : Points(f, ref, x) >= Points(f, ref, y)}
-----------------------------------------------------------------------------
(* The strategies: the candidates each of them would return.               *)

SameLang(f, S) == {x \in S : Lang[x.file] = Lang[f]}

Exact(f, ref, nodes) ==
  LET S == Named(nodes, ref.name)
  IN IF ref.recv # None THEN {} ELSE IF Cardinality(S) = 1 THEN S ELSE FindBest(f, ref, S)

Fuzzy(f, ref, nodes) ==
  LET S == {x \in nodes : x.sym # None /\ ref.recv = None /\ Lower[x.sym.name] = Lower[ref.name]}
      T == IF SameLang(f, S) # {} THEN SameLang(f, S) ELSE S
  IN IF Cardinality(T) = 1 THEN T ELSE {}

\* Methods called name beside a class called c of the same language.
OnClass(f, c, name, nodes) ==
  {x \in Named(nodes, name) :
     /\ x.sym.kind = "method" /\ x.sym.owner = c
     /\ Lang[x.file] = Lang[f]
     /\ \E y \in Named(nodes, c) : y.file = x.file /\ y.sym.kind = "class"}

WordsOf(n) == IF n = None THEN {} ELSE Words[n]

\* Words of the receiver in the qualified name, and one for the language.
Likeness(f, ref, x) ==
  Cardinality(WordsOf(ref.recv) \cap (WordsOf(x.sym.owner) \cup WordsOf(x.sym.name)))
    + If(Lang[x.file] = Lang[f], 1)

\* Any method called name: the only one of the language, or of several the
\* likest.
AnyMethod(f, ref, nodes) ==
  LET S == {x \in Named(nodes, ref.name) : x.sym.kind = "method"}
      T == IF SameLang(f, S) # {} THEN SameLang(f, S) ELSE S
  IN IF Cardinality(T) = 1 THEN SameLang(f, T)
     ELSE {x \in T : Likeness(f, ref, x) >= 2 /\ \A y \in T : Likeness(f, ref, x) >= Likeness(f, ref, y)}

First(A, B) == IF A # {} THEN A ELSE B

MethodCall(f, ref, nodes) ==
  IF ref.recv = None THEN {}
  ELSE First(OnClass(f, ref.recv, ref.name, nodes),
       First(OnClass(f, Capital[ref.recv], ref.name, nodes), AnyMethod(f, ref, nodes)))

Matches(f, ref, nodes) ==
  First(MethodCall(f, ref, nodes), First(Exact(f, ref, nodes), Fuzzy(f, ref, nodes)))

\* What the strategies ask of a symbol at the least: a plain name up to its case,
\* or a method of the name in the own language or with two words in common.
Fits(f, ref, x) ==
  /\ x.sym # None
  /\ IF ref.recv = None
       THEN Lower[x.sym.name] = Lower[ref.name]
       ELSE /\ x.sym.name = ref.name /\ x.sym.kind = "method"
            /\ Lang[x.file] = Lang[f] \/ Likeness(f, ref, x) >= 2

\* hasAnyPossibleMatch, from the names of all symbols.
Possible(ref, known) ==
  \/ ref.name \in known
  \/ ref.recv # None /\ (ref.recv \in known \/ Capital[ref.recv] \in known)

\* createEdges: a call of a class makes an instance.
EdgeKind(ref, x) == IF ref.kind = "calls" /\ x.sym.kind = "class" THEN "instantiates" ELSE ref.kind
=============================================================================

----------------------------- MODULE Extractor -----------------------------
(***************************************************************************)
(* The extraction of one file (src/extraction/tree-sitter.ts): a walk over *)
(* the syntax tree that makes a node of every declaration, a `contains`    *)
(* edge from the scope it stands in, and a reference for every call, type, *)
(* base class, import and decorator.                                       *)
(*                                                                         *)
(* The walk has two modes.  `visit` (visitNode) recognises declarations;   *)
(* `body` (visitFunctionBody) looks for calls, and recognises only named   *)
(* functions and types.  Each handler decides which children are walked,   *)
(* in which mode, and under which scope; what it leaves out is lost.       *)
(*                                                                         *)
(* A node stands for its own id: two declarations of one kind and name on  *)
(* one line, which generateNodeId does not tell apart, are left out.       *)
(* The tree is any that the grammar below allows: its nodes in preorder,   *)
(* node 0 the file.  A declaration's body is its children.  The hooks of   *)
(* single languages (visitNode in languages/) and the extractors of other  *)
(* formats are left out.                                                   *)
(***************************************************************************)
EXTENDS Integers, Sequences, SequencesExt, FiniteSets

CONSTANTS Languages,  \* the languages followed
          Size,       \* bound: [Languages -> nodes of a tree]
          Late        \* bound: after so many nodes none is added to the file itself

VARIABLES lang,
          ast,       \* <<[type, up, of]>>: up is the parent, of the type an `impl` or a definition names
          phase,     \* "parse", "walk", "done" or "thrown"
          todo,      \* the walk's call stack: <<[do, n]>>
          nodeStack, \* <<n>>, the scopes; 0 is the file
          nodes,     \* <<[n, kind, name]>>
          edges,     \* {<<container, n>>}
          refs,      \* <<[from, to, kind]>>, unresolvedReferences
          index      \* methodIndex: the nodes it was built from, or <<>>

vars == <<lang, ast, phase, todo, nodeStack, nodes, edges, refs, index>>

Type(n) == IF n = 0 THEN "file" ELSE ast[n].type
Up(n)   == ast[n].up
Kids(n) == SelectSeq([i \in 1 .. Len(ast) |-> i], LAMBDA i : Up(i) = n)

RECURSIVE Above(_)
Above(n) == IF n = 0 THEN {} ELSE {Up(n)} \union Above(Up(n))   \* its ancestors

-----------------------------------------------------------------------------
(* The trees: which node may stand under which. *)

Grammar(l, t) ==
  CASE l = "typescript" ->
         CASE t = "file"  -> {"function", "class", "interface", "alias", "var", "exported", "import", "call", "new"}
           [] t \in {"function", "method", "arrow"} -> {"function", "class", "var", "call", "new", "arrow", "type"}
           [] t = "class" -> {"method", "field", "decorator", "heritage"}
           [] t = "field" -> {"arrow", "call"}
           [] t \in {"var", "exported"} -> {"arrow", "object", "call"}
           [] t = "object" -> {"method", "pair"}
           [] t = "pair"  -> {"arrow", "call"}
           [] t = "call"  -> {"call", "arrow", "object"}
           [] t \in {"new", "decorator"} -> {"call"}
           [] t \in {"interface", "alias"} -> {"member"}
           [] t = "member" -> {"type"}
           [] OTHER -> {}
    [] l = "python" ->
         CASE t = "file"  -> {"function", "class", "var", "call", "import", "decorator"}
           [] t = "class" -> {"function", "class", "var", "call", "heritage", "decorator"}
           [] t = "function" -> {"function", "class", "var", "call", "decorator"}
           [] t \in {"var", "call", "decorator"} -> {"call"}
           [] OTHER -> {}
    [] l = "rust" ->
         CASE t = "file"  -> {"function", "struct", "forward", "interface", "enum", "impl", "var"}
           [] t = "function" -> {"function", "call", "struct", "type"}
           [] t \in {"impl", "interface"} -> {"function"}
           [] t \in {"var", "call"} -> {"call"}
           [] t = "enum" -> {"member"}
           [] OTHER -> {}
    [] l = "java" ->
         CASE t = "file" -> {"class", "interface"}
           [] t = "class" -> {"method", "field", "class"}
           [] t = "interface" -> {"method"}
           [] t = "method" -> {"call", "new", "anon", "class", "type"}
           [] t = "anon" -> {"method", "call"}
           [] t \in {"call", "new"} -> {"call", "new"}
           [] t = "field" -> {"call", "type"}
           [] OTHER -> {}
    [] l = "pascal" ->
         CASE t = "file" -> {"unit"}
           [] t = "unit" -> {"class", "function", "defProc"}
           [] t = "class" -> {"function", "heritage"}
           [] t \in {"defProc", "call"} -> {"call"}
           [] OTHER -> {}

OneKid == {"var", "exported", "field", "pair", "member", "decorator"}

\* tree-sitter's parser, from the outside: it returns some tree.
ParserAdds ==
  /\ phase = "parse" /\ Len(ast) < Size[lang]
  /\ \E up \in IF ast = <<>> THEN {0} ELSE Above(Len(ast)) \union {Len(ast)} :
       /\ Type(up) \in OneKid => Kids(up) = <<>>
       /\ up = 0 => Len(ast) < Late[lang]
       /\ \E t \in Grammar(lang, Type(up)), of \in 0 .. Size[lang] :
            /\ t \notin {"impl", "defProc"} => of = 0
            /\ t = "field" /\ Kids(up) # <<>> => Type(Last(Kids(up))) # "decorator"   \* it would be the field's
            /\ ast' = Append(ast, [type |-> t, up |-> up, of |-> of])
  /\ UNCHANGED <<lang, phase, todo, nodeStack, nodes, edges, refs, index>>

-----------------------------------------------------------------------------
(* Scopes, nodes and references. *)

Scope == Last(nodeStack)
KindOf(n) == IF n = 0 THEN "file" ELSE (CHOOSE x \in ToSet(nodes) : x.n = n).kind
Made(n) == \E i \in DOMAIN nodes : nodes[i].n = n

isInsideClassLikeNode == KindOf(Scope) \in {"class", "struct", "interface", "trait", "enum", "module"}

Tasks(do, ns) == [i \in DOMAIN ns |-> [do |-> do, n |-> ns[i]]]
Visit(n) == Tasks("visit", Kids(n))
Body(n)  == Tasks("body", Kids(n))
Then(tasks) == todo' = tasks \o Tail(todo)

\* buildQualifiedName
QualifiedName(n) == Append(SelectSeq(nodeStack, LAMBDA s : s # 0), n)

Ref(from, to, kind) == [from |-> from, to |-> to, kind |-> kind]
RefsTo(from, ns, kind) == [i \in DOMAIN ns |-> Ref(from, ns[i], kind)]
OfType(ns, t) == SelectSeq(ns, LAMBDA k : Type(k) = t)

\* extractDecoratorsFor: those right before the declaration, back to the first other sibling.
Decorators(n) ==
  SelectSeq(OfType(Kids(Up(n)), "decorator"),
            LAMBDA d : d < n /\ \A s \in ToSet(Kids(Up(n))) : d < s /\ s < n => Type(s) = "decorator")

TypeRefs(from, n) == IF lang = "python" THEN <<>> ELSE RefsTo(from, OfType(Kids(n), "type"), "references")

Annotations(n, kind) ==
  CASE kind \in {"class", "struct", "enum", "interface", "trait"} ->
         RefsTo(n, OfType(Kids(n), "heritage"), "extends")
           \o (IF kind = "class" /\ lang # "pascal" THEN RefsTo(n, Decorators(n), "decorates") ELSE <<>>)
    [] kind \in {"function", "method", "field"} ->
         TypeRefs(n, n) \o RefsTo(n, Decorators(n), "decorates")
    [] kind \in {"variable", "constant"} -> TypeRefs(n, n)
    [] OTHER -> <<>>

\* The references of one syntax node; how a grammar spells the name in it is left out.
extractCall(n) == <<Ref(Scope, n, "calls")>>
extractInstantiation(n) == <<Ref(Scope, n, "instantiates")>>
extractRustImplItem(n) ==   \* `of` is the type, if it has been extracted before
  IF ast[n].of # 0 /\ Made(ast[n].of) /\ KindOf(ast[n].of) \in {"struct", "enum", "class"}
  THEN <<Ref(ast[n].of, n, "implements")>> ELSE <<>>

\* createNode; more is what the handler adds to the edges and references.
Create(n, kind, name, moreEdges, moreRefs) ==
  /\ nodes' = Append(nodes, [n |-> n, kind |-> kind, name |-> name])
  /\ edges' = edges \union {<<Scope, n>>} \union moreEdges
  /\ refs' = refs \o Annotations(n, kind) \o moreRefs

\* A declaration that is a scope for its children, and one that is none.
Scoped(n, kind, inner) ==
  /\ Create(n, kind, QualifiedName(n), {}, <<>>)
  /\ nodeStack' = Append(nodeStack, n)
  /\ Then(inner \o <<[do |-> "pop", n |-> n]>>)
Leaf(n, kind, moreRefs, then) ==
  /\ Create(n, kind, QualifiedName(n), {}, moreRefs)
  /\ Then(then)
  /\ UNCHANGED nodeStack
Skip(moreRefs, then) ==
  /\ refs' = refs \o moreRefs
  /\ Then(then)
  /\ UNCHANGED <<nodeStack, nodes, edges>>

-----------------------------------------------------------------------------
(* The handlers of declarations. *)

\* getReceiverType: the type of the impl around a Rust function.
Impls(n) == {a \in Above(n) : Type(a) = "impl"}
Receiver(n) == IF Impls(n) = {} THEN 0 ELSE ast[CHOOSE a \in Impls(n) : \A b \in Impls(n) : b <= a].of
HasReceiver(n) == Impls(n) # {}

\* The body of a method; of a field of a TypeScript class, that of its arrow function, wrapped or not.
BodyOf(n) ==
  IF Type(n) # "field" THEN Body(n)
  ELSE LET value  == Kids(n)
           arrows == IF value = <<>> THEN <<>>
                     ELSE IF Type(value[1]) = "arrow" THEN value ELSE OfType(Kids(value[1]), "arrow")
       IN  IF arrows = <<>> THEN <<>> ELSE Body(arrows[1])

MakeMethod(n) ==
  LET owner == {<<x.n, n>> : x \in {y \in ToSet(nodes) : /\ y.n = Receiver(n)
                                                         /\ y.kind \in {"struct", "class", "enum", "trait"}}}
  IN  /\ IF HasReceiver(n)
         THEN Create(n, "method", <<Receiver(n), n>>, IF isInsideClassLikeNode THEN {} ELSE owner, <<>>)
         ELSE Create(n, "method", QualifiedName(n), {}, <<>>)
      /\ nodeStack' = Append(nodeStack, n)
      /\ Then(BodyOf(n) \o <<[do |-> "pop", n |-> n]>>)

Anonymous(n) == Type(n) = "arrow" /\ Type(Up(n)) \notin {"var", "exported"}

extractFunction(n, named) ==
  IF HasReceiver(n) THEN MakeMethod(n)
  ELSE IF Anonymous(n) /\ ~named THEN Skip(<<>>, <<>>)
  ELSE Scoped(n, "function", Body(n))

extractMethod(n) ==
  IF isInsideClassLikeNode \/ HasReceiver(n) THEN MakeMethod(n)
  ELSE IF Type(Up(n)) = "object" THEN Skip(<<>>, Body(n))
  ELSE extractFunction(n, FALSE)

extractEnum(n) ==
  Scoped(n, "enum", [i \in DOMAIN Kids(n) |->
           [do |-> IF Type(Kids(n)[i]) = "member" THEN "member" ELSE "visit", n |-> Kids(n)[i]]])

\* The function-valued members of an exported object are extracted under their keys.
ArrowsOfPairs(object) ==
  FoldLeft(LAMBDA all, pair : all \o OfType(Kids(pair), "arrow"), <<>>, OfType(Kids(object), "pair"))

extractVariable_Descends(n) ==   \* the object of an exported constant is walked besides
  LET kind == IF Type(n) = "exported" THEN "constant" ELSE "variable"
  IN  IF lang = "typescript" /\ Kids(n) # <<>> /\ Type(Kids(n)[1]) = "arrow"
      THEN Skip(<<>>, Tasks("function", Kids(n)) \o Body(n))
      ELSE Leaf(n, kind, <<>>, IF lang = "typescript" THEN Body(n) ELSE <<>>)

extractVariable(n) ==
  LET kind  == IF Type(n) = "exported" THEN "constant" ELSE "variable"
      value == Kids(n)
  IN  IF lang # "typescript" \/ value = <<>> THEN Leaf(n, kind, <<>>, <<>>)
      ELSE CASE Type(value[1]) = "arrow"  -> Skip(<<>>, Tasks("function", value))
             [] Type(value[1]) = "object" ->
                  Leaf(n, kind, <<>>, IF Type(n) = "exported" THEN Tasks("function", ArrowsOfPairs(value[1])) ELSE <<>>)
             [] OTHER -> Leaf(n, kind, <<>>, Tasks("body", value))

\* extractTypeAlias: the types of the members are collected twice, with the alias and with the members.
extractTypeAlias(n) ==
  LET types == FoldLeft(LAMBDA all, m : all \o OfType(Kids(m), "type"), <<>>, Kids(n))
  IN  /\ Create(n, "type_alias", QualifiedName(n), {}, RefsTo(n, types \o types, "references"))
      /\ nodeStack' = Append(nodeStack, n)
      /\ Then(Tasks("member", Kids(n)) \o <<[do |-> "pop", n |-> n]>> \o Visit(n))

\* new T() { members }: the arguments of the constructor are not walked.
extractAnonymousClass(n) ==
  /\ Create(n, "class", QualifiedName(n), {}, <<>>)
  /\ nodeStack' = Append(nodeStack, n)
  /\ Then(Tasks("visit", OfType(Kids(n), "method")) \o <<[do |-> "pop", n |-> n]>>)

extractImport(n) == Leaf(n, "import", <<Ref(Scope, n, "imports")>>, <<>>)

\* extractPascalDefProc: the calls of a definition belong to its declaration, looked up by
\* Class.Method and then by Method; every routine of the model has one short name.
Declared(seen, class) ==
  LET m == SelectSeq(seen, LAMBDA x : x.kind = "method" /\ Len(x.name) >= 2 /\ x.name[Len(x.name) - 1] = class)
      any == SelectSeq(seen, LAMBDA x : x.kind \in {"method", "function"})
  IN  CASE class # 0 /\ m # <<>> -> Last(m).n
        [] any # <<>>            -> Head(any).n
        [] OTHER                 -> Scope

visitPascalBlock(n) == Body(n)

extractPascalDefProc(n) ==
  LET seen == IF index = <<>> THEN nodes ELSE index
  IN  /\ index' = seen
      /\ nodeStack' = Append(nodeStack, Declared(seen, ast[n].of))
      /\ Then(visitPascalBlock(n) \o <<[do |-> "pop", n |-> n]>>)
      /\ UNCHANGED <<nodes, edges, refs>>

-----------------------------------------------------------------------------
(* The two modes. *)

\* Types that both modes recognise.
ExtractType(n) ==
  \/ Type(n) = "class"     /\ Scoped(n, "class", Visit(n))
  \/ Type(n) = "interface" /\ Scoped(n, IF lang = "rust" THEN "trait" ELSE "interface", Visit(n))
  \/ Type(n) = "struct"    /\ Scoped(n, "struct", Visit(n))
  \/ Type(n) = "forward"   /\ Skip(<<>>, <<>>)    \* no body, no definition
  \/ Type(n) = "enum"      /\ extractEnum(n)
Types == {"class", "interface", "struct", "forward", "enum"}

VisitNode ==
  LET n == Head(todo).n
      t == Type(n)
      makesMethod == isInsideClassLikeNode /\ lang \in {"python", "rust", "pascal"}
  IN  /\ todo # <<>> /\ Head(todo).do = "visit"
      /\ \/ t = "function" /\ IF makesMethod THEN extractMethod(n) ELSE extractFunction(n, FALSE)
         \/ t = "arrow" /\ extractFunction(n, FALSE)
         \/ ExtractType(n)
         \/ t = "method" /\ extractMethod(n)
         \/ t = "field" /\ IF lang = "java" THEN Leaf(n, "field", <<>>, <<>>) ELSE extractMethod(n)
         \/ t = "alias" /\ extractTypeAlias(n)
         \/ t \in {"var", "exported"} /\ IF isInsideClassLikeNode THEN Skip(<<>>, Visit(n)) ELSE extractVariable(n)
         \/ t = "import" /\ extractImport(n)
         \/ t = "call" /\ Skip(extractCall(n), Visit(n))
         \/ t = "new" /\ Skip(extractInstantiation(n), Visit(n))
         \/ t = "anon" /\ Skip(extractInstantiation(n), <<[do |-> "anon", n |-> n]>>)
         \/ t = "impl" /\ Skip(extractRustImplItem(n), Visit(n))
         \/ t = "member" /\ Skip(IF isInsideClassLikeNode THEN TypeRefs(Scope, n) ELSE <<>>, Visit(n))
         \/ t \in {"object", "pair", "decorator", "heritage", "type"} /\ Skip(<<>>, Visit(n))
      /\ UNCHANGED <<lang, ast, phase, index>>

\* What only Pascal has: the unit is no scope.
VisitPascalNode ==
  LET n == Head(todo).n
  IN  /\ todo # <<>> /\ Head(todo).do = "visit"
      /\ \/ Type(n) = "unit" /\ Leaf(n, "module", <<>>, Visit(n)) /\ UNCHANGED index
         \/ Type(n) = "defProc" /\ extractPascalDefProc(n)
      /\ UNCHANGED <<lang, ast, phase>>

VisitFunctionBody ==
  LET n == Head(todo).n
      t == Type(n)
  IN  /\ todo # <<>> /\ Head(todo).do = "body"
      /\ \/ t = "call" /\ Skip(extractCall(n), Body(n))
         \/ t = "new" /\ Skip(extractInstantiation(n), Body(n))
         \/ t = "anon" /\ Skip(extractInstantiation(n), <<[do |-> "anon", n |-> n]>>)
         \/ t = "function" /\ extractFunction(n, FALSE)
         \/ ExtractType(n)
         \/ t \notin Types \union {"call", "new", "anon", "function"} /\ Skip(<<>>, Body(n))
      /\ UNCHANGED <<lang, ast, phase, index>>

\* A handler called by another one.
Called ==
  LET n == Head(todo).n
  IN  /\ todo # <<>>
      /\ \/ Head(todo).do = "function" /\ extractFunction(n, TRUE)
         \/ Head(todo).do = "member" /\ Leaf(n, IF lang = "typescript" THEN "property" ELSE "enum_member", <<>>, <<>>)
         \/ Head(todo).do = "anon" /\ extractAnonymousClass(n)
      /\ UNCHANGED <<lang, ast, phase, index>>

PopScope ==
  /\ todo # <<>> /\ Head(todo).do = "pop"
  /\ nodeStack' = Front(nodeStack)
  /\ Then(<<>>)
  /\ UNCHANGED <<lang, ast, phase, nodes, edges, refs, index>>

-----------------------------------------------------------------------------
Init ==
  /\ lang \in Languages /\ ast = <<>> /\ phase = "parse"
  /\ todo = <<>> /\ nodeStack = <<>> /\ nodes = <<>> /\ edges = {} /\ refs = <<>> /\ index = <<>>

Extract ==
  /\ phase = "parse" /\ ast # <<>>
  /\ phase' = "walk" /\ nodeStack' = <<0>> /\ todo' = Visit(0)
  /\ UNCHANGED <<lang, ast, nodes, edges, refs, index>>

Return ==
  /\ phase = "walk" /\ todo = <<>>
  /\ phase' = "done"
  /\ UNCHANGED <<lang, ast, todo, nodeStack, nodes, edges, refs, index>>

\* An exception in a handler: what has been extracted is returned with an error; a memory
\* error of WASM is thrown on.
Throws ==
  /\ phase = "walk" /\ todo # <<>>
  /\ phase' \in {"failed", "thrown"}
  /\ todo' = <<>>
  /\ UNCHANGED <<lang, ast, nodeStack, nodes, edges, refs, index>>

Next == ParserAdds \/ Extract \/ VisitNode \/ VisitPascalNode \/ VisitFunctionBody \/ Called \/ PopScope
          \/ Return \/ Throws

Spec == Init /\ [][Next]_vars

-----------------------------------------------------------------------------
(* What a reader of the tree expects. *)

ScopeKinds == {"function", "method", "class", "struct", "interface", "trait", "enum", "type_alias"}
IsScope(n) == n = 0 \/ (Made(n) /\ KindOf(n) \in ScopeKinds)

\* The innermost declaration around n, and the declarations from the file down to n.
Enclosing(n) == CHOOSE a \in Above(n) : IsScope(a) /\ \A b \in Above(n) : IsScope(b) => b <= a
Outline(n) == SelectSeq([i \in 1 .. n |-> i], LAMBDA a : a = n \/ (a \in Above(n) /\ IsScope(a)))

Count(n, kind) == Cardinality({i \in DOMAIN refs : refs[i].to = n /\ refs[i].kind = kind})
Sources(n, kind) == {refs[i].from : i \in {j \in DOMAIN refs : refs[j].to = n /\ refs[j].kind = kind}}
All(t) == {n \in DOMAIN ast : ast[n].type = t}

TypeOK ==
  /\ lang \in Languages /\ phase \in {"parse", "walk", "done", "failed", "thrown"}
  /\ \A i \in DOMAIN todo : todo[i].n \in DOMAIN ast /\ todo[i].do \in {"visit", "body", "function", "member", "anon", "pop"}
  /\ \A i \in DOMAIN nodeStack : IsScope(nodeStack[i])

(* Whatever is returned can be stored, a failure midway included: no symbol is made twice, and
   the edges and references start from, and lead to, symbols that are there.                *)
ResultIsSound ==
  /\ TypeOK
  /\ \A i, j \in DOMAIN nodes : nodes[i].n = nodes[j].n => i = j
  /\ \A e \in edges : (e[1] = 0 \/ Made(e[1])) /\ Made(e[2])
  /\ \A i \in DOMAIN refs : refs[i].from = 0 \/ Made(refs[i].from)

(* Each symbol is contained in the innermost declaration around it, and named after the
   declarations around it.  A method of a Rust impl is also contained in its type, when that
   comes first in the file, and named after it.                                             *)
SymbolsAreContained ==
  phase = "done" =>
    \A i \in DOMAIN nodes :
      LET n      == nodes[i].n
          ofImpl == nodes[i].kind = "method" /\ HasReceiver(n)
          owner  == IF ofImpl /\ Receiver(n) < n /\ Receiver(n) # 0 /\ Made(Receiver(n))
                       /\ KindOf(Receiver(n)) \in {"struct", "enum", "trait"}
                    THEN {Receiver(n)} ELSE {}
      IN  /\ {e[1] : e \in {d \in edges : d[2] = n}} = {Enclosing(n)} \union owner
          /\ nodes[i].name = IF ofImpl THEN <<Receiver(n), n>> ELSE Outline(n)

\* Where the walk changes to `body`.
BodyWalked(n) == \/ Made(n) /\ KindOf(n) \in {"function", "method"}
                 \/ Type(n) \in {"var", "exported"} /\ Type(Kids(n)[1]) # "object"
                 \/ Type(n) = "method" /\ Type(Up(n)) = "object" /\ ~Made(n)

\* A child that is not walked: of an initialiser, of a field, of a constructor with a body, an
\* anonymous function where nothing is walked for calls.
Dropped(n) ==
  LET up == Up(n)
  IN  CASE up = 0 -> FALSE
        [] Type(n) = "arrow" /\ ~Made(n) /\ Type(up) # "field"
             /\ ~\E a \in Above(n) \ {0} : BodyWalked(a) -> TRUE
        [] Type(up) = "anon" -> Type(n) # "method"
        [] Type(up) = "field" -> lang = "java" \/ BodyOf(up) = <<>>
        [] Made(up) /\ KindOf(up) \in {"variable", "constant"} -> lang # "typescript" \/ Type(n) = "object"
        [] OTHER -> FALSE

\* Inside a dropped child, these are walked nevertheless: the arrows of an exported object.
Lost(c) ==
  \E a \in Above(c) \union {c} :
    /\ a # 0 /\ Dropped(a)
    /\ ~\E b \in Above(c) : a < b /\ Type(b) = "arrow" /\ Made(b)

\* Of a wrapped arrow function in a field, only the body is walked.
Wrapper(c) ==
  \E f \in Above(c) : /\ f # 0 /\ Type(f) = "field" /\ lang = "typescript"
                      /\ ~\E i \in DOMAIN BodyOf(f) : BodyOf(f)[i].n \in Above(c) \union {c}

\* The routine a Pascal definition belongs to, when the interface declares it.
Declaration(d) ==
  {f \in All("function") : Up(f) = ast[d].of /\ ast[d].of # 0 /\ \A e \in All("defProc") : f < e}

(* Every call in the file is recorded once, from the innermost declaration around it, unless it
   stands in one of the places that are not walked; a call in a Pascal definition is recorded
   from the routine of that class.                                                         *)
CallsAreAttributed ==
  phase = "done" =>
    \A c \in All("call") :
      LET defs == Above(c) \intersect All("defProc")
      IN  /\ Count(c, "calls") = IF Lost(c) \/ Wrapper(c) THEN 0 ELSE 1
          /\ defs = {} => Sources(c, "calls") \subseteq {Enclosing(c)}
          /\ \A d \in defs : Declaration(d) # {} => Sources(c, "calls") \subseteq Declaration(d)

\* The declaration a decorator stands before.
Decorated(d) ==
  {n \in DOMAIN ast : /\ Up(n) = Up(d) /\ d < n /\ Type(n) # "decorator"
                      /\ \A s \in d + 1 .. n - 1 : Up(s) = Up(d) => Type(s) = "decorator"}

(* A decorator decorates the declaration behind it and no other, a base class is extended by the
   class that names it, and a type is referenced by the declaration it stands in, twice when that
   is a member of a type alias.                                                                  *)
AnnotationsAreAttributed ==
  phase = "done" =>
    /\ \A d \in All("decorator") :
         LET by == {n \in Decorated(d) : Made(n) /\ KindOf(n) \in {"function", "method", "class"}}
         IN  Sources(d, "decorates") = by /\ Count(d, "decorates") = Cardinality(by)
    /\ \A h \in All("heritage") : Made(Up(h)) => Sources(h, "extends") = {Up(h)} /\ Count(h, "extends") = 1
    /\ \A t \in All("type") :
         LET owner == IF Type(Up(t)) = "member" THEN Up(Up(t)) ELSE Up(t)
         IN  /\ Made(owner) => Sources(t, "references") = {owner}
             /\ Count(t, "references") = CASE ~Made(owner) -> 0
                                           [] Type(owner) = "alias" -> 2
                                           [] OTHER -> 1

(* What a walk returns can be stored, and its symbols, types, base classes and decorators belong
   to the declarations around them.                                                           *)
ExtractorInv == ResultIsSound /\ SymbolsAreContained /\ AnnotationsAreAttributed
=============================================================================

----------------------------- MODULE Synthesizer -----------------------------
(***************************************************************************)
(* The calls that no call expression shows (src/src/resolution/            *)
(* callback-synthesizer.ts): observers kept in a field, event emitters, a  *)
(* component that renders itself or another, overridden methods, handlers  *)
(* of Vue templates, events of native code, native views and the SQL of    *)
(* mappers.  Each channel reads the symbols and the text and proposes      *)
(* pairs of symbols; the pairs are merged and stored as edges.             *)
(*                                                                         *)
(* A text is the sequence of what the patterns match in it, a name is a    *)
(* value; what else is on a line is left out, and so is the metadata of an *)
(* edge but for its channel.  A behaviour is one project.                  *)
(***************************************************************************)
EXTENDS Integers, Sequences, FiniteSets, SequencesExt

CONSTANTS
    Projects,    \* [rows, lang, supers, calls, text]
    Pascal,      \* [name in kebab case -> the name of its component]
    PerChannel,  \* MAX_CALLBACKS_PER_CHANNEL
    FanOut,      \* EVENT_FANOUT_CAP
    PerParent,   \* MAX_JSX_CHILDREN
    None

VARIABLES
    code,      \* the project
    proposed,  \* the pairs of each channel
    stored     \* the edges

vars == <<code, proposed, stored>>

\* A row: [id, name, kind, file, span, owner], owner the id of its class, the
\* last name of the namespace of a statement, or "fabric"; code.lang is the
\* language of a file.  A file in Vue has one component.
\* An occurrence: [does, file, line, name, arg].  It
\*   adds, loops, each   this.name.add(..), of this.name, this.name.forEach(..)
\*   passes              name(arg)
\*   emits, hears        .emit("name"), .on("name", arg)
\*   sends               sendEventWithName:@"name"
\*   sets                name.setState(..), name may be None
\*   tag, handles        <name, @event="name"
\*   takes               const { arg[1]: name } = arg[2]()
\* An argument is a dotted name; <<"function", f>> is function f(..), and <<>>
\* what the patterns do not match.
Rows == ToSet(code.rows)
Lang(n) == code.lang[n.file]
Text(does) == SelectSeq(code.text, LAMBDA o : o.does = does)
On(o, n) == o.file = n.file /\ n.span[1] <= o.line /\ o.line <= n.span[2]
Body(n, does) == SelectSeq(Text(does), LAMBDA o : On(o, n))

Functions == {"method", "function"}
Bodies == Functions \union {"component"}
Elements == {"component", "function", "class"}
Jvm == {"java", "kotlin"}

First(s) == IF s = <<>> THEN None ELSE s[1]
FirstNamed(name, kinds) == First(SelectSeq(code.rows, LAMBDA n : n.name = name /\ n.kind \in kinds))

\* enclosingFn: of the rows around an occurrence the last of those that start last.
Around(o, kinds) ==
    LET around == SelectSeq(code.rows, LAMBDA n : n.kind \in kinds /\ On(o, n))
        inmost == SelectSeq(around, LAMBDA n : \A m \in ToSet(around) : n.span[1] >= m.span[1])
    IN IF around = <<>> THEN None ELSE Last(inmost)

\* What function (\w+) and (?:this\.)?(\w+) take of an argument.
HeadOf(arg) ==
    IF arg = <<>> THEN None
    ELSE IF arg[1] \in {"this", "function"} /\ Len(arg) > 1 THEN arg[2] ELSE arg[1]

Pair(a, b, by) == IF a = None \/ b = None \/ a = b THEN <<>> ELSE <<<<a.id, b.id, by>>>>
Pairs(s, Of(_)) == FlattenSeq([i \in DOMAIN s |-> Of(s[i])])

\* The loop over groups, each a sequence of steps that propose pairs: no pair is
\* proposed twice, and a group stops when it has proposed so many.
Propose(done, pairs) == FoldLeft(LAMBDA d, p : IF p \in ToSet(d) THEN d ELSE Append(d, p), done, pairs)
Gather(groups, Steps(_), cap) ==
    FoldLeft(LAMBDA done, g :
                FoldLeft(LAMBDA d, step : IF Len(d) - Len(done) >= cap THEN d ELSE Propose(d, step), done, Steps(g)),
             <<>>, groups)

Classes == SelectSeq(code.rows, LAMBDA n : n.kind = "class")
MethodsOf(c) == SelectSeq(code.rows, LAMBDA n : n.owner = c.id /\ n.kind = "method")
Named(s, name) == SelectSeq(s, LAMBDA n : n.name = name)
-----------------------------------------------------------------------------
(* Observers in a field.                                                   *)

IsRegistrar(n) == n.kind \in Functions /\ n.name \in {"onUpdate", "subscribe"}
IsDispatcher(n) == n.kind \in Functions /\ n.name \in {"triggerUpdate", "notify"}

FieldOf(n, does) == LET s == Body(n, does) IN IF s = <<>> THEN None ELSE s[1].name
RegistrarField(n) == FieldOf(n, "adds")
DispatcherField(n) == IF FieldOf(n, "loops") # None THEN FieldOf(n, "loops") ELSE FieldOf(n, "each")

\* The callback that the line of a call passes.
Callback(r, call) ==
    LET s == SelectSeq(Text("passes"), LAMBDA o : o.file = call.file /\ o.line = call.line /\ o.name = r.name)
    IN IF s = <<>> THEN None ELSE FirstNamed(HeadOf(s[1].arg), Functions)

FieldChannel ==
    LET registrars == SelectSeq(code.rows, LAMBDA n : IsRegistrar(n) /\ RegistrarField(n) # None)
        Calls(r) == SelectSeq(code.calls, LAMBDA c : c.to = r.id)
        Dispatchers(r) ==
            SelectSeq(code.rows, LAMBDA d : IsDispatcher(d) /\ d.file = r.file /\ DispatcherField(d) = RegistrarField(r))
        OfCall(r, call) == Pairs(Dispatchers(r), LAMBDA d : Pair(d, Callback(r, call), "callback"))
        Steps(r) == [i \in DOMAIN Calls(r) |-> OfCall(r, Calls(r)[i])]
    IN Gather(registrars, Steps, PerChannel)
-----------------------------------------------------------------------------
(* Event emitters, and those of native code that JavaScript listens to.    *)

\* Every emitter with every listener, unless there are too many of either.
Across(S, L, by) ==
    IF Cardinality(S) > FanOut \/ Cardinality(L) > FanOut THEN {}
    ELSE UNION {ToSet(Pair(a, b, by)) : a \in S, b \in L}

Events(s) == {o.name : o \in ToSet(s)}
OfEvent(s, e, Of(_)) == {Of(o) : o \in {p \in ToSet(s) : p.name = e}} \ {None}

EventChannel ==
    LET Emitter(o) == Around(o, Bodies)
        Listener(o) == FirstNamed(HeadOf(o.arg), Functions)
        emits == Text("emits")
    IN SetToSeq(UNION {Across(OfEvent(emits, e, Emitter), OfEvent(Text("hears"), e, Listener), "event-emitter") :
                         e \in Events(emits)})

\* The listener by the last of its names, else what is around it: a function,
\* else a constant.
Subscriber(o) ==
    LET named == FirstNamed(IF o.arg[1] = "function" THEN None ELSE Last(o.arg), Functions)
        around == Around(o, Bodies)
    IN IF named # None THEN named ELSE IF around # None THEN around ELSE Around(o, {"constant", "variable"})

NativeChannel ==
    LET Sender(o) == Around(o, Bodies)
        sends == SelectSeq(code.text, LAMBDA o : \/ o.does = "sends" /\ code.lang[o.file] \in {"objc", "swift"}
                                                 \/ o.does = "emits" /\ code.lang[o.file] \in Jvm)
        hears == SelectSeq(Text("hears"), LAMBDA o : code.lang[o.file] = "javascript" /\ o.arg # <<>>)
    IN SetToSeq(UNION {Across(OfEvent(sends, e, Sender), OfEvent(hears, e, Subscriber), "rn-event-channel") :
                         e \in Events(sends)})
-----------------------------------------------------------------------------
(* What a framework calls again.                                           *)

\* setState runs the first method called name of its class.
Rerun(c, name) == First(Named(MethodsOf(c), name))
Sets(m, on) == \E o \in ToSet(Body(m, "sets")) : o.name \in on
Reruns(c, name, on, by) ==
    [i \in DOMAIN MethodsOf(c) |->
        IF Sets(MethodsOf(c)[i], on) THEN Pair(MethodsOf(c)[i], Rerun(c, name), by) ELSE <<>>]

RenderChannel == Gather(Classes, LAMBDA c : Reruns(c, "render", {"this"}, "react-render"), PerChannel)
BuildChannel ==
    LET dart == SelectSeq(Classes, LAMBDA c : Rerun(c, "build") # None /\ Lang(Rerun(c, "build")) = "dart")
    IN Gather(dart, LAMBDA c : Reruns(c, "build", {"this", None}, "flutter-build"), PerChannel)

\* A component mounts the elements in its text.
JsxChannel ==
    LET Mounts(n) == [i \in DOMAIN Body(n, "tag") |-> Pair(n, FirstNamed(Body(n, "tag")[i].name, Elements), "jsx-render")]
    IN Gather(SelectSeq(code.rows, LAMBDA n : n.kind \in Bodies), Mounts, PerParent)
-----------------------------------------------------------------------------
(* Vue templates: children in kebab case and handlers of events.           *)

\* Of the own file if there is one.
Nearest(name, kinds, f) ==
    LET all == SelectSeq(code.rows, LAMBDA n : n.name = name /\ n.kind \in kinds)
        own == SelectSeq(all, LAMBDA n : n.file = f)
    IN IF own # <<>> THEN own[1] ELSE First(all)

\* The member that was taken last under this name of the composable's file.
Taken(name, f) ==
    LET s == SelectSeq(Text("takes"), LAMBDA o : o.file = f /\ o.name = name)
        home == IF s = <<>> THEN None ELSE Nearest(Last(s).arg[2], Functions, f)
    IN IF home = None THEN None
       ELSE First(SelectSeq(code.rows, LAMBDA n : /\ n.name = Last(s).arg[1] /\ n.file = home.file
                                                  /\ n.kind \in Functions \union {"variable", "constant"}))

Handler(name, f) ==
    LET direct == Nearest(name, Functions, f) IN IF direct # None THEN direct ELSE Taken(name, f)

VueChannel ==
    LET IsVue(n) == Lang(n) = "vue" /\ n.kind = "component"
        Kebab(c) == SelectSeq(Text("tag"), LAMBDA o : o.file = c.file /\ o.name \in DOMAIN Pascal)
        Handles(c) == SelectSeq(Text("handles"), LAMBDA o : o.file = c.file)
        Steps(c) ==
            [i \in DOMAIN Kebab(c) |-> Pair(c, Nearest(Pascal[Kebab(c)[i].name], Elements, c.file), "jsx-render")]
            \o [i \in DOMAIN Handles(c) |-> Pair(c, Handler(Handles(c)[i].name, c.file), "vue-handler")]
    IN Gather(SelectSeq(code.rows, IsVue), Steps, PerParent)
-----------------------------------------------------------------------------
(* Overridden methods, native views and mapped statements.                 *)

\* The classes with what they inherit from, in the order of the edges.
Inherits(kinds, langs) ==
    LET of == SelectSeq(code.supers, LAMBDA s : s[1] # s[2] /\ s[3] \in kinds)
        RowOf(id) == First(SelectSeq(code.rows, LAMBDA n : n.id = id))
    IN SelectSeq([i \in DOMAIN of |-> <<RowOf(of[i][1]), RowOf(of[i][2])>>],
                 LAMBDA s : s[1].kind = "class" /\ Lang(s[2]) \in langs)

\* new Map keeps the last of the overloads of the base.
CppChannel ==
    LET Base(b, name) == LET s == Named(MethodsOf(b), name) IN IF s = <<>> THEN None ELSE Last(s)
        Overrides(c) == SelectSeq(MethodsOf(c), LAMBDA m : Lang(m) = "cpp")
        Steps(s) == [i \in DOMAIN Overrides(s[1]) |->
                        LET m == Overrides(s[1])[i] IN Pair(Base(s[2], m.name), m, "cpp-override")]
    IN Gather(Inherits({"extends"}, {"cpp"}), Steps, PerChannel)

\* Keyed by the name alone: the last overload.
Implementations_ByName(c, name) ==
    LET s == SelectSeq(Named(MethodsOf(c), name), LAMBDA m : Lang(m) \in Jvm) IN IF s = <<>> THEN s ELSE <<Last(s)>>
\* Every overload of the base is joined with every overload of the class.
Implementations(c, name) == SelectSeq(Named(MethodsOf(c), name), LAMBDA m : Lang(m) \in Jvm)
InterfaceChannel ==
    LET All(s) == Pairs(MethodsOf(s[2]), LAMBDA x :
                    Pairs(Implementations(s[1], x.name), LAMBDA m : Pair(x, m, "interface-impl")))
        Steps(s) == [i \in DOMAIN All(s) |-> <<All(s)[i]>>]
    IN Gather(Inherits({"extends", "implements"}, Jvm), Steps, PerChannel)

\* A view of a specification with the native classes called after it.
NativeSuffixes == <<"", "View", "ViewManager", "ComponentView", "Manager">>
FabricChannel ==
    LET Natives(n, suffix) ==
            SelectSeq(Classes, LAMBDA c : Lang(c) \in {"objc", "cpp"} \union Jvm /\ c.name = n.name \o suffix)
        Views(n) == Pairs(NativeSuffixes, LAMBDA x : Pairs(Natives(n, x), LAMBDA c : Pair(n, c, "fabric-native-impl")))
    IN Propose(<<>>, Pairs(SelectSeq(code.rows, LAMBDA n : n.kind = "component" /\ n.owner = "fabric"), Views))

\* A statement with the one method whose class is called like the last of its
\* namespace.
ClassName(m) == LET c == SelectSeq(code.rows, LAMBDA n : n.id = m.owner) IN IF c = <<>> THEN None ELSE c[1].name
MapperChannel ==
    LET Methods(x) == SelectSeq(code.rows, LAMBDA m : /\ m.kind = "method" /\ Lang(m) \in Jvm
                                                      /\ m.name = x.name /\ ClassName(m) = x.owner)
        Statement(x) == IF Len(Methods(x)) = 1 THEN Pair(Methods(x)[1], x, "mybatis-java-xml") ELSE <<>>
    IN Propose(<<>>, Pairs(SelectSeq(code.rows, LAMBDA n : n.kind = "method" /\ Lang(n) = "xml"), Statement))
-----------------------------------------------------------------------------
Init == code \in Projects /\ proposed = None /\ stored = None

Synthesize ==
    /\ proposed = None
    /\ proposed' = <<FieldChannel, EventChannel, RenderChannel, JsxChannel, VueChannel, BuildChannel, CppChannel,
                     InterfaceChannel, NativeChannel, FabricChannel, MapperChannel>>
    /\ UNCHANGED <<code, stored>>

\* synthesizeCallbackEdges: of the proposals of one pair the first is stored.
Store ==
    /\ proposed # None /\ stored = None
    /\ stored' = FoldLeft(LAMBDA s, p : IF \E e \in ToSet(s) : e[1] = p[1] /\ e[2] = p[2] THEN s ELSE Append(s, p),
                          <<>>, FlattenSeq(proposed))
    /\ UNCHANGED <<code, proposed>>

Next == Synthesize \/ Store
Spec == Init /\ [][Next]_vars
-----------------------------------------------------------------------------
(* What the channels mean, without their loops: the pairs that meet, each  *)
(* with the group whose cap may cut it.                                    *)

Meet(a, b, group, cap) == [pair |-> <<a.id, b.id>>, group |-> group, cap |-> cap]
Free(a, b) == Meet(a, b, None, None)
Calling(occurrences, Of(_), e) == {Of(o) : o \in {p \in occurrences : p.name = e}} \ {None}

CallbacksMeet ==
    UNION {{Meet(d, Callback(r, c), <<"callback", r.id>>, PerChannel) :
              r \in {n \in Rows : /\ IsRegistrar(n) /\ n.id = c.to /\ n.file = d.file /\ RegistrarField(n) # None
                                  /\ RegistrarField(n) = DispatcherField(d) /\ Callback(n, c) \notin {None, d}}} :
           d \in {n \in Rows : IsDispatcher(n)}, c \in ToSet(code.calls)}

EventsMeet(emits, hears, Listener(_)) ==
    LET Emitter(o) == Around(o, Bodies)
        quiet == {e \in {o.name : o \in emits} : /\ Cardinality(Calling(emits, Emitter, e)) <= FanOut
                                                  /\ Cardinality(Calling(hears, Listener, e)) <= FanOut}
    IN {Free(p[1], p[2]) :
          p \in {q \in Rows \X Rows : q[1] # q[2] /\ \E e \in quiet : q[1] \in Calling(emits, Emitter, e)
                                                                     /\ q[2] \in Calling(hears, Listener, e)}}
AllEventsMeet ==
    LET Listener(o) == FirstNamed(HeadOf(o.arg), Functions)
        emits == ToSet(Text("emits"))
        hears == ToSet(Text("hears"))
        native == ToSet(Text("sends")) \union {o \in emits : code.lang[o.file] \in Jvm}
    IN EventsMeet(emits, hears, Listener)
       \union EventsMeet(native, {o \in hears : code.lang[o.file] = "javascript" /\ o.arg # <<>>}, Subscriber)

SiblingsMeet ==
    UNION {{Meet(m, Rerun(c, rerun[1]), <<rerun[1], c.id>>, PerChannel) :
              m \in {n \in Rows : /\ n.owner = c.id /\ n.kind = "method"
                                  /\ Rerun(c, rerun[1]) \notin {None, n}
                                  /\ (rerun[1] = "build" => Lang(Rerun(c, "build")) = "dart")
                                  /\ Sets(n, rerun[2])}} :
           c \in {n \in Rows : n.kind = "class"}, rerun \in {<<"render", {"this"}>>, <<"build", {"this", None}>>}}

ElementsMeet ==
    {Meet(p[1], p[2], <<"jsx", p[1].id>>, PerParent) :
       p \in {q \in Rows \X Rows :
                q[1] # q[2] /\ q[1].kind \in Bodies /\ q[2] = FirstNamed(q[2].name, Elements)
                /\ \E o \in ToSet(Text("tag")) : On(o, q[1]) /\ o.name = q[2].name}}

TemplatesMeet ==
    {Meet(p[1], p[2], <<"vue", p[1].id>>, PerParent) :
       p \in {q \in Rows \X Rows :
                /\ q[1] # q[2] /\ q[1].kind = "component" /\ Lang(q[1]) = "vue"
                /\ \E o \in ToSet(code.text) :
                     /\ o.file = q[1].file
                     /\ \/ /\ o.does = "tag" /\ o.name \in DOMAIN Pascal
                           /\ q[2] = Nearest(Pascal[o.name], Elements, o.file)
                        \/ o.does = "handles" /\ q[2] = Handler(o.name, o.file)}}

\* A Java or Kotlin method with each overload, a C++ method with the last.
OverridesMeet ==
    {Meet(p[1], p[2], <<"overrides", p[1].owner, p[2].owner>>, PerChannel) :
       p \in {q \in Rows \X Rows :
                /\ {q[1].kind, q[2].kind} = {"method"} /\ q[1].name = q[2].name
                /\ \E s \in ToSet(code.supers), c, b \in Rows :
                     /\ s[1] # s[2] /\ c.id = s[1] /\ b.id = s[2] /\ c.kind = "class"
                     /\ q[2].owner = c.id /\ q[1].owner = b.id
                     /\ \/ Lang(q[2]) \in Jvm /\ Lang(b) \in Jvm
                        \/ /\ Lang(q[2]) = "cpp" /\ Lang(b) = "cpp" /\ s[3] = "extends"
                           /\ q[1] = Last(Named(MethodsOf(b), q[1].name))}}

NativesMeet ==
    {Free(p[1], p[2]) :
       p \in {q \in Rows \X Rows :
                \/ /\ q[1].owner = "fabric" /\ q[2].kind = "class" /\ Lang(q[2]) \in {"objc", "cpp"} \union Jvm
                   /\ \E x \in ToSet(NativeSuffixes) : q[2].name = q[1].name \o x
                \/ /\ Lang(q[2]) = "xml" /\ q[2].kind = "method"
                   /\ {q[1]} = {m \in Rows : /\ m.kind = "method" /\ Lang(m) \in Jvm /\ m.name = q[2].name
                                             /\ ClassName(m) = q[2].owner}}}

Meant ==
    CallbacksMeet \union AllEventsMeet \union SiblingsMeet \union ElementsMeet \union TemplatesMeet
    \union OverridesMeet \union NativesMeet

\* Every edge joins two symbols that meet, and is the only one that does; of
\* those that meet none is lost, over the channels and the loops that share
\* what they have seen, but to a cap that is used up (synthesizeCallbackEdges).
SynthesisInv ==
    stored # None =>
        LET joined == {<<e[1], e[2]>> : e \in ToSet(stored)}
        IN /\ Cardinality(joined) = Len(stored)
           /\ \A p \in joined : \E m \in Meant : m.pair = p
           /\ \A m \in Meant : \/ m.pair \in joined
                                \/ /\ m.cap # None
                                   /\ Cardinality({o.pair : o \in {n \in Meant : n.group = m.group}} \cap joined) >= m.cap
=============================================================================

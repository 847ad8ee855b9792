---------------------------- MODULE MCTextInputs ----------------------------
(* What the resolver of imports and the synthesizer of calls are given.     *)
EXTENDS Integers, Sequences, FiniteSets, SequencesExt, TLC

CONSTANT None

(* A TypeScript project of five files that forward to one another, with an *)
(* alias whose first directory holds nothing; two Java packages and two Go *)
(* packages with namesakes; and an include.                                *)

Path(segs, ext) == [segs |-> segs, ext |-> ext]

Spec0(up, segs) == [up |-> up, segs |-> segs, ext |-> ""]
Of(s) == Spec0(0, <<s>>)

main == Path(<<"src", "main">>, ".ts")
barrel == Path(<<"src", "index">>, ".ts")
fa == Path(<<"src", "a">>, ".ts")
fb == Path(<<"src", "b", "index">>, ".ts")
fc == Path(<<"src", "c">>, ".tsx")
readme == Path(<<"lib", "a", "readme">>, ".md")
JsFiles == {main, barrel, fa, fb, fc}

All(source) == [kind |-> "wildcard", exported |-> "*", original |-> "*", source |-> source]
One(name, original, source) == [kind |-> "named", exported |-> name, original |-> original, source |-> source]

FromBarrel == {<<>>, <<All(Of("a"))>>, <<All(Of("b")), One("x", "x", Of("a"))>>,
               <<One("x", "y", Of("a")), All(Of("b"))>>, <<One("default", "x", Of("b"))>>,
               <<One("x", "default", Of("a")), One("x", "x", Of("b"))>>}
FromA == {<<>>, <<All(Of("b"))>>, <<One("y", "x", Of("b")), All(Of("index"))>>, <<One("x", "y", Of("index"))>>}
FromB == {<<>>, <<All(Spec0(1, <<"c">>))>>, <<All(Spec0(1, <<"a">>)), One("x", "y", Spec0(1, <<"c">>))>>}

Js(f, n, kind, exported) ==
    [file |-> f, name |-> n, kind |-> kind, exported |-> exported, lang |-> "typescript", pkg |-> <<>>, class |-> None]

Declarations(f) == {<<>>, <<Js(f, "x", "variable", TRUE)>>, <<Js(f, "x", "function", FALSE), Js(f, "y", "function", TRUE)>>}

Statement(form, default, named, star, source) ==
    [form |-> form, default |-> default, named |-> named, star |-> star, source |-> source]

JsRefs ==
    {[name |-> <<"x">>, statements |-> <<Statement("es", None, <<<<"x", "x">>>>, None, Spec0(0, <<>>))>>],
     [name |-> <<"x">>, statements |-> <<Statement("require", "x", <<>>, None, Of("index")),
                                         Statement("es", None, <<<<"y", "x">>>>, None, Spec0(-1, <<"@lib", "a">>))>>],
     [name |-> <<"ns", "y">>, statements |-> <<Statement("es", "z", <<>>, "ns", Spec0(-1, <<"@", "index">>))>>],
     [name |-> <<"x">>, statements |-> <<Statement("es", None, <<<<"x", "x">>>>, None, Spec0(-1, <<"react">>))>>]}

Aliases == <<[prefix |-> <<"@lib">>, wild |-> TRUE, to |-> <<<<"lib">>, <<"src">>>>]>>

World(files, symbols, statements, forwards, r) ==
    [files |-> files, aliases |-> Aliases, goModule |-> None, includes |-> <<<<"include">>>>,
     symbols |-> symbols, statements |-> statements, forwards |-> forwards, ref |-> r]

Reference(file, lang, kind, name, source) ==
    [file |-> file, lang |-> lang, kind |-> kind, name |-> name, source |-> source]

JsWorlds ==
    {World(files, db \o da \o dd \o <<Js(fc, "y", "class", TRUE)>>, r.statements,
           (barrel :> wb) @@ (fa :> wa) @@ (fb :> wd) @@ (fc :> <<>>),
           Reference(main, "typescript", "calls", r.name, None)) :
        files \in {JsFiles, JsFiles \union {readme}}, db \in {<<>>, <<Js(barrel, "y", "function", TRUE)>>}, da \in Declarations(fa), dd \in Declarations(fb),
        wb \in FromBarrel, wa \in FromA, wd \in FromB, r \in JsRefs}

\* A class Store in two packages, and one whose path ends like the first.
Java(path, pkg, name, kind) ==
    [file |-> Path(path, ".java"), name |-> name, kind |-> kind, exported |-> TRUE, lang |-> "java",
     pkg |-> pkg, class |-> "Store"]
JavaSymbols ==
    <<Java(<<"main", "com", "a", "Store">>, <<"com", "a">>, "Store", "class"),
      Java(<<"main", "com", "a", "Store">>, <<"com", "a">>, "save", "method"),
      Java(<<"main", "com", "b", "Store">>, <<"com", "b">>, "Store", "class"),
      Java(<<"main", "com", "b", "Store">>, <<"com", "b">>, "save", "method"),
      Java(<<"test", "org", "com", "b", "Store">>, <<"org", "com", "b">>, "save", "method")>>

JavaMain == Path(<<"main", "Main">>, ".java")
Import(local, segs) == Statement("java", None, <<<<local, local>>>>, None, Spec0(-1, segs))

JavaWorlds ==
    {World({x.file : x \in ToSet(symbols)} \union {JavaMain}, symbols, statements, <<>>, r) :
        symbols \in {JavaSymbols, Reverse(JavaSymbols)},
        statements \in {<<Import("Store", <<"com", p, "Store">>)>> : p \in {"a", "b", "c"}}
                        \union {<<Import("*", <<"com", "a", "*">>), Import("save", <<"com", "b", "Store", "save">>)>>},
        r \in {Reference(JavaMain, lang, "calls", name, None) :
                 name \in {<<"Store">>, <<"save">>, <<"Store", "save">>}, lang \in {"java"}}
              \union {Reference(JavaMain, lang, "imports", <<>>, Spec0(-1, <<"com", p, n>>)) :
                 p \in {"a", "b"}, n \in {"Store", "*"}, lang \in {"java", "kotlin"}}}

Go(path, pkg, exported) ==
    [file |-> Path(path, ".go"), name |-> "Open", kind |-> "function", exported |-> exported, lang |-> "go",
     pkg |-> pkg, class |-> None]
GoSymbols(e) ==
    <<Go(<<"db", "sub", "open">>, <<"db", "sub">>, TRUE), Go(<<"db", "db">>, <<"db">>, e), Go(<<"fs", "fs">>, <<"fs">>, TRUE)>>
GoMain == Path(<<"main">>, ".go")

GoWorlds ==
    {[World({x.file : x \in ToSet(GoSymbols(e))} \union {GoMain}, GoSymbols(e), statements, <<>>,
            Reference(GoMain, "go", "calls", <<"db", "Open">>, None)) EXCEPT !.goModule = <<"acme", "app">>] :
        e \in BOOLEAN,
        statements \in {<<Statement(form, None, <<>>, "db", Spec0(-1, segs))>> :
            form \in {"single", "block"},
            segs \in {<<"acme", "app", "db">>, <<"acme", "app", "fs">>, <<"acme", "app", "db", "sub">>, <<"other", "db">>,
                      <<"other", "internal", "db">>}}}

Header_h == Path(<<"include", "util">>, ".h")
CppWorlds ==
    {World(files, [i \in 1..Cardinality(files) |->
                      [file |-> SetToSeq(files)[i], name |-> "util", kind |-> "file", exported |-> FALSE,
                       lang |-> "cpp", pkg |-> <<>>, class |-> None]],
           <<Statement("include", None, <<>>, "util", source)>>, <<>>,
           Reference(Path(<<"src", "x">>, ".cpp"), "cpp", "imports", <<>>, source)) :
        files \in SUBSET {Header_h, Path(<<"util">>, ".h"), Path(<<"src", "util">>, ".hpp")},
        source \in {[up |-> u, segs |-> <<"util">>, ext |-> e] : u \in {-1, 0}, e \in {"", ".h"}}}

Worlds == JsWorlds \union JavaWorlds \union GoWorlds \union CppWorlds

-----------------------------------------------------------------------------
(* The projects of the synthesizer: for each group of channels the same     *)
(* symbols with every part of a text.                                       *)

N(id, name, kind, file, span, owner) == [id |-> id, name |-> name, kind |-> kind, file |-> file, span |-> span, owner |-> owner]
O(does, file, line, name, arg) == [does |-> does, file |-> file, line |-> line, name |-> name, arg |-> arg]
Parts(rows, lang, supers, calls, text) ==
    {[rows |-> rows, lang |-> lang, supers |-> supers, calls |-> calls, text |-> SelectSeq(text, LAMBDA o : o \in t)] :
       t \in SUBSET ToSet(text)}
To(id, file, line) == [to |-> id, file |-> file, line |-> line]

Observers ==
    Parts(<<N("1", "onUpdate", "method", "a", <<1, 2>>, ""), N("2", "subscribe", "method", "a", <<3, 4>>, ""),
            N("3", "triggerUpdate", "method", "a", <<5, 6>>, ""), N("4", "notify", "method", "a", <<7, 8>>, ""),
            N("5", "redraw", "method", "b", <<1, 3>>, ""), N("6", "save", "function", "b", <<4, 9>>, "")>>,
          [f \in {"a", "b"} |-> "javascript"], <<>>,
          <<To("1", "b", 5), To("1", "b", 6), To("2", "b", 7), To("1", "a", 6)>>,
          <<O("adds", "a", 1, "cbs", <<>>), O("adds", "a", 3, "cbs", <<>>), O("loops", "a", 5, "cbs", <<>>),
            O("each", "a", 6, "others", <<>>), O("each", "a", 7, "cbs", <<>>), O("passes", "b", 5, "onUpdate", <<"this", "redraw">>),
            O("passes", "b", 6, "onUpdate", <<"save">>), O("passes", "b", 7, "subscribe", <<"redraw">>),
            O("passes", "a", 6, "onUpdate", <<"triggerUpdate">>)>>)

Emitters ==
    Parts(<<N("1", "open", "method", "a", <<1, 9>>, ""), N("2", "close", "function", "a", <<2, 4>>, ""),
            N("3", "onOpen", "function", "a", <<10, 12>>, ""), N("4", "api", "constant", "a", <<20, 30>>, ""),
            N("5", "tell", "method", "n", <<1, 4>>, ""), N("6", "ask", "method", "k", <<1, 4>>, "")>>,
          [f \in {"a", "n", "k"} |-> CASE f = "a" -> "javascript" [] f = "n" -> "objc" [] f = "k" -> "kotlin"], <<>>, <<>>,
          <<O("emits", "a", 3, "open", <<>>), O("emits", "a", 8, "open", <<>>), O("hears", "a", 11, "open", <<"function", "onOpen">>),
            O("hears", "a", 21, "open", <<"this", "close">>), O("hears", "a", 22, "open", <<>>),
            O("hears", "a", 23, "open", <<"handler">>), O("sends", "n", 2, "open", <<>>), O("emits", "k", 2, "open", <<>>),
            O("hears", "n", 3, "open", <<"tell">>), O("hears", "a", 3, "open", <<"props", "onOpen">>)>>)

Components ==
    Parts(<<N("1", "App", "class", "a", <<1, 20>>, ""), N("2", "render", "method", "a", <<2, 5>>, "1"),
            N("3", "mount", "method", "a", <<6, 8>>, "1"), N("4", "List", "function", "a", <<21, 30>>, ""),
            N("5", "State", "class", "d", <<1, 20>>, ""), N("6", "build", "method", "d", <<2, 5>>, "5"),
            N("7", "tap", "method", "d", <<6, 8>>, "5"), N("8", "render", "method", "d", <<9, 12>>, "5")>>,
          [f \in {"a", "d"} |-> IF f = "a" THEN "javascript" ELSE "dart"], <<>>, <<>>,
          <<O("sets", "a", 3, "this", <<>>), O("sets", "a", 7, "this", <<>>), O("sets", "d", 7, None, <<>>), O("sets", "d", 10, "this", <<>>),
            O("tag", "a", 4, "List", <<>>), O("tag", "a", 5, "App", <<>>), O("tag", "a", 22, "List", <<>>), O("tag", "a", 23, "App", <<>>),
            O("tag", "a", 24, "State", <<>>)>>)

Templates ==
    Parts(<<N("1", "Page", "component", "p", <<1, 30>>, ""), N("2", "save", "function", "p", <<3, 4>>, ""),
            N("3", "save", "function", "s", <<1, 4>>, ""), N("4", "SideBar", "class", "s", <<5, 9>>, ""),
            N("5", "useSide", "function", "u", <<1, 9>>, ""), N("6", "close", "constant", "u", <<2, 3>>, ""),
            N("7", "close", "function", "s", <<10, 12>>, "")>>,
          [f \in {"p", "s", "u"} |-> IF f = "p" THEN "vue" ELSE "javascript"], <<>>, <<>>,
          <<O("tag", "p", 10, "side-bar", <<>>), O("tag", "p", 11, "SideBar", <<>>), O("handles", "p", 12, "save", <<>>),
            O("handles", "p", 13, "hide", <<>>), O("handles", "p", 14, "close", <<>>), O("takes", "p", 2, "hide", <<"close", "useSide">>),
            O("takes", "p", 3, "hide", <<"save", "useSide">>), O("tag", "s", 2, "Page", <<>>)>>)

\* Overloads, two classes of one base, and a class that is also a statement's.
Inheritance(lang) ==
    UNION {Parts(<<N("1", "Base", "interface", "a", <<1, 9>>, ""), N("2", "list", "method", "a", <<2, 2>>, "1"), N("3", "list", "method", "a", <<3, 3>>, "1"),
                   N("4", "Impl", "class", "b", <<1, 9>>, ""), N("5", "list", "method", "b", <<2, 2>>, "4"), N("6", "list", "method", "b", <<3, 3>>, "4"),
                   N("7", "Sub", other, "c", <<1, 9>>, ""), N("8", "list", "method", "c", <<2, 2>>, "7"), N("9", "size", "method", "c", <<3, 3>>, "7"),
                   N("10", "list", "method", "x", <<1, 3>>, name), N("11", "size", "method", "x", <<4, 6>>, "Sub"),
                   N("12", "Sub", "component", "j", <<1, 1>>, "fabric"), N("13", "SubView", "class", "c", <<20, 30>>, "")>>,
                 [f \in {"a", "b", "c", "x", "j"} |-> CASE f = "x" -> "xml" [] f = "j" -> "javascript" [] OTHER -> lang],
                 supers, <<>>, <<>>) :
           other \in {"class", "struct"}, name \in {"Impl", "Sub"},
           supers \in {<<>>} \union {<<<<"4", "1", k>>>> : k \in {"extends", "implements"}}
                      \union {<<<<"4", "1", k>>, <<"7", "4", "extends">>, <<"7", "1", "implements">>>> : k \in {"extends", "implements"}}}

Projects == Observers \union Emitters \union Components \union Templates \union Inheritance("java") \union Inheritance("cpp")
Pascal == [n \in {"side-bar"} |-> "SideBar"]
=============================================================================

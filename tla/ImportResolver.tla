--------------------------- MODULE ImportResolver ---------------------------
(***************************************************************************)
(* Which symbol a reference means that was imported (src/src/resolution/   *)
(* import-resolver.ts, path-aliases.ts): the import statements of the file *)
(* give local names, a specifier is resolved to a path, and the symbol is  *)
(* searched in that file and along the re-exports of the files behind it.  *)
(* Go, Java, Kotlin and C have rules of their own.  A behaviour is one     *)
(* reference in one world; the search keeps a stack of files, and a step   *)
(* enters a file, follows one re-export or gives up.                       *)
(*                                                                         *)
(* A path is its segments and an extension.  Comments, the text of the     *)
(* statements and the suffix of an alias after its * are not modelled.     *)
(***************************************************************************)
EXTENDS Integers, Sequences, FiniteSets, SequencesExt

CONSTANTS
    Worlds,   \* the projects and references, see World
    MaxDepth, \* REEXPORT_MAX_DEPTH
    None      \* absent

VARIABLES
    world,    \* the project and the reference
    pc,       \* "ready", "imports", "search" or "done"
    at,       \* the import mapping that is tried
    stack,    \* findExportedSymbol: frames [file, want, pass, i]
    visited,  \* the files entered for this mapping
    found     \* the symbol, or None

vars == <<world, pc, at, stack, visited, found>>

(* World: files, the paths of the project, and aliases, Seq of patterns   *)
(* [prefix, wild, to], of which the longest prefix comes first; goModule,  *)
(* segments or None; includes, Seq of directories; symbols, the rows of    *)
(* nodes [file, name, kind, exported, lang, pkg]; statements of the file   *)
(* of the reference; forwards[f], the re-exports of f; ref.                *)
ref == world.ref
Forwards(f) == IF f \in DOMAIN world.forwards THEN world.forwards[f] ELSE <<>>

Init ==
    /\ world \in Worlds
    /\ pc = "ready"
    /\ at = 1
    /\ stack = <<>>
    /\ visited = {}
    /\ found = None
----------------------------------------------------------------------------
(* Paths.                                                                  *)

Path(segs, ext) == [segs |-> segs, ext |-> ext]
Dir(f) == Front(f.segs)

(* fileExists also says yes to a directory. *)
Exists(p) ==
    \/ p \in world.files
    \/ p.ext = "" /\ \E f \in world.files : IsStrictPrefix(p.segs, f.segs)

Plain(e) == Path(<<>>, e)
Index(n, e) == Path(<<n>>, e)

(* EXTENSION_RESOLUTION *)
Extensions ==
    [typescript |-> <<Plain(".ts"), Plain(".tsx"), Plain(".d.ts"), Plain(".js"), Plain(".jsx"),
                      Index("index", ".ts"), Index("index", ".tsx"), Index("index", ".js")>>,
     javascript |-> <<Plain(".js"), Plain(".jsx"), Plain(".mjs"), Plain(".cjs"),
                      Index("index", ".js"), Index("index", ".jsx")>>,
     python |-> <<Plain(".py"), Index("__init__", ".py")>>,
     go |-> <<Plain(".go")>>,
     java |-> <<Plain(".java")>>,
     kotlin |-> <<>>,
     cpp |-> <<Plain(".h"), Plain(".hpp"), Plain(".hxx"), Plain(".cpp"), Plain(".cc"), Plain(".cxx")>>]

(* tryWithExt: the path with each extension, then as it stands. *)
Spellings(p) ==
    IF p.ext # "" THEN <<p>>
    ELSE [i \in DOMAIN Extensions[ref.lang] |->
              Path(p.segs \o Extensions[ref.lang][i].segs, Extensions[ref.lang][i].ext)] \o <<p>>

(* The first spelling of a path that exists, and of several paths. *)
FirstOf(S) == IF S = <<>> THEN None ELSE Head(S)
FirstNot(S, none) == FirstOf(SelectSeq(S, LAMBDA x : x # none))
Spelled(p) == FirstOf(SelectSeq(Spellings(p), Exists))
FirstExisting(paths) == FirstNot([k \in DOMAIN paths |-> Spelled(paths[k])], None)

(* A specifier is [up, segs, ext]: up is 0 for ./, 1 for ../ and so on,    *)
(* and -1 when it does not start with a dot.                               *)
Relative(from, spec) ==
    LET d == Dir(from)
    IN Path(SubSeq(d, 1, Len(d) - spec.up) \o spec.segs, spec.ext)

(* applyAliases: the replacements of the first pattern that matches. *)
HasPrefix(spec, p) ==
    IsPrefix(p.prefix, spec.segs) /\ (p.wild => Len(spec.segs) > Len(p.prefix))
Matching(spec) ==
    SelectInSeq(world.aliases, LAMBDA p : HasPrefix(spec, p) /\ (p.wild \/ spec.segs = p.prefix))
Rewritten(spec) ==
    LET i == Matching(spec)
        p == world.aliases[i]
        rest == SubSeq(spec.segs, Len(p.prefix) + 1, Len(spec.segs))
    IN IF i = 0 THEN <<>> ELSE [k \in DOMAIN p.to |-> Path(p.to[k] \o rest, spec.ext)]

(* The aliases many projects have without saying so. *)
Conventional(spec) ==
    LET root == Head(spec.segs)
        dir == CASE root \in {"@", "~", "@src", "src"} -> "src"
                 [] root \in {"@app", "app"} -> "app"
                 [] OTHER -> None
    IN IF Len(spec.segs) > 1 /\ dir # None THEN <<Path(<<dir>> \o Tail(spec.segs), spec.ext)>> ELSE <<>>

\* Some of the headers of the C and C++ libraries.
Builtins == [javascript |-> {"fs", "path", "os", "crypto", "http", "https", "url", "util", "events",
                             "stream", "child_process", "buffer"},
             python |-> {"os", "os.path", "sys", "json", "re", "math", "datetime", "collections",
                         "typing", "pathlib", "logging"},
             cpp |-> {"stdio", "string", "vector", "map", "memory"}]

IsJs(lang) == lang \in {"typescript", "javascript"}

(* isExternalImport: an alias counts by its prefix alone.  The dots of a   *)
(* Python module stay in its one segment.                                  *)
IsExternal(spec) ==
    /\ spec.up = -1
    /\ CASE IsJs(ref.lang) ->
              \/ Len(spec.segs) = 1 /\ Head(spec.segs) \in Builtins.javascript
              \/ /\ \A i \in DOMAIN world.aliases : ~HasPrefix(spec, world.aliases[i])
                 /\ Head(spec.segs) \notin {"@", "~", "src"} \/ Len(spec.segs) = 1
         [] ref.lang = "python" -> Head(spec.segs) \in Builtins.python
         [] ref.lang = "go" ->
              /\ world.goModule = None \/ ~IsPrefix(world.goModule, spec.segs)
              /\ \A i \in 2..(Len(spec.segs) - 1) : spec.segs[i] # "internal"
         [] ref.lang = "cpp" -> Len(spec.segs) = 1 /\ Head(spec.segs) \in Builtins.cpp
         [] OTHER -> FALSE

Included(spec) == [i \in DOMAIN world.includes |-> Path(world.includes[i] \o spec.segs, spec.ext)]

(* resolveImportPath *)
Resolve(from, spec) ==
    IF IsExternal(spec) THEN None
    ELSE IF spec.up >= 0 THEN FirstExisting(<<Relative(from, spec)>>)
    ELSE FirstExisting(Rewritten(spec) \o Conventional(spec) \o <<Path(spec.segs, spec.ext)>>
                         \o IF ref.lang = "cpp" THEN Included(spec) ELSE <<>>)
----------------------------------------------------------------------------
(* The names a file imports (extractImportMappings).  A statement is       *)
(* [form, default, named, star, source]: named is Seq of <<name, local>>,  *)
(* star the local name of the whole module.                                *)

Mapping(local, exported, kind, source) ==
    [local |-> local, exported |-> exported, kind |-> kind, source |-> source]

LocalNames(s) ==
    (IF s.default = None THEN <<>> ELSE <<Mapping(s.default, "default", "default", s.source)>>)
    \o [i \in DOMAIN s.named |-> Mapping(s.named[i][2], s.named[i][1], "named", s.source)]
    \o (IF s.star = None THEN <<>> ELSE <<Mapping(s.star, "*", "namespace", s.source)>>)

(* One pattern after the other over the text: first the ES imports, the    *)
(* from imports of Python and the single imports of Go.                    *)
Passes == <<{"es", "from", "single", "java", "include"}, {"require", "import", "block"}>>

(* A wildcard gives no name.  No import of Kotlin is seen: the pattern     *)
(* wants the semicolon.                                                    *)
Mappings ==
    LET Of(forms) == SelectSeq(world.statements, LAMBDA s : s.form \in forms)
        all == FlattenSeq([p \in 1..2 |->
                   FlattenSeq([i \in DOMAIN Of(Passes[p]) |-> LocalNames(Of(Passes[p])[i])])])
    IN IF ref.lang = "kotlin" THEN <<>> ELSE SelectSeq(all, LAMBDA m : m.local # "*")

(* A reference is a name or receiver.name. *)
Bare(m) == ref.name = <<m.local>>
Uses(m) == Head(ref.name) = m.local
Member(m) == Last(ref.name)
----------------------------------------------------------------------------
(* Rules of single languages: the first symbol that fits, or None.         *)

Named(name, Fits(_)) == SelectSeq(world.symbols, LAMBDA x : x.name = name /\ Fits(x))

(* resolveViaImport of an #include: the node of the file. *)
Header ==
    LET FileNode(p) == FirstOf(SelectSeq(world.symbols, LAMBDA x : x.kind = "file" /\ x.file = p))
    IN FileNode(Resolve(ref.file, ref.source))

(* resolveJvmImport: by the qualified name; no wildcards. *)
JvmImport ==
    IF Len(ref.source.segs) < 2 \/ Last(ref.source.segs) = "*" THEN None
    ELSE FirstOf(Named(Last(ref.source.segs), LAMBDA x : x.pkg = Front(ref.source.segs)))

(* The first of the mappings that leads to a symbol. *)
FirstHit(Hit(_)) ==
    LET of == SelectSeq(Mappings, Uses) IN FirstNot([k \in DOMAIN of |-> Hit(of[k])], None)

(* resolveGoCrossPackageReference: exported, and right in the directory of *)
(* the package.                                                            *)
GoPackage(m) ==
    IF world.goModule = None \/ Len(ref.name) < 2 \/ ~IsPrefix(world.goModule, m.source.segs) THEN None
    ELSE LET dir == SubSeq(m.source.segs, Len(world.goModule) + 1, Len(m.source.segs))
         IN FirstOf(Named(Last(ref.name), LAMBDA x :
                x.lang = "go" /\ x.exported /\ Dir(x.file) = dir))

(* resolveJavaImportedReference: a file whose path ends like the class, or *)
(* like the owner of a member imported by itself.                          *)
EndsLike(f, segs) == IsSuffix(segs, f.segs) /\ f.ext = ".java"
JavaClass(m) ==
    LET In(segs) == FirstOf(Named(Last(ref.name), LAMBDA x : x.lang = ref.lang /\ EndsLike(x.file, segs)))
    IN IF In(m.source.segs) # None \/ ~Bare(m) \/ Len(m.source.segs) < 2
       THEN In(m.source.segs) ELSE In(Front(m.source.segs))

Special ==
    CASE ref.lang = "go" -> FirstHit(GoPackage)
      [] ref.lang = "java" /\ ref.kind # "imports" -> FirstHit(JavaClass)
      [] OTHER -> None

(* What resolveOne and resolveViaImport answer before any search. *)
Lookup ==
    /\ pc = "ready"
    /\ \/ /\ ref.kind = "imports"
          /\ found' = CASE ref.lang = "cpp" -> Header
                       [] ref.lang \in {"java", "kotlin"} -> JvmImport
          /\ pc' = "done"
       \/ /\ ref.kind # "imports"
          /\ found' = Special
          /\ pc' = IF found' = None THEN "imports" ELSE "done"
    /\ UNCHANGED <<world, at, stack, visited>>
----------------------------------------------------------------------------
(* findExportedSymbol.                                                     *)

(* What is wanted: a name, the default or a member of the whole module. *)
Want(kind, name) == [kind |-> kind, name |-> name]
WantOf(m) ==
    IF m.kind = "namespace" THEN Want("member", Member(m)) ELSE Want(m.kind, m.exported)

(* Any exported function or class may be the default. *)
Fits(x, want) ==
    /\ x.exported
    /\ IF want.kind = "default" THEN x.kind \in {"function", "class"} ELSE x.name = want.name

Declared(f, want) == SelectSeq(world.symbols, LAMBDA x : x.file = f /\ Fits(x, want))

Frame(f, want) == [file |-> f, want |-> want, pass |-> "enter", i |-> 1]
Top == Last(stack)

TryImport ==
    /\ pc = "imports"
    /\ at <= Len(Mappings)
    /\ LET m == Mappings[at]
       IN \E f \in {IF Uses(m) THEN Resolve(ref.file, m.source) ELSE None} :
             IF f = None
             THEN at' = at + 1 /\ UNCHANGED <<pc, stack, visited>>
             ELSE stack' = <<Frame(f, WantOf(m))>> /\ visited' = {} /\ pc' = "search" /\ UNCHANGED at
    /\ UNCHANGED <<world, found>>

NoImportLeft ==
    /\ pc = "imports"
    /\ at > Len(Mappings)
    /\ pc' = "done"
    /\ UNCHANGED <<world, at, stack, visited, found>>

(* Back to the file that forwards to this one, or to the next mapping. *)
GiveUp ==
    /\ stack' = Front(stack)
    /\ IF Len(stack) = 1 THEN pc' = "imports" /\ at' = at + 1 ELSE UNCHANGED <<pc, at>>

Refused == Len(stack) - 1 > MaxDepth \/ Top.file \in visited

Enter ==
    /\ pc = "search"
    /\ Top.pass = "enter"
    /\ IF Refused THEN GiveUp /\ UNCHANGED <<visited, found>>
       ELSE LET hit == FirstOf(Declared(Top.file, Top.want))
            IN /\ visited' = visited \union {Top.file}
               /\ found' = hit
               /\ IF hit # None THEN pc' = "done" /\ UNCHANGED <<stack, at>>
                  ELSE stack' = [stack EXCEPT ![Len(stack)].pass = "named"] /\ UNCHANGED <<pc, at>>
    /\ UNCHANGED world

(* A re-export is [kind, exported, original, source].  It forwards what is *)
(* wanted under its name, or anything.                                     *)
Forwarded_KeepsName(x, want) == want
Forwarded(x, want) ==
    IF x.kind = "wildcard" THEN want
    ELSE Want(IF x.original = "default" THEN "default" ELSE "named", x.original)

Answers(x, pass, want) ==
    /\ x.kind = pass
    /\ pass = "named" => want.kind # "member" /\ x.exported = want.name

(* The next re-export of the file that may lead to the symbol, or 0. *)
NextForward(fr) ==
    LET S == {i \in fr.i..Len(Forwards(fr.file)) :
                /\ Answers(Forwards(fr.file)[i], fr.pass, fr.want)
                /\ Resolve(fr.file, Forwards(fr.file)[i].source) # None}
    IN IF S = {} THEN 0 ELSE CHOOSE i \in S : \A j \in S : i <= j

Follow ==
    /\ pc = "search"
    /\ Top.pass # "enter"
    /\ \E i \in {NextForward(Top)} \ {0} :
       LET x == Forwards(Top.file)[i]
       IN stack' = Append([stack EXCEPT ![Len(stack)].i = i + 1],
                          Frame(Resolve(Top.file, x.source), Forwarded(x, Top.want)))
    /\ UNCHANGED <<world, pc, at, visited, found>>

(* The explicit re-exports come before the wildcards. *)
Leave ==
    /\ pc = "search"
    /\ Top.pass # "enter"
    /\ NextForward(Top) = 0
    /\ IF Top.pass = "named"
       THEN stack' = [stack EXCEPT ![Len(stack)].pass = "wildcard", ![Len(stack)].i = 1] /\ UNCHANGED <<pc, at>>
       ELSE GiveUp
    /\ UNCHANGED <<world, visited, found>>

Next == Lookup \/ TryImport \/ NoImportLeft \/ Enter \/ Follow \/ Leave

Spec == Init /\ [][Next]_vars
----------------------------------------------------------------------------
(* What the modules mean, without a search: the pairs of a file and what   *)
(* is wanted of it that the re-exports lead to.                            *)

Original(x) == Want(IF x.original = "default" THEN "default" ELSE "named", x.original)
Steps(p) ==
    LET Asked(x) == IF x.kind = "wildcard" THEN p[2] ELSE Original(x)
        some == {x \in ToSet(Forwards(p[1])) :
                    x.kind = "wildcard" \/ (p[2].kind # "member" /\ x.exported = p[2].name)}
    IN {q \in {<<Resolve(p[1], x.source), Asked(x)>> : x \in some} : q[1] # None}

Grown(q) ==
    CHOOSE r \in {[all |-> q.all \union more, last |-> more] :
                    more \in {UNION {Steps(p) : p \in q.last} \ q.all}} : TRUE

\* No chain of different pairs is longer than this.
Longest == 3 * Cardinality(world.files)

LedTo(f, want) ==
    LET r[k \in 0..Longest] ==
          IF k = 0 THEN [all |-> {<<f, want>>}, last |-> {<<f, want>>}]
          ELSE CHOOSE q \in {Grown(p) : p \in {r[k - 1]}} : TRUE
    IN r[Longest].all

Behind(P) == UNION {ToSet(Declared(p[1], p[2])) : p \in P}

(* The files a specifier of JavaScript may name, by a relative path, by an *)
(* alias or by convention, and whether a directory may stand before one.   *)
PathsNamed(spec) ==
    IF spec.up >= 0 THEN {Relative(ref.file, spec)} ELSE ToSet(Rewritten(spec) \o Conventional(spec))
FilesNamed(spec) == {f \in world.files : \E p \in PathsNamed(spec) : f \in ToSet(Spellings(p))}
Hidden(spec) == \E p \in PathsNamed(spec) : p \notin world.files /\ Exists(p)

TypeOK ==
    /\ pc \in {"ready", "imports", "search", "done"}
    /\ at \in 1..(Len(Mappings) + 1)
    /\ Len(stack) <= MaxDepth + 2
    /\ visited \subseteq world.files \union {Path(f.segs, "") : f \in {Path(Dir(g), "") : g \in world.files}}
    /\ found \in ToSet(world.symbols) \union {None}

(* A name imported by TypeScript is found where some chain of re-exports   *)
(* from the file that the specifier names gives it that name, through      *)
(* aliases, renames and cycles.  One is missed only where a file has to be *)
(* entered for two names, of which the shared visited set allows the       *)
(* first, where the chains may be too long for the depth, or where a       *)
(* directory hides the file (resolveImportPath, findExportedSymbol).       *)
ForwardsAreFollowed ==
    pc = "done" /\ IsJs(ref.lang) =>
        /\ found # None =>
              LET m == Mappings[at]
              IN Uses(m) /\ \E f \in FilesNamed(m.source) : found \in Behind(LedTo(f, WantOf(m)))
        /\ \A j \in 1..(at - 1) : Uses(Mappings[j]) /\ ~Hidden(Mappings[j].source) =>
              \A f \in FilesNamed(Mappings[j].source) :
                  \A P \in {LedTo(f, WantOf(Mappings[j]))} :
                     \/ Behind(P) = {}
                     \/ Cardinality(FilesNamed(Mappings[j].source)) > 1
                     \/ Cardinality({p[1] : p \in P}) > MaxDepth + 1
                     \/ \E p, q \in P : p[1] = q[1] /\ p # q

(* Of symbols with one name in several packages the one is found whose     *)
(* package the import names: for Java unless the path of another ends the  *)
(* same way, for an import of Kotlin, of Java or of Go always.             *)
ImportedPackage(x) ==
    CASE ref.kind = "imports" -> x.pkg = Front(ref.source.segs)
      [] ref.lang = "go" -> \E m \in ToSet(Mappings) : Uses(m) /\ m.source.segs = world.goModule \o x.pkg
      [] ref.lang = "java" ->
            \E m \in ToSet(Mappings) : Uses(m) /\ m.source.segs \in {x.pkg \o <<x.class>>, x.pkg \o <<x.class, x.name>>}
Alone(x) ==
    \A y \in ToSet(world.symbols) :
        y.name = x.name /\ y.file # x.file => ~IsSuffix(x.pkg \o <<x.class>>, y.file.segs)
Meant ==
    {x \in ToSet(world.symbols) : x.name = (IF ref.kind = "imports" THEN Last(ref.source.segs) ELSE Last(ref.name))
                                  /\ x.exported /\ ImportedPackage(x)}

NamesakesApart ==
    pc = "done" /\ ref.lang \in {"go", "java", "kotlin"} /\ (ref.kind = "imports" \/ ref.lang # "kotlin") =>
        /\ Meant = {} => found = None
        /\ \A x \in Meant : Alone(x) => found \in Meant

(* What a name of an import is resolved to is what the import meant, by    *)
(* its package or along the re-exports.                                    *)
ImportsInv == TypeOK /\ NamesakesApart /\ ForwardsAreFollowed
============================================================================

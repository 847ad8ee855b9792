---------------------------- MODULE ConfigFiles ----------------------------
(***************************************************************************)
(* How the installer edits one configuration file of an agent              *)
(* (src/installer/targets and src/sync/git-hooks.ts): the new content as a *)
(* function of the old one.  A file is None or                             *)
(*   - for JSON, [ok, keys]: does it parse, and the entries it holds;      *)
(*   - for text, the sequence of its lines, the blank ones left out.       *)
(* Our own text stands in a file as a few lines, another version's as      *)
(* "stale" ones.                                                           *)
(***************************************************************************)
EXTENDS Naturals, Sequences, SequencesExt

CONSTANT None   \* an absent file

Text(c) == IF c = None THEN <<>> ELSE c

\* The lines of L with those from i up to, but not including, j replaced by new.
Splice(L, i, j, new) == SubSeq(L, 1, i - 1) \o new \o SubSeq(L, j, Len(L))

\* The first line in i .. Len(L) that passes the test, or the end of the file.
Until(L, i, Test(_)) == LET j == SelectInSubSeq(L, i, Len(L), Test) IN IF j = 0 THEN Len(L) + 1 ELSE j

FirstOf(L, line) == LET Is(l) == l = line IN SelectInSeq(L, Is)

-----------------------------------------------------------------------------
(* JSON: the key `codegraph` with the current entry ("entry") or another one ("stale"). *)

ReadJson(c) == IF c = None THEN {} ELSE IF c.ok THEN c.keys ELSE {}

Merge(c, drop, add) ==
  LET keys == ReadJson(c)
  IN  IF keys \intersect drop = {} /\ add \subseteq keys THEN c
      ELSE [ok |-> TRUE, keys |-> (keys \ drop) \union add]

WriteEntry(c)  == Merge(c, {"stale"}, {"entry"})
RemoveEntry(c) == Merge(c, {"entry", "stale"}, {})

\* The project file an old installer wrote by mistake goes when nothing else is in it.
MigrateEntry(c) == LET left == RemoveEntry(c)
                   IN  IF left # c /\ left.keys = {} THEN None ELSE left

Permissions  == {"allow_search", "allow_trace"}
OurAllowed   == Permissions \union {"allow_gone"}
WritePermissions(c)  == Merge(c, {}, Permissions)
RemovePermissions(c) == Merge(c, OurAllowed, {})
CleanupHooks(c)      == Merge(c, {"hook_sync"}, {})

\* opencode tags the file with its schema, but only when it changes the entry.
WriteOpencode(c) == IF "entry" \in ReadJson(c) THEN c ELSE Merge(c, {"stale"}, {"entry", "schema"})

-----------------------------------------------------------------------------
(* Markdown: our section between its two markers. *)

Section == <<"START", "body", "END">>

Marked(c) == /\ FirstOf(c, "START") # 0
             /\ FirstOf(c, "END") > FirstOf(c, "START")

ReplaceOrAppend(c) ==
  IF c # None /\ Marked(Text(c))
  THEN Splice(c, FirstOf(c, "START"), FirstOf(c, "END") + 1, Section)
  ELSE Text(c) \o Section

Stripped(c) == Splice(c, FirstOf(c, "START"), FirstOf(c, "END") + 1, <<>>)

RemoveMarked(c) ==
  IF c = None \/ ~Marked(Text(c)) THEN c
  ELSE IF Stripped(c) = <<>> THEN None ELSE Stripped(c)

\* A section pasted by hand under "## CodeGraph", up to the next header of level two.
WriteInstructions(c) ==
  LET pasted      == Until(Text(c), 2, LAMBDA l : l = "## CodeGraph")
      IsHeader(l) == l \in {"## CodeGraph", "## user"}
  IN  IF FirstOf(Text(c), "START") = 0 /\ pasted <= Len(Text(c))
      THEN Splice(c, pasted, Until(c, pasted + 1, IsHeader), Section)
      ELSE ReplaceOrAppend(c)

\* Cursor's rules file opens with a front matter of ours.
WriteRules(c) == IF c = None THEN <<"front">> \o Section ELSE ReplaceOrAppend(c)

RemoveRules(c) ==
  LET left == IF c # None /\ Marked(Text(c)) THEN Stripped(c) ELSE Text(c)
  IN  IF c # None /\ (left = <<"front">> \/ (Marked(c) /\ left = <<>>)) THEN None
      ELSE IF c = None THEN None ELSE left

\* Kiro's steering file is ours as a whole.
WriteSteering(c)  == Section
RemoveSteering(c) == None

-----------------------------------------------------------------------------
(* TOML: our table; another "[table]" and an array of tables "[[array]]" may follow it. *)

Table == <<"[codegraph]", "command">>
IsTableHeader(l) == l \in {"[codegraph]", "[table]"}
TableEnd_AtEnd(L) == Len(L) + 1   \* forgets the tables behind
TableEnd(L) == Until(L, FirstOf(L, "[codegraph]") + 1, IsTableHeader)

UpsertTable(c) ==
  LET at == FirstOf(Text(c), "[codegraph]")
  IN  IF at = 0 THEN Text(c) \o Table ELSE Splice(c, at, TableEnd(c), Table)

RemoveTable(c) ==
  LET at   == FirstOf(Text(c), "[codegraph]")
      left == Splice(c, at, TableEnd(c), <<>>)
  IN  IF at = 0 THEN c ELSE IF left = <<>> THEN None ELSE left

-----------------------------------------------------------------------------
(* YAML of Hermes: a line's indent, and whether it is `key:` (bare), `key: value`,
   a list item, or other text.                                                    *)

Line(indent, kind, name) == [indent |-> indent, kind |-> kind, name |-> name]

Key(name)   == Line(0, "bare", name)
Child(name) == Line(2, "bare", name)
Server      == <<Child("codegraph"), Line(4, "text", "current")>>
Cli         == Child("cli")
Item(n)     == Line(n, "item", "mcp-codegraph")
HermesCli   == Line(4, "item", "hermes-cli")

\* A range of lines: from start up to, but not including, end; 0 where the code returns null.
TopLevelRange(L, key) ==
  LET start == SelectInSeq(L, LAMBDA l : l.kind = "bare" /\ l.name = key)
  IN  [start |-> start, end |-> Until(L, start + 1, LAMBDA l : l.indent = 0 /\ l.kind = "bare")]

ChildStart(L, parent, name) == SelectInSubSeq(L, parent.start + 1, parent.end - 1, LAMBDA l : l = Child(name))

AtMost(a, b) == IF a < b THEN a ELSE b

ChildRange(L, parent, name) ==
  LET start == ChildStart(L, parent, name)
  IN  [start |-> start, end |-> AtMost(parent.end, Until(L, start + 1, LAMBDA l : l.indent = 2))]

ListChildBlock(L, parent, name) ==
  LET start == ChildStart(L, parent, name)
      Ends(l) == l.indent < 4 /\ ~(l.indent = 2 /\ l.kind = "item")
  IN  [start |-> start, end |-> AtMost(parent.end, Until(L, start + 1, Ends))]

ItemIndent(L, block) ==
  LET first == SelectInSubSeq(L, block.start + 1, block.end - 1, LAMBDA l : l.kind = "item" /\ l.indent > 0)
  IN  IF first = 0 THEN 4 ELSE L[first].indent

IsOurItem(l) == l.kind = "item" /\ l.name = "mcp-codegraph"
HasOurItem(L, block) == SelectInSubSeq(L, block.start + 1, block.end - 1, IsOurItem) # 0

UpsertServer(L) ==
  LET parent == TopLevelRange(L, "mcp_servers")
      child  == ChildRange(L, parent, "codegraph")
  IN  IF parent.start = 0 THEN L \o <<Key("mcp_servers")>> \o Server
      ELSE IF child.start = 0 THEN Splice(L, parent.end, parent.end, Server)
      ELSE Splice(L, child.start, child.end, Server)

RemoveServer(L) ==
  LET parent == TopLevelRange(L, "mcp_servers")
      child  == ChildRange(L, parent, "codegraph")
  IN  IF parent.start = 0 \/ child.start = 0 THEN L ELSE Splice(L, child.start, child.end, <<>>)

UpsertToolset(L) ==
  LET parent == TopLevelRange(L, "platform_toolsets")
      cli    == ListChildBlock(L, parent, "cli")
  IN  IF parent.start = 0 THEN L \o <<Key("platform_toolsets"), Cli, HermesCli, Item(4)>>
      ELSE IF cli.start = 0 THEN Splice(L, parent.end, parent.end, <<Cli, HermesCli, Item(4)>>)
      ELSE IF HasOurItem(L, cli) THEN L
      ELSE Splice(L, cli.end, cli.end, <<Item(ItemIndent(L, cli))>>)

RemoveToolset(L) ==
  LET parent == TopLevelRange(L, "platform_toolsets")
      cli    == ListChildBlock(L, parent, "cli")
      Keep(i) == ~(i \in cli.start + 1 .. cli.end - 1 /\ IsOurItem(L[i]))
  IN  IF parent.start = 0 \/ cli.start = 0 \/ ~HasOurItem(L, cli) THEN L
      ELSE FoldLeftDomain(LAMBDA kept, i : IF Keep(i) THEN Append(kept, L[i]) ELSE kept, <<>>, L)

WriteHermes(c)  == UpsertToolset(UpsertServer(Text(c)))
RemoveHermes(c) == IF c = None THEN None ELSE RemoveToolset(RemoveServer(c))

-----------------------------------------------------------------------------
(* A git hook: our snippet between two comment lines. *)

Snippet == <<"BEGIN", "sync", "END">>

\* stripMarkerBlock: [kept, inBlock] after each line.
StripSnippet(L) ==
  LET Step(acc, l) == IF l = "BEGIN" THEN [acc EXCEPT !.in = TRUE]
                      ELSE IF l = "END" THEN [acc EXCEPT !.in = FALSE]
                      ELSE IF acc.in THEN acc ELSE [acc EXCEPT !.kept = Append(@, l)]
  IN  FoldLeft(Step, [kept |-> <<>>, in |-> FALSE], L).kept

WriteHook(c) == LET base == StripSnippet(Text(c))
                IN  (IF base = <<>> THEN <<"#!">> ELSE base) \o Snippet

RemoveHook(c) ==
  IF FirstOf(Text(c), "BEGIN") = 0 THEN c
  ELSE LET left == StripSnippet(c) IN IF ToSet(left) \subseteq {"#!"} THEN None ELSE left
=============================================================================

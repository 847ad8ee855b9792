----------------------------- MODULE Installer -----------------------------
(***************************************************************************)
(* `codegraph install`, `uninstall`, `init` and `uninit`                   *)
(* (src/installer, src/sync/git-hooks.ts, src/bin/codegraph.ts): the       *)
(* commands that write into the configuration files of other programs.     *)
(*                                                                         *)
(* The targets share no file, so one target at one location is followed;   *)
(* the hooks of a repository are a target of their own.  A command is a    *)
(* sequence of edits, each of which reads one file and renames the new     *)
(* content over it; it may be killed between two edits, and while a hook   *)
(* is written, which is not renamed.  The files are also edited by their   *)
(* owners, at any time.                                                    *)
(***************************************************************************)
EXTENDS ConfigFiles, FiniteSets

CONSTANTS Targets,    \* registry.ts: the targets followed, and "git"
          MaxEdits    \* bound: [Targets -> edits by others than the commands]

VARIABLES target, loc,  \* what the commands are given
          files,        \* [FilesOf(target) -> content]
          backup,       \* [FilesOf(target) -> the entries of the <file>.backup, or None]
          todo,         \* the edits the running command has left
          command,      \* the running command, or "none"
          done,         \* the command that ended last, "edited" if a file has been edited since it began
          edits,
          mishap        \* how the last step has failed to keep what it wrote over, or "none"

vars == <<target, loc, files, backup, todo, command, done, edits, mishap>>

\* supportsLocation
GlobalOnly == {"codex", "hermes", "antigravity"}
Supports(t, l) == (t \in GlobalOnly => l = "global") /\ (t = "git" => l = "local")

FilesOf(t) ==
  CASE t = "claude"      -> {"mcp.json", "settings.json", "CLAUDE.md"}
                                \union (IF loc = "local" THEN {"claude.json"} ELSE {})
    [] t = "cursor"      -> {"mcp.json", "codegraph.mdc"}
    [] t = "codex"       -> {"config.toml", "AGENTS.md"}
    [] t = "opencode"    -> {"opencode.jsonc", "opencode.json", "AGENTS.md"}
    [] t = "hermes"      -> {"config.yaml"}
    [] t = "gemini"      -> {"mcp.json", "GEMINI.md"}
    [] t = "antigravity" -> {"unified.json", "legacy.json", ".migrated"}
    [] t = "kiro"        -> {"mcp.json", "codegraph.md"}
    [] t = "git"         -> {"post-commit", "post-merge"}

Json     == {"mcp.json", "claude.json", "settings.json", "opencode.jsonc", "opencode.json",
             "unified.json", "legacy.json"}
Markdown == {"CLAUDE.md", "AGENTS.md", "GEMINI.md", "codegraph.mdc"}
Hooks    == {"post-commit", "post-merge"}

-----------------------------------------------------------------------------
(* The commands as sequences of edits. *)

On(edit, file) == <<[edit |-> edit, file |-> file]>>

\* antigravity.ts: where Antigravity looks, as far as the installer can tell.
Preferred == IF files[".migrated"] # None \/ files["unified.json"] # None
             THEN "unified.json" ELSE "legacy.json"

\* opencode.ts: configPath
OpencodeConfig == IF files["opencode.jsonc"] = None /\ files["opencode.json"] # None
                  THEN "opencode.json" ELSE "opencode.jsonc"

ClaudeInstall(allow) ==
  On("entry", "mcp.json")
    \o (IF loc = "local" THEN On("migrate", "claude.json") ELSE <<>>)
    \o (IF allow THEN On("permit", "settings.json") ELSE <<>>)
    \o On("drop hooks", "settings.json") \o On("instructions", "CLAUDE.md")
ClaudeUninstall ==
  On("no entry", "mcp.json")
    \o (IF loc = "local" THEN On("migrate", "claude.json") ELSE <<>>)
    \o On("forbid", "settings.json") \o On("drop hooks", "settings.json") \o On("no section", "CLAUDE.md")

CursorInstall   == On("entry", "mcp.json") \o (IF loc = "local" THEN On("rules", "codegraph.mdc") ELSE <<>>)
CursorUninstall == On("no entry", "mcp.json") \o (IF loc = "local" THEN On("no rules", "codegraph.mdc") ELSE <<>>)

CodexInstall   == On("table", "config.toml") \o On("section", "AGENTS.md")
CodexUninstall == On("no table", "config.toml") \o On("no section", "AGENTS.md")

OpencodeInstall   == On("opencode", OpencodeConfig) \o On("section", "AGENTS.md")
OpencodeUninstall == On("no entry", OpencodeConfig) \o On("no section", "AGENTS.md")

GeminiInstall   == On("entry", "mcp.json") \o On("section", "GEMINI.md")
GeminiUninstall == On("no entry", "mcp.json") \o On("no section", "GEMINI.md")

KiroInstall   == On("entry", "mcp.json") \o On("steering", "codegraph.md")
KiroUninstall == On("no entry", "mcp.json") \o On("no steering", "codegraph.md")

AntigravityInstall == On("entry", Preferred)
                        \o (IF Preferred = "unified.json" THEN On("no entry", "legacy.json") ELSE <<>>)
AntigravityUninstall_PreferredOnly == On("no entry", Preferred)
AntigravityUninstall ==
  On("no entry", Preferred)
    \o On("no entry", IF Preferred = "unified.json" THEN "legacy.json" ELSE "unified.json")

HermesInstall   == On("hermes", "config.yaml")
HermesUninstall == On("no hermes", "config.yaml")

\* offerWatchFallback: a repository with one of our hooks is taken for done.
SyncHookInstalled == \E f \in Hooks : FirstOf(Text(files[f]), "BEGIN") # 0
InstallHooks == IF SyncHookInstalled THEN <<>> ELSE On("hook", "post-commit") \o On("hook", "post-merge")
RemoveHooks  == On("no hook", "post-commit") \o On("no hook", "post-merge")

InstallSteps(allow) ==
  CASE target = "claude"      -> ClaudeInstall(allow)
    [] target = "cursor"      -> CursorInstall
    [] target = "codex"       -> CodexInstall
    [] target = "opencode"    -> OpencodeInstall
    [] target = "gemini"      -> GeminiInstall
    [] target = "kiro"        -> KiroInstall
    [] target = "antigravity" -> AntigravityInstall
    [] target = "hermes"      -> HermesInstall
    [] target = "git"         -> InstallHooks

UninstallSteps ==
  CASE target = "claude"      -> ClaudeUninstall
    [] target = "cursor"      -> CursorUninstall
    [] target = "codex"       -> CodexUninstall
    [] target = "opencode"    -> OpencodeUninstall
    [] target = "gemini"      -> GeminiUninstall
    [] target = "kiro"        -> KiroUninstall
    [] target = "antigravity" -> AntigravityUninstall
    [] target = "hermes"      -> HermesUninstall
    [] target = "git"         -> RemoveHooks

\* The content an edit leaves behind.
Edited(edit, c) ==
  CASE edit = "entry"        -> WriteEntry(c)
    [] edit = "no entry"     -> RemoveEntry(c)
    [] edit = "migrate"      -> MigrateEntry(c)
    [] edit = "permit"       -> WritePermissions(c)
    [] edit = "forbid"       -> RemovePermissions(c)
    [] edit = "drop hooks"   -> CleanupHooks(c)
    [] edit = "opencode"     -> WriteOpencode(c)
    [] edit = "section"      -> ReplaceOrAppend(c)
    [] edit = "instructions" -> WriteInstructions(c)
    [] edit = "no section"   -> RemoveMarked(c)
    [] edit = "rules"        -> WriteRules(c)
    [] edit = "no rules"     -> RemoveRules(c)
    [] edit = "steering"     -> WriteSteering(c)
    [] edit = "no steering"  -> RemoveSteering(c)
    [] edit = "table"        -> UpsertTable(c)
    [] edit = "no table"     -> RemoveTable(c)
    [] edit = "hermes"       -> WriteHermes(c)
    [] edit = "no hermes"    -> RemoveHermes(c)
    [] edit = "hook"         -> WriteHook(c)
    [] edit = "no hook"      -> RemoveHook(c)

-----------------------------------------------------------------------------
(* What stands in the files before, and what their owners write. *)

Doc(ok, keys) == [ok |-> ok, keys |-> keys]

\* What an older version, or a hand, has left.
Before(f) ==
  CASE f \in {"mcp.json", "unified.json", "legacy.json"} -> <<None, Doc(TRUE, {"user", "stale"})>>
    [] f = "claude.json"   -> <<None, Doc(TRUE, {"entry"}), Doc(TRUE, {"user", "stale"})>>
    [] f = "settings.json" -> <<None, Doc(TRUE, {"user", "allow_gone", "allow_trace", "hook_sync"})>>
    [] f \in {"opencode.jsonc", "opencode.json"} -> <<None, Doc(TRUE, {"user"}), Doc(TRUE, {"stale", "schema"})>>
    [] f = ".migrated"     -> <<None>>
    [] f = "codegraph.mdc" -> <<None, <<"front", "START", "stale", "END", "text">>>>
    [] f = "codegraph.md"  -> <<None, <<"stale">>>>
    [] f = "CLAUDE.md"     ->
         <<None, <<"text", "START", "stale", "END", "text">>, <<"text", "## CodeGraph", "stale", "## user">>>>
    [] f \in {"AGENTS.md", "GEMINI.md"} -> <<None, <<"text", "START", "stale", "END", "text">>>>
    [] f = "config.toml"   -> <<None, <<"[table]", "key">>, <<"[codegraph]", "stale", "[table]", "key">>>>
    [] f = "config.yaml"   ->
         <<None,
           <<Key("mcp_servers"), Child("github"), Line(4, "text", "url"),
             Key("platform_toolsets"), Cli, Line(2, "item", "browser")>>,
           <<Key("mcp_servers"), Child("codegraph"), Line(4, "text", "stale"),
             Key("platform_toolsets"), Cli, Line(4, "item", "browser"), Item(4)>>>>
    [] f \in Hooks         -> <<None, <<"#!", "user">>, <<"#!", "BEGIN", "stale", "END">>>>

\* The lines an owner may put into the file.
UserLines(f) ==
  CASE f = "CLAUDE.md"     -> {"# user", "## user"}
    [] f \in Markdown      -> {"## user"}
    [] f = "config.toml"   -> {"key", "[table]", "[[array]]"}
    [] f = "config.yaml"   -> {Key("memory"), Line(0, "value", "model"), Child("github"), Line(4, "item", "files"),
                               Line(2, "item", "files")}
    [] f \in Hooks         -> {"user"}
    [] OTHER               -> {}

\* Yaml: the key a line belongs to, or 0; and is the file what a YAML reader accepts.
Owner(L, i) == SelectLastInSubSeq([j \in 1 .. i - 1 |-> L[j]], 1, i - 1, LAMBDA l :
                 l.kind = "bare" /\ (l.indent < L[i].indent \/ (L[i].kind = "item" /\ l.indent = L[i].indent)))

WellFormed(L) ==
  \A i \in DOMAIN L :
    /\ L[i].indent > 0 => Owner(L, i) # 0
    /\ \A j \in Owner(L, i) + 1 .. i - 1 : L[i].indent > 0 => L[j].indent >= L[i].indent
    /\ \A j \in 1 .. i - 1 :
         Owner(L, j) = Owner(L, i) =>
           /\ L[j].indent = L[i].indent
           /\ (L[j].kind = "item") = (L[i].kind = "item")
           /\ L[j].kind # "item" => L[j].name # L[i].name

\* An owner does not cut our TOML table in two, and keeps Hermes's file well-formed and
\* indented by two, and our lines in it under their keys.
Accepted(f, c) ==
  /\ f = "config.toml" => \A i \in DOMAIN c : c[i] = "[codegraph]" => c[i + 1] \in {"command", "stale"}
  /\ f = "config.yaml" =>
       /\ WellFormed(c)
       /\ \A i \in DOMAIN c :
            /\ c[i].kind = "item" => c[Owner(c, i)] = Cli
            /\ c[i].indent = 4 => c[Owner(c, i)].indent = 2
            /\ c[i] = Child("codegraph") => c[Owner(c, i)] = Key("mcp_servers")
            /\ c[i] = Cli => c[Owner(c, i)] = Key("platform_toolsets")

-----------------------------------------------------------------------------
Init ==
  /\ target \in Targets
  /\ loc \in {l \in {"global", "local"} : Supports(target, l)}
  /\ \E pick \in [FilesOf(target) -> 1 .. 3] :
       /\ \A f \in FilesOf(target) : pick[f] \in DOMAIN Before(f)
       /\ files = [f \in FilesOf(target) |-> Before(f)[pick[f]]]
  /\ backup = [f \in FilesOf(target) |-> None]
  /\ todo = <<>> /\ command = "none" /\ done = "none" /\ edits = 0 /\ mishap = "none"

Begin(c, steps) ==
  /\ command = "none"
  /\ steps # <<>>
  /\ command' = c /\ todo' = steps /\ done' = "none" /\ mishap' = "none"
  /\ UNCHANGED <<target, loc, files, backup, edits>>

\* runInstallerWithOptions and, for the hooks, `codegraph init` where nothing watches.
Install == \E allow \in BOOLEAN : Begin("install", InstallSteps(allow))

\* runUninstaller and, for the hooks, `codegraph uninit`.
Uninstall == Begin("uninstall", UninstallSteps)

\* wireProjectSurfacesForGlobalAgents: `codegraph init` in a project of a Cursor configured globally.
WireProject ==
  /\ target = "cursor" /\ loc = "global"
  /\ ReadJson(files["mcp.json"]) \intersect {"entry", "stale"} # {}
  /\ Begin("init", On("rules", "codegraph.mdc"))

Unreadable(f) == f \in Json /\ files[f] # None /\ ~files[f].ok

\* What cannot be parsed is copied before it counts as empty.  That the copy fails, which
\* removes the part it has made or leaves an older backup, is ignored.
BackUp(f) ==
  IF Unreadable(f)
  THEN \/ backup' = [backup EXCEPT ![f] = files[f].keys] /\ mishap' = "none"
       \/ backup' \in {backup, [backup EXCEPT ![f] = None]} /\ mishap' = "copy failed"
  ELSE UNCHANGED backup /\ mishap' = "none"

Step ==
  /\ todo # <<>>
  /\ LET f == Head(todo).file
     IN  BackUp(f) /\ files' = [files EXCEPT ![f] = Edited(Head(todo).edit, @)]
  /\ todo' = Tail(todo)
  /\ IF Len(todo) = 1 THEN command' = "none" /\ done' = (IF done = "edited" THEN "none" ELSE command)
                      ELSE UNCHANGED <<command, done>>
  /\ UNCHANGED <<target, loc, edits>>

\* Killed, or stopped by the exception of a write: before the edit, behind or within the copy
\* to the backup, or within the write of a hook, which is left empty.
Crash ==
  /\ todo # <<>>
  /\ LET f == Head(todo).file
     IN  \/ UNCHANGED <<files, backup>> /\ mishap' = "none"
         \/ /\ Unreadable(f)
            /\ backup' \in {[backup EXCEPT ![f] = kept] : kept \in {{}, files[f].keys}}
            /\ UNCHANGED files /\ mishap' = "none"
         \/ /\ Head(todo).edit \in {"hook", "no hook"}
            /\ Edited(Head(todo).edit, files[f]) \notin {None, files[f]}
            /\ files' = [files EXCEPT ![f] = <<>>]
            /\ UNCHANGED backup /\ mishap' = "hook cut"
  /\ todo' = <<>> /\ command' = "none" /\ done' = "none"
  /\ UNCHANGED <<target, loc, edits>>

Rewrite(f, c) ==
  /\ edits < MaxEdits[target]
  /\ edits' = edits + 1
  /\ c # files[f]
  /\ Accepted(f, c)
  /\ files' = [files EXCEPT ![f] = c]
  /\ done' = "edited" /\ mishap' = "none"
  /\ UNCHANGED <<target, loc, backup, todo, command>>

\* An agent or its user adds to a JSON file, breaks it, or repairs it.
UserEditsJson ==
  \E f \in FilesOf(target) \intersect Json :
    \/ Rewrite(f, Doc(TRUE, ReadJson(files[f]) \union {"user"}))
    \/ /\ files[f] # None /\ f \notin {"opencode.jsonc", "opencode.json"}
       /\ Rewrite(f, [files[f] EXCEPT !.ok = ~@])

\* A user adds a line.
UserEditsText ==
  \E f \in FilesOf(target) \ Json :
    LET c == Text(files[f])
    IN  \E i \in 1 .. Len(c) + 1, l \in UserLines(f) : Rewrite(f, InsertAt(c, i, l))

\* Antigravity moves to its unified configuration.
AntigravityMigrates == target = "antigravity" /\ files[".migrated"] = None /\ Rewrite(".migrated", <<>>)

Next == Install \/ Uninstall \/ WireProject \/ Step \/ Crash
          \/ UserEditsJson \/ UserEditsText \/ AntigravityMigrates

Spec == Init /\ [][Next]_vars

-----------------------------------------------------------------------------
(* What is ours in a text file, told from its own format. *)

Between(c, first, last) ==
  {p \in DOMAIN c : \E i, j \in DOMAIN c : i <= p /\ p <= j /\ c[i] = first /\ c[j] = last}

OursIn(f, c) ==
  CASE f = "codegraph.md"  -> DOMAIN c
    [] f = "config.toml"   -> {p \in DOMAIN c : \E i \in 1 .. p : /\ c[i] = "[codegraph]"
                                                              /\ \A j \in i + 1 .. p : c[j] \notin {"[table]", "[[array]]"}}
    [] f = "config.yaml"   -> {p \in DOMAIN c : \/ c[p] \in {Key("mcp_servers"), Child("codegraph"), HermesCli, Cli,
                                                             Key("platform_toolsets")}
                                                \/ IsOurItem(c[p])
                                                \/ Owner(c, p) # 0 /\ c[Owner(c, p)] = Child("codegraph")}
    [] f \in Hooks         -> {p \in DOMAIN c : c[p] = "#!"} \union Between(c, "BEGIN", "END")
    [] f \in Markdown      ->
         {p \in DOMAIN c : c[p] = "front"} \union Between(c, "START", "END") \union
         {p \in DOMAIN c : /\ f = "CLAUDE.md"
                           /\ \E i \in 1 .. p : /\ c[i] = "## CodeGraph"
                                               /\ \A j \in i + 1 .. p : c[j] \notin {"# user", "## user"}}
    [] OTHER               -> {}

Foreign(f, c) == FoldLeftDomain(LAMBDA kept, i : IF i \in OursIn(f, c) THEN kept ELSE Append(kept, c[i]), <<>>, c)

\* The lines of s stand in t, in their order.
InOrder(s, t) ==
  FoldLeft(LAMBDA left, l : IF left # <<>> /\ Head(left) = l THEN Tail(left) ELSE left, s, t) = <<>>

OurKeys == {"entry", "stale", "schema", "hook_sync"} \union OurAllowed

(* The formats are recognised line by line, and not all of their grammar.  What follows
   our text is taken for a part of it
     - in TOML, when it is an array of tables;
     - in Hermes's YAML, when it is a top-level `key: value` and no other key stands between;
     - in CLAUDE.md, when a header of level one follows a section without markers.       *)
Recognised(f, c) ==
  CASE f = "config.toml" -> \A i \in DOMAIN c : c[i] = "[[array]]" =>
                              \A j \in 1 .. i - 1 : c[j] = "[codegraph]" => \E k \in j + 1 .. i : c[k] = "[table]"
    [] f = "config.yaml" -> \A i \in DOMAIN c : c[i].indent = 0 /\ c[i].kind # "bare" =>
                              \A j \in 1 .. i - 1 : c[j] \in {Key("mcp_servers"), Key("platform_toolsets")} =>
                                \E k \in j + 1 .. i : c[k].indent = 0 /\ c[k].kind = "bare"
    [] f = "CLAUDE.md"   -> \A i \in DOMAIN c : c[i] = "# user" =>
                              \A j \in 1 .. i - 1 : c[j] = "## CodeGraph" => \E k \in j + 1 .. i : c[k] = "## user"
    [] OTHER             -> TRUE

-----------------------------------------------------------------------------
ConfigOK(f, c) == \/ c = None
                  \/ f \in Json /\ c \in [ok: BOOLEAN, keys: SUBSET (OurKeys \union {"user"})]
                  \/ f \notin Json /\ DOMAIN c = 1 .. Len(c)

InstallerOK == /\ \A f \in FilesOf(target) : ConfigOK(f, files[f])
          /\ command \in {"none", "install", "uninstall", "init"} /\ done \in {"none", "install", "uninstall", "init", "edited"}
          /\ (todo = <<>>) = (command = "none")
          /\ mishap \in {"none", "copy failed", "hook cut"}

(* No step takes a line or an entry that is not ours from a file, in whatever order installs,
   upgrades, uninstalls, crashes and the edits of the owner come: an unreadable JSON file is in
   the backup before it is written over.  The code loses them in two steps, which are excepted:
   the copy to the backup fails (shared.ts:61-63), and a hook is cut short, since it is not
   renamed into its place (git-hooks.ts:153, 188).  Nor is it claimed of the layouts that are
   not Recognised.                                                                              *)
ForeignSurvives ==
  [][todo # <<>> /\ todo' # todo =>
       \A f \in {g \in FilesOf(target) : files'[g] # files[g] /\ mishap' = "none"} :
         IF f \in Json
         THEN files[f] # None =>
                files[f].keys \ OurKeys \subseteq
                  (IF files'[f] = None THEN {} ELSE files'[f].keys)
                    \union (IF backup'[f] = None THEN {} ELSE backup'[f])
         ELSE Recognised(f, Text(files[f])) =>
                InOrder(Foreign(f, Text(files[f])), Foreign(f, Text(files'[f])))]_vars

\* Does the agent find us in its files?
HasSection(c) == c # None /\ \E i \in 1 .. Len(c) - 2 :
                   SubSeq(c, i, i + 2) = Section /\ \A j \in DOMAIN c : c[j] = "START" => j = i
Configured(f) ==
  CASE f \in {"config.toml"} -> \E i \in DOMAIN files[f] : /\ SubSeq(files[f], i, i + 1) = Table
                                                           /\ \A j \in DOMAIN files[f] : files[f][j] = "[codegraph]" => j = i
    [] f = "config.yaml" ->
         /\ WellFormed(files[f])
         /\ \E i \in DOMAIN files[f] : /\ SubSeq(files[f], i, i + 1) = Server
                                       /\ files[f][Owner(files[f], i)] = Key("mcp_servers")
         /\ \E i \in DOMAIN files[f] : /\ IsOurItem(files[f][i])
                                       /\ files[f][Owner(files[f], i)] = Cli
                                       /\ files[f][Owner(files[f], Owner(files[f], i))] = Key("platform_toolsets")
    [] f \in Hooks -> \E i \in DOMAIN files[f] : SubSeq(files[f], i, i + 2) = Snippet
    [] f \in Markdown -> HasSection(files[f])
    [] f = "codegraph.md" -> files[f] = Section
    [] OTHER -> TRUE

(* After an install the agent finds one current entry and one section of ours where it looks,
   whatever stood there before, and a second install would change nothing.                    *)
InstallTakes ==
  done = "install" =>
    /\ target = "antigravity" => "entry" \in ReadJson(files[Preferred])
    /\ target = "opencode" => "entry" \in ReadJson(files[OpencodeConfig])
    /\ "mcp.json" \in FilesOf(target) => "entry" \in ReadJson(files["mcp.json"])
    /\ \A f \in FilesOf(target) :
         (f = "codegraph.mdc" => loc = "local") /\ Recognised(f, Text(files[f])) => Configured(f)
    /\ \A i \in DOMAIN InstallSteps(FALSE) :
         LET s == InstallSteps(FALSE)[i]
         IN  Recognised(s.file, Text(files[s.file])) => Edited(s.edit, files[s.file]) = files[s.file]

NamesUs(f, l) ==
  IF f = "config.yaml" THEN l = Child("codegraph") \/ IsOurItem(l)
  ELSE l \in {"START", "body", "END", "[codegraph]", "command", "BEGIN", "sync"}

(* After an uninstall nothing of ours is left, wherever this or an older version, or a
   migration of the agent, has put it.  It stays in a file that cannot be read, in an
   opencode.json beside a newer opencode.jsonc, and, after a global uninstall, in the rules of
   a Cursor project.                                                                          *)
UninstallLeavesNothing ==
  done = "uninstall" =>
    \A f \in FilesOf(target) \ {".migrated"} :
      IF f \in Json
      THEN \/ Unreadable(f)
           \/ f = "opencode.json" /\ files["opencode.jsonc"] # None
           \/ ReadJson(files[f]) \intersect (OurKeys \ {"schema"}) = {}
      ELSE \/ f = "codegraph.mdc" /\ loc = "global"
           \/ /\ f = "codegraph.mdc" => Text(files[f]) # <<"front">>
              /\ \A i \in DOMAIN Text(files[f]) : ~NamesUs(f, files[f][i])

(* The files keep their formats, an install takes and an uninstall leaves nothing of ours. *)
InstallerInv == InstallerOK /\ InstallTakes /\ UninstallLeavesNothing
=============================================================================

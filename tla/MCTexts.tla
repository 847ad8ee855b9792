------------------------------ MODULE MCTexts ------------------------------
(* The components that read and write texts one at a time, in one run: a   *)
(* behaviour is the extraction of one syntax tree, the commands on one     *)
(* agent's configuration, the resolution of one imported name, or the      *)
(* synthesis of one project's calls.                                       *)
(*                                                                         *)
(* Every tree of up to four nodes, five for the languages with few types   *)
(* of nodes, and for TypeScript where the declarations of the file begin   *)
(* among the first three; every target of the installer, of which Claude's *)
(* four files take the most states and get one edit.                       *)
EXTENDS Extractor

CONSTANT None

VARIABLES
    request,                                                     \* what is done
    target, loc, files, backup, plan, command, done, edits, mishap,\* the installer's
    world, at, stack, visited, found,                            \* the resolver's
    code, proposed, stored                                       \* the synthesizer's

installVars == <<target, loc, files, backup, plan, command, done, edits, mishap>>
importVars == <<world, at, stack, visited, found>>
callVars == <<code, proposed, stored>>

MCSize == [typescript |-> 5, python |-> 4, rust |-> 4, java |-> 5, pascal |-> 5]
MCLate == [MCSize EXCEPT !.typescript = 3]

Targets == {"claude", "cursor", "codex", "opencode", "hermes", "gemini", "antigravity", "kiro", "git"}
Budget == [t \in Targets |-> IF t = "claude" THEN 1 ELSE 2]
Inst == INSTANCE Installer WITH MaxEdits <- Budget, todo <- plan

Inputs == INSTANCE MCTextInputs
Imports == INSTANCE ImportResolver WITH Worlds <- Inputs!Worlds, MaxDepth <- 2, pc <- phase

Calls == INSTANCE Synthesizer WITH
             Projects <- Inputs!Projects, Pascal <- Inputs!Pascal, PerChannel <- 3, FanOut <- 2, PerParent <- 2

NoTree ==
    /\ lang = "typescript" /\ ast = <<>> /\ todo = <<>> /\ nodeStack = <<>>
    /\ nodes = <<>> /\ edges = {} /\ refs = <<>> /\ index = <<>>
NoInstall ==
    /\ target = "git" /\ loc = "local" /\ files = [f \in Inst!FilesOf(target) |-> None]
    /\ backup = files /\ plan = <<>> /\ command = "none" /\ done = "none" /\ edits = 0 /\ mishap = "none"
NoImport == world = None /\ at = 1 /\ stack = <<>> /\ visited = {} /\ found = None
NoCalls == code = None /\ proposed = None /\ stored = None

MCInit ==
    \/ request = "extract" /\ Init /\ NoInstall /\ NoImport /\ NoCalls
    \/ request = "install" /\ Inst!Init /\ NoTree /\ phase = "none" /\ NoImport /\ NoCalls
    \/ request = "import" /\ Imports!Init /\ NoTree /\ NoInstall /\ NoCalls
    \/ request = "synthesize" /\ Calls!Init /\ NoTree /\ phase = "none" /\ NoInstall /\ NoImport

MCNext ==
    /\ UNCHANGED request
    /\ \/ request = "extract" /\ Next /\ UNCHANGED <<installVars, importVars, callVars>>
       \/ request = "install" /\ Inst!Next /\ UNCHANGED <<vars, importVars, callVars>>
       \/ /\ request = "import" /\ Imports!Next
          /\ UNCHANGED <<lang, ast, todo, nodeStack, nodes, edges, refs, index, installVars, callVars>>
       \/ request = "synthesize" /\ Calls!Next /\ UNCHANGED <<vars, installVars, importVars>>

MCSpec == MCInit /\ [][MCNext]_<<request, vars, installVars, importVars, callVars>>

(* What a walk returns can be stored and belongs to the declarations       *)
(* around it, and every call is recorded once, from the innermost of them  *)
(* (tree-sitter.ts).                                                       *)
SymbolsBelong == request = "extract" => ExtractorInv /\ CallsAreAttributed

(* An install takes and an uninstall leaves nothing of ours (installer).   *)
InstallerInv == request = "install" => Inst!InstallerInv

(* No command takes what others have written, but where the copy to the    *)
(* backup fails, where a hook is cut short and in the layouts that are not *)
(* recognised (installer).                                                 *)
ForeignSurvives == Inst!ForeignSurvives

(* An imported name is resolved to what the import meant                   *)
(* (import-resolver.ts).                                                   *)
ImportsInv == request = "import" => Imports!ImportsInv

(* The edges that no call expression shows join what meets in the text     *)
(* (callback-synthesizer.ts).                                              *)
CallsMeet == request = "synthesize" => Calls!SynthesisInv
=============================================================================

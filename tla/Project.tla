------------------------------ MODULE Project ------------------------------
(***************************************************************************)
(* The life of a project on disk under the command line (bin/codegraph.ts, *)
(* directory.ts, db/index.ts, db/migrations.ts and the lifecycle methods   *)
(* of index.ts): which commands create, open, migrate, fill, clear and     *)
(* remove a database while other commands, of other processes, hold it.    *)
(*                                                                         *)
(* A process runs one command after the other.  The commands await the     *)
(* grammars, a prompt or the parse workers, and processes interleave at    *)
(* every system call that matters: an init is four steps (the checks, the  *)
(* file, and the statements of schema.sql up to the version row, each of   *)
(* which commits by itself), a migration one transaction each.  A process  *)
(* may be killed before any of its steps.                                  *)
(*                                                                         *)
(* A database is a file and not a path: it stays with who has opened it    *)
(* when its directory is removed.  The lock file is abstracted to its      *)
(* owner and whether two minutes have made it stale (FileLock has its      *)
(* steps), the schema to what migration 2 changes, the contents to the     *)
(* set of files that are stored.                                           *)
(*                                                                         *)
(* The second part is what the commands that only read answer.             *)
(***************************************************************************)
EXTENDS Naturals, Sequences, FiniteSets, SequencesExt

CONSTANTS
  Procs,     \* processes of the command line
  Levels,    \* how many directories lie in one another, 1 the outermost
  Files,     \* the source files of the project
  Nothing,
  Calls,     \* which process may be told to run which command in which directory
  Questions  \* what the reading commands are asked, and about which index

Dirs == 1 .. Levels
Dbs == 1 .. (Levels + Cardinality(Procs))   \* enough: see InUse
CURRENT_SCHEMA_VERSION == 4
Commands == {"init", "init -i", "index", "index --force", "sync", "status", "query", "uninit", "unlock"}

VARIABLES
  place,   \* .codegraph of each directory: is it there, its database, its lock
  dbs,     \* the databases
  proc,    \* the processes
  ask      \* a question to the index and how far its answer is
projectVars == <<place, dbs, proc>>

Database == [versions : SUBSET (1 .. CURRENT_SCHEMA_VERSION), columns : {"none", "old", "full"},
             rows : SUBSET Files, cut : BOOLEAN]
Fresh == [versions |-> {}, columns |-> "none", rows |-> {}, cut |-> FALSE]

\* A lock is its owner, "dead" for one that no process answers for any more.
Lock == [by : Procs \union {"dead"}, stale : BOOLEAN]
Place == [made : BOOLEAN, db : {0} \union Dbs, lock : Lock \union {Nothing}]
ASSUME ProjectAssumption == IsFiniteSet(Procs) /\ Levels \in Nat \ {0} /\ "dead" \notin Procs /\ Nothing \notin Lock
ASSUME QuestionsAssumption ==
  \A q \in Questions :
    IF q.op = "affected"
      THEN IsFiniteSet(q.imports) /\ q.depth \in Nat /\ q.changed \in Seq(ToSet(q.changed))
      ELSE /\ q.op \in {"callers", "callees", "impact"} /\ q.limit \in Nat
           /\ q.matches \in Seq(ToSet(q.matches))
           /\ \A m \in ToSet(q.matches) : m.exact \in BOOLEAN /\ m.of \in Seq(ToSet(m.of))
Nowhere == [made |-> FALSE, db |-> 0, lock |-> Nothing]

\* "hit" remembers what other processes did to the database or the lock of a
\* running command.
Process == [pc : {"idle", "loading", "creating", "version", "tables", "current", "migrating",
                  "opened", "cleared", "writing"},
            cmd : Commands, at : Dirs, db : {0} \union Dbs, pending : SUBSET (2 .. CURRENT_SCHEMA_VERSION),
            todo : SUBSET Files, hit : SUBSET {"cleared", "removed", "robbed"},
            exit : {0, 1}]
NoCommand == [pc |-> "idle", cmd |-> "status", at |-> 1, db |-> 0, pending |-> {}, todo |-> {}, hit |-> {},
         exit |-> 0]

-----------------------------------------------------------------------------
Initialized(d) == place[d].db # 0

\* The nearest directory upwards that is initialized, else the one asked for.
ResolveProjectPath(d, at) ==
  \/ at \in 1 .. d /\ Initialized(at) /\ \A e \in (at + 1) .. d : ~Initialized(e)
  \/ at = d /\ \A e \in 1 .. d : ~Initialized(e)

\* A file that no directory shows and no process has open is gone, and its
\* number free for the next.
InUse(n, pl, pr) == (\E d \in Dirs : pl[d].db = n) \/ \E p \in Procs : pr[p].db = n
NextDb(n) == ~InUse(n, place, proc) /\ \A m \in 1 .. (n - 1) : InUse(m, place, proc)
DbsBecome(new) == dbs' = [n \in Dbs |-> IF InUse(n, place', proc') THEN new[n] ELSE Fresh]

\* Those after the current version, which is the highest that is recorded.
Pending(db) == {v \in 2 .. CURRENT_SCHEMA_VERSION : \A w \in db.versions : w < v}

\* Migration 2 adds columns that must not be there to tables that must, 3 an
\* index on one of the tables; 4 drops what may be missing.  Each records itself.
Applies(v, db) ==
  /\ v \notin db.versions
  /\ v = 2 => db.columns = "old"
  /\ v = 3 => db.columns # "none"
Migrated(v, db) ==
  [db EXCEPT !.versions = @ \union {v}, !.columns = IF v = 2 THEN "full" ELSE @]

Holds(p, n) == proc[p].pc # "idle" /\ proc[p].db = n
Hitting(by, n, what) ==
  [q \in Procs |-> IF q # by /\ Holds(q, n) THEN [proc[q] EXCEPT !.hit = @ \union {what}] ELSE proc[q]]

Robbing(lock) ==
  [q \in Procs |-> IF lock # Nothing /\ lock.by = q THEN [proc[q] EXCEPT !.hit = @ \union {"robbed"}] ELSE proc[q]]

\* Only the owner's pid in the file lets a release remove it.
Released(p) ==
  [d \in Dirs |-> IF place[d].lock # Nothing /\ place[d].lock.by = p /\ d = proc[p].at
                    THEN [place[d] EXCEPT !.lock = Nothing] ELSE place[d]]

Ended(code) == [NoCommand EXCEPT !.exit = code]
Ends(p, code) == proc' = [proc EXCEPT ![p] = Ended(code)]
Continues(p, pc) == proc' = [proc EXCEPT ![p].pc = pc]

-----------------------------------------------------------------------------
(* Commands begin.                                                         *)

\* "init" looks only where it is; a directory that has a database has been
\* initialized, and that is no failure.
StartInit(p, cmd, d) ==
  /\ proc[p].pc = "idle" /\ <<p, cmd, d>> \in Calls /\ cmd \in {"init", "init -i"}
  /\ IF Initialized(d)
       THEN Ends(p, 0)
       ELSE proc' = [proc EXCEPT ![p] = [NoCommand EXCEPT !.pc = "loading", !.cmd = cmd, !.at = d]]
  /\ UNCHANGED <<place, dbs>>

\* Status, uninit and unlock say that there is no project, the others fail.
StartOn(p, cmd, d) ==
  /\ proc[p].pc = "idle" /\ <<p, cmd, d>> \in Calls /\ cmd \notin {"init", "init -i", "unlock"}
  /\ \E at \in Dirs :
       /\ ResolveProjectPath(d, at)
       /\ IF Initialized(at)
            THEN proc' = [proc EXCEPT ![p] = [NoCommand EXCEPT !.pc = "loading", !.cmd = cmd, !.at = at]]
            ELSE Ends(p, IF cmd \in {"status", "uninit"} THEN 0 ELSE 1)
  /\ UNCHANGED <<place, dbs>>

\* Whoever's lock it is, and whether or not its owner lives.
Unlock(p, d) ==
  /\ proc[p].pc = "idle" /\ <<p, "unlock", d>> \in Calls
  /\ \E at \in Dirs :
       /\ ResolveProjectPath(d, at)
       /\ IF Initialized(at) /\ place[at].lock # Nothing
            THEN /\ place' = [place EXCEPT ![at].lock = Nothing]
                 /\ proc' = [Robbing(place[at].lock) EXCEPT ![p] = Ended(0)]
            ELSE Ends(p, 0) /\ UNCHANGED place
  /\ UNCHANGED dbs

\* The prompt of an uninit without --force.
Decline(p) ==
  /\ proc[p].pc = "loading" /\ proc[p].cmd = "uninit"
  /\ Ends(p, 0) /\ UNCHANGED <<place, dbs>>

-----------------------------------------------------------------------------
(* CodeGraph.init                                                          *)

\* Both isInitialized and createDirectory look for the database file.
CreateDirectory(p) ==
  LET d == proc[p].at
  IN /\ proc[p].pc = "loading" /\ proc[p].cmd \in {"init", "init -i"}
     /\ IF Initialized(d)
          THEN Ends(p, 1) /\ UNCHANGED place
          ELSE place' = [place EXCEPT ![d].made = TRUE] /\ Continues(p, "creating")
     /\ UNCHANGED dbs

\* SQLite opens a file that another init has created since.
CreateDatabase(p) ==
  LET d == proc[p].at
  IN /\ proc[p].pc = "creating"
     /\ \E n \in Dbs :
          /\ IF Initialized(d) THEN n = place[d].db /\ dbs' = dbs ELSE NextDb(n) /\ dbs' = [dbs EXCEPT ![n] = Fresh]
          /\ place' = [place EXCEPT ![d].made = TRUE, ![d].db = n]
          /\ proc' = [proc EXCEPT ![p].pc = "version", ![p].db = n]

\* Mutant: the current version is recorded before there are tables.
InsertVersion_Current(p) ==
  LET n == proc[p].db
  IN /\ proc[p].pc = "version"
     /\ UNCHANGED place
     /\ IF 1 \in dbs[n].versions
          THEN Ends(p, 1) /\ DbsBecome(dbs)
          ELSE /\ dbs' = [dbs EXCEPT ![n].versions = @ \union {1, CURRENT_SCHEMA_VERSION}]
               /\ Continues(p, "tables")

\* schema.sql begins with the table of versions and a plain INSERT of version 1.
InsertVersion(p) ==
  LET n == proc[p].db
  IN /\ proc[p].pc = "version"
     /\ UNCHANGED place
     /\ IF 1 \in dbs[n].versions
          THEN Ends(p, 1) /\ DbsBecome(dbs)
          ELSE dbs' = [dbs EXCEPT ![n].versions = @ \union {1}] /\ Continues(p, "tables")

\* All that follows is CREATE ... IF NOT EXISTS.
CreateTables(p) ==
  LET n == proc[p].db
  IN /\ proc[p].pc = "tables"
     /\ dbs' = [dbs EXCEPT ![n].columns = IF @ = "none" THEN "full" ELSE @]
     /\ Continues(p, "current") /\ UNCHANGED place

\* The row that keeps the migrations from running on a new database.
RecordCurrent(p) ==
  LET n == proc[p].db
  IN /\ proc[p].pc = "current"
     /\ IF proc[p].cmd = "init -i" THEN Continues(p, "opened") ELSE Ends(p, 0)
     /\ UNCHANGED place
     /\ DbsBecome([dbs EXCEPT ![n].versions = @ \union {CURRENT_SCHEMA_VERSION}])

-----------------------------------------------------------------------------
(* CodeGraph.open and openSync                                             *)

\* The directory is validated, which at most repairs its .gitignore.  The
\* migrations to run are fixed by the version that is read here.
Open(p) ==
  LET n == place[proc[p].at].db
  IN /\ proc[p].pc = "loading" /\ proc[p].cmd \notin {"init", "init -i"}
     /\ IF n = 0
          THEN Ends(p, 1)
          ELSE proc' = [proc EXCEPT ![p].db = n, ![p].pending = Pending(dbs[n]),
                                    ![p].pc = IF Pending(dbs[n]) = {} THEN "opened" ELSE "migrating"]
     /\ UNCHANGED <<place, dbs>>

\* One transaction: a statement that fails undoes it and ends the command.
RunMigration(p) ==
  LET n == proc[p].db
  IN /\ proc[p].pc = "migrating"
     /\ UNCHANGED place
     /\ \E v \in proc[p].pending :
          /\ \A w \in proc[p].pending : v <= w
          /\ IF Applies(v, dbs[n])
               THEN /\ dbs' = [dbs EXCEPT ![n] = Migrated(v, @)]
                    /\ proc' = [proc EXCEPT ![p].pending = @ \ {v},
                                            ![p].pc = IF proc[p].pending = {v} THEN "opened" ELSE @]
               ELSE Ends(p, 1) /\ DbsBecome(dbs)

-----------------------------------------------------------------------------
(* The work of the commands.                                               *)

\* Counts, and what has changed since they were taken.
ReportStatus(p) ==
  /\ proc[p].pc = "opened" /\ proc[p].cmd = "status"
  /\ Ends(p, 0) /\ UNCHANGED place /\ DbsBecome(dbs)

\* So do files, context, callers, callees, impact and affected.
Search(p) ==
  /\ proc[p].pc = "opened" /\ proc[p].cmd = "query"
  /\ Ends(p, 0) /\ UNCHANGED place /\ DbsBecome(dbs)

\* The directory goes with whatever stands in it, the lock too; a link goes
\* without its target, which is the same to all that come after.  The hooks
\* that go as well are the installer's.
Uninitialize(p) ==
  LET d == proc[p].at
  IN /\ proc[p].pc = "opened" /\ proc[p].cmd = "uninit"
     /\ place' = [place EXCEPT ![d] = Nowhere]
     /\ proc' = [Hitting(p, place[d].db, "removed") EXCEPT ![p] = Ended(0)]
     /\ DbsBecome(dbs)

\* --force clears before the lock is asked for.
Clear(p) ==
  LET n == proc[p].db
  IN /\ proc[p].pc = "opened" /\ proc[p].cmd = "index --force"
     /\ dbs' = [dbs EXCEPT ![n].rows = {}]
     /\ proc' = [Hitting(p, n, "cleared") EXCEPT ![p].pc = "cleared"]
     /\ UNCHANGED place

Busy(l) == l # Nothing /\ l.by # "dead" /\ ~l.stale

\* indexAll writes all files, sync those that it finds changed.  A refused index
\* fails, a refused init -i has created the project, and a refused sync reports
\* that nothing has changed.  Without a directory there is no lock to take.
Acquire(p) ==
  LET d == proc[p].at
  IN /\ \/ proc[p].pc = "opened" /\ proc[p].cmd \in {"init -i", "index", "sync"}
        \/ proc[p].pc = "cleared"
     /\ IF place[d].made /\ ~Busy(place[d].lock)
          THEN /\ place' = [place EXCEPT ![d].lock = [by |-> p, stale |-> FALSE]]
               /\ \E S \in IF proc[p].cmd = "sync" THEN SUBSET Files ELSE {Files} :
                    proc' = [Robbing(place[d].lock) EXCEPT ![p].pc = "writing", ![p].todo = S]
          ELSE Ends(p, IF proc[p].cmd \in {"index", "index --force"} THEN 1 ELSE 0) /\ UNCHANGED place
     /\ DbsBecome(dbs)

Store(p) ==
  LET n == proc[p].db
  IN /\ proc[p].pc = "writing"
     /\ \E f \in proc[p].todo :
          /\ dbs' = [dbs EXCEPT ![n].rows = @ \union {f}]
          /\ proc' = [proc EXCEPT ![p].todo = @ \ {f}]
     /\ UNCHANGED place

\* The lock is released, the database closed, and the result printed.
Finish(p) ==
  /\ proc[p].pc = "writing" /\ proc[p].todo = {}
  /\ place' = Released(p) /\ Ends(p, 0) /\ DbsBecome(dbs)

-----------------------------------------------------------------------------
(* The world.                                                              *)

Creating == {"version", "tables", "current"}

Kill(p) ==
  LET n == proc[p].db
  IN /\ proc[p].pc # "idle"
     /\ Ends(p, 1)
     /\ place' = [d \in Dirs |-> IF place[d].lock # Nothing /\ place[d].lock.by = p
                                   THEN [place[d] EXCEPT !.lock.by = "dead"] ELSE place[d]]
     /\ DbsBecome(IF proc[p].pc \in Creating THEN [dbs EXCEPT ![n].cut = TRUE] ELSE dbs)

\* Two minutes pass.
Age(d) ==
  /\ place[d].lock # Nothing /\ ~place[d].lock.stale
  /\ place' = [place EXCEPT ![d].lock.stale = TRUE] /\ UNCHANGED <<dbs, proc>>

\* A project may have been made by the first release.
Old(S) == [versions |-> {1}, columns |-> "old", rows |-> S, cut |-> FALSE]
ProjectInit ==
  /\ place \in [Dirs -> {Nowhere, [Nowhere EXCEPT !.made = TRUE]}
                        \union {[Nowhere EXCEPT !.made = TRUE, !.db = n] : n \in Dirs}]
  /\ \A d \in Dirs : place[d].db \in {0, d}
  /\ dbs = [n \in Dbs |-> IF n \in Dirs /\ place[n].db = n THEN Old(Files) ELSE Fresh]
  /\ proc = [p \in Procs |-> NoCommand]

ProjectNext ==
  \/ \E p \in Procs, d \in Dirs :
       \/ \E cmd \in Commands : StartInit(p, cmd, d) \/ StartOn(p, cmd, d)
       \/ Unlock(p, d)
  \/ \E p \in Procs :
       \/ Decline(p) \/ CreateDirectory(p) \/ CreateDatabase(p) \/ InsertVersion(p)
       \/ CreateTables(p) \/ RecordCurrent(p) \/ Open(p) \/ RunMigration(p)
       \/ ReportStatus(p) \/ Search(p) \/ Uninitialize(p) \/ Clear(p) \/ Acquire(p) \/ Store(p) \/ Finish(p) \/ Kill(p)
  \/ \E d \in Dirs : Age(d)

ProjectSpec == ProjectInit /\ [][ProjectNext]_projectVars

-----------------------------------------------------------------------------
ProjectTypeOK ==
  /\ place \in [Dirs -> Place] /\ dbs \in [Dbs -> Database] /\ proc \in [Procs -> Process]

\* No command works on a database whose schema is older than its code.
SchemaIsCurrent ==
  \A p \in Procs : proc[p].pc \in {"opened", "cleared", "writing"} =>
    dbs[proc[p].db].columns = "full" /\ CURRENT_SCHEMA_VERSION \in dbs[proc[p].db].versions

\* A database that every open will refuse, which init takes for a project and
\* uninit cannot remove, is one whose init was killed.
Opens(db) == \A v \in Pending(db) : (v = 2 => db.columns = "old") /\ (v = 3 => db.columns # "none")
StuckIsCut ==
  \A d \in Dirs : Initialized(d) /\ ~Opens(dbs[place[d].db]) =>
    dbs[place[d].db].cut \/ \E p \in Procs : Holds(p, place[d].db) /\ proc[p].pc \in Creating

\* An index that is about to be reported as done holds every file, and is the
\* one that the next command will find; unless a forced index or an uninit of
\* another process came in between.
ReportsHold ==
  \A p \in Procs : proc[p].pc = "writing" /\ proc[p].todo = {} /\ proc[p].cmd # "sync" =>
    /\ dbs[proc[p].db].rows = Files \/ "cleared" \in proc[p].hit
    /\ place[proc[p].at].db = proc[p].db \/ "removed" \in proc[p].hit

\* Two commands write one database only after the lock of one of them was taken
\* away: by unlock, with age, or with the directory.
OneWriter ==
  \A p, q \in Procs : p # q /\ proc[p].pc = "writing" /\ proc[q].pc = "writing" /\ proc[p].db = proc[q].db =>
    (proc[p].hit \union proc[q].hit) \intersect {"robbed", "removed"} # {}

(* A database on disk is usable unless an init was killed on it, no command *)
(* runs on an old schema, one command writes at a time, and what a command  *)
(* reports as indexed is there for the next one.                            *)
ProjectInv == ProjectTypeOK /\ SchemaIsCurrent /\ StuckIsCut /\ ReportsHold /\ OneWriter

-----------------------------------------------------------------------------
(* What the reading commands answer.  A question carries the part of the    *)
(* index it is about: for "affected" the imports as <<importing file,       *)
(* imported file, what of it>>, for "callers", "callees" and "impact" what  *)
(* the search found for the name, best first, and what the graph says of    *)
(* each match (GraphTraverser has its walks).                               *)

Asked(q) ==
  [q |-> q, left |-> IF q.op = "affected" THEN q.changed ELSE <<>>, queue |-> <<>>, visited |-> {},
   found |-> {}, answer |-> Nothing]

\* Imports of a whole file count, and those of what it exports.
FileDependents(q, f) ==
  {e[1] : e \in {e \in q.imports : e[2] = f /\ e[1] # f /\ e[3] \in {"file", "exported"}}}

\* A changed test is affected itself, and no walk begins there.
TakeChangedFile ==
  /\ ask.q.op = "affected" /\ ask.queue = <<>> /\ ask.left # <<>>
  /\ LET f == Head(ask.left)
     IN IF f \in ask.q.tests
          THEN ask' = [ask EXCEPT !.left = Tail(@), !.found = @ \union {f}]
          ELSE ask' = [ask EXCEPT !.left = Tail(@), !.queue = <<[file |-> f, depth |-> 0]>>, !.visited = {f}]

\* Mutant: the tests that are found are walked through.
VisitDependents_Tests ==
  /\ ask.queue # <<>>
  /\ LET current == Head(ask.queue)
         new == IF current.depth >= ask.q.depth THEN {}
                ELSE FileDependents(ask.q, current.file) \ ask.visited
         on == SetToSeq(new)
     IN ask' = [ask EXCEPT !.visited = @ \union new, !.found = @ \union (new \intersect ask.q.tests),
                           !.queue = Tail(@) \o [i \in 1 .. Len(on) |-> [file |-> on[i], depth |-> current.depth + 1]]]

\* Tests are found and not walked through.
VisitDependents ==
  /\ ask.queue # <<>>
  /\ LET current == Head(ask.queue)
         new == IF current.depth >= ask.q.depth THEN {}
                ELSE FileDependents(ask.q, current.file) \ ask.visited
         on == SetToSeq(new \ ask.q.tests)
     IN ask' = [ask EXCEPT !.visited = @ \union new, !.found = @ \union (new \intersect ask.q.tests),
                           !.queue = Tail(@) \o [i \in 1 .. Len(on) |-> [file |-> on[i], depth |-> current.depth + 1]]]

AnswerAffected ==
  /\ ask.q.op = "affected" /\ ask.queue = <<>> /\ ask.left = <<>> /\ ask.answer = Nothing
  /\ ask' = [ask EXCEPT !.answer = ask.found]

\* A single match is taken for the symbol whatever its name.
Taken(q, m) == m.exact \/ Len(q.matches) = 1

\* What a match is answered with comes after what there is, each thing once.
Adding(got, things) ==
  LET upTo[i \in 0 .. Len(things)] ==
        IF i = 0 THEN got
        ELSE IF things[i] \in ToSet(upTo[i - 1]) THEN upTo[i - 1] ELSE Append(upTo[i - 1], things[i])
  IN upTo[Len(things)]
Gathered(q) ==
  LET upTo[i \in 0 .. Len(q.matches)] ==
        IF i = 0 THEN <<>>
        ELSE IF Taken(q, q.matches[i]) THEN Adding(upTo[i - 1], q.matches[i].of) ELSE upTo[i - 1]
  IN upTo[Len(q.matches)]

\* Where the symbols of that name give nothing, the best match answers for them.
OrOfTheBest(q) == IF Gathered(q) = <<>> /\ q.matches # <<>> THEN Adding(<<>>, q.matches[1].of) ELSE Gathered(q)

UpTo(n, s) == [i \in 1 .. (IF Len(s) < n THEN Len(s) ELSE n) |-> s[i]]
CallersOf(q) == UpTo(q.limit, OrOfTheBest(q))
CalleesOf(q) == UpTo(q.limit, OrOfTheBest(q))
ImpactOf(q) == OrOfTheBest(q)

AnswerSymbol ==
  /\ ask.q.op # "affected" /\ ask.answer = Nothing
  /\ ask' = [ask EXCEPT !.answer = CASE ask.q.op = "callers" -> CallersOf(ask.q)
                                     [] ask.q.op = "callees" -> CalleesOf(ask.q)
                                     [] ask.q.op = "impact" -> ImpactOf(ask.q)]

AskInit == ask \in {Asked(q) : q \in Questions}
AskNext == TakeChangedFile \/ VisitDependents \/ AnswerAffected \/ AnswerSymbol
AskSpec == AskInit /\ [][AskNext]_ask

\* Reference: the files that import a file over at most k imports, of which
\* those in between are no tests.
Importers(q, f) ==
  LET within[k \in 0 .. q.depth] ==
        IF k = 0 THEN {f}
        ELSE within[k - 1] \union UNION {FileDependents(q, g) : g \in within[k - 1] \ q.tests}
  IN within[q.depth]

AffectedIsWithinReach ==
  ask.q.op = "affected" /\ ask.answer # Nothing =>
    ask.answer = ask.q.tests \intersect UNION {Importers(ask.q, f) : f \in ToSet(ask.q.changed)}

\* When a symbol of that name has an answer, all and only such symbols answer,
\* each thing once, up to the limit.
SymbolsAnswer ==
  LET named == {m \in ToSet(ask.q.matches) : m.exact}
      of == UNION {ToSet(m.of) : m \in named}
  IN ask.q.op # "affected" /\ ask.answer # Nothing /\ of # {} =>
       /\ ToSet(ask.answer) \subseteq of
       /\ Len(ask.answer) = Cardinality(ToSet(ask.answer))
       /\ (ToSet(ask.answer) = of \/ (ask.q.op # "impact" /\ Len(ask.answer) = ask.q.limit))

(* The tests that are said to be affected are those within the asked number *)
(* of imports of a change, and a name is answered for by what has it.       *)
QuestionsInv == AffectedIsWithinReach /\ SymbolsAnswer
=============================================================================

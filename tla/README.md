# CodeDelta in TLA+

A verification development for this repository: TLA+ modules translated from the
TypeScript sources, TLC configurations that model-check them on small instances,
and theorems that the TLA+ proof system checks for every value of the constants.
Paths below are relative to the repository root, which `PROJECT.json` and the comments of
the modules call `src/`.

## 1. The system

CodeDelta is two layers. **CodeGraph** (`src/`) parses a source tree into a
graph of symbols kept in SQLite under `<project>/.codegraph/`, keeps the graph
in step with the files, and serves it to AI assistants over MCP. **CodeDelta**
(`packages/`, `apps/`) checks out two commits of a repository, has CodeGraph
index each, and compares the two graphs.

| component | sources | state it keeps | operations |
|---|---|---|---|
| daemon election | `src/mcp/{daemon,index,proxy,daemon-paths}.ts` | `daemon.pid`, `daemon.sock` on disk; one process per candidate and launcher | acquire, clear stale, listen, stop, probe, spawn, fall back |
| daemon sessions | `src/mcp/daemon.ts` | `clients`, `idleTimer`, `stopping` | connect, drop, arm and disarm the idle timer, stop |
| engine and MCP session | `src/mcp/{engine,session,transport}.ts` | the open CodeGraph, `initPromise`, `closed`; pending client requests | initialize, roots/list, lazy retry, tool call, stop |
| in-process mutex, file lock | `src/utils.ts` | `locked`, `waitQueue`; the lock file and its age | acquire, release, stale takeover |
| graph writers | `src/index.ts` | which process holds both locks, what it is writing | indexAll, indexFiles, sync, close |
| index store and sync | `src/extraction/index.ts`, `src/db/queries.ts` | `files`, `nodes`, `edges`, `unresolved_refs` tables against the tree on disk | index a file, store, delete, reconcile |
| parse worker | `src/extraction/index.ts` | the worker thread, pending parses, timers, recycle count | request, timeout, exit, recycle, retry |
| reference resolution | `src/resolution/*.ts` | `unresolved_refs`, `edges`, caches | batched resolution, clean-up |
| file watcher | `src/sync/watcher.ts` | `pendingFiles`, debounce timer, `syncing`, `ready` | event, debounce, flush, stop |
| project lifecycle and CLI | `src/bin/codegraph.ts`, `src/{directory,index}.ts`, `src/db/{index,migrations}.ts` | `.codegraph/` with its database and lock | init, open, migrate, index, status, uninit, unlock |
| graph traversal, search, context | `src/graph`, `src/search`, `src/context` | none (queries) | breadth- and depth-first search, impact, paths |
| MCP tools | `src/mcp/tools.ts` | cache of open projects | tool calls, staleness banner |
| git integration | `src/sync/{git-hooks,worktree,watch-policy}.ts` | hook files | install, remove, detect |
| installer, terminal UI | `src/installer`, `src/ui` | agents' configuration files | install, uninstall |
| language extractors, framework resolvers | `src/extraction/languages`, `src/resolution/frameworks` | none (pure functions on syntax trees) | extract, resolve |
| snapshots | `packages/codedelta-snapshot-manager`, `packages/codedelta-repo-manager` | snapshot cache, worktrees, builds in flight | get or build, time out, retry, import |
| server jobs and stores | `packages/codedelta-server` | job table, repository registry, JSON stores | start, progress, evict; load, save |
| graph comparison | `packages/codedelta-{graph-diff,impact-score,delta-summary,graph-subgraph,trace-engine}` | none (pure functions) | diff, score, summarise, cut a subgraph |
| training data, wiki, providers | `packages/codedelta-{training-data,wiki-engine,provider-runtime}` | generated files, provider calls | generate, call |
| web and desktop applications | `apps/` | the state of the open page, requests in flight, `sessionStorage` | handlers, effects, answers; start and stop the local server |

How the parts interact: a launcher (`codegraph serve --mcp`) finds or spawns the
daemon, which owns one engine; the engine opens a CodeGraph, runs a catch-up
sync and starts the file watcher; watcher, tools, git hooks and the command line
all reach the tables through `indexAll`, `indexFiles` and `sync`, and so through
the in-process mutex and the lock file. The queries only read. The CodeDelta
server calls the snapshot manager once per commit; it checks the commit out,
runs CodeGraph's `init` and `indexAll` in the checkout, normalises the export
and caches it, and the comparison reads two cached snapshots.

What is hard in it: the processes of the election and of the lock file share
nothing but a directory, and run between any two of each other's system calls;
any of them may be killed, and so may a command that is creating or migrating a
database that another has open. Inside one process nothing is preempted, but
everything awaited is a window: between a stat and a read, between a timeout and
the build it gave up, between `release()` and the waiter it woke, between a page's
request and an answer that the user no longer waits for. The watcher
has to promise something about edits it has not heard of yet. The walks and the
comparison are sequential, but over arbitrary graphs, with depth limits, shared
visited sets and identifiers that are not unique.

What makes each part correct: one daemon per project and no launcher left
without a server; one writer of the database, no lost waiter and no lock that a
dead process keeps for ever; rows that say what the graph holds, and no stale
file that nobody names; one whole snapshot per commit and an answer to every
caller; an affected set that is exactly what the changes reach; walks that
return what is reachable. `PROJECT.json` lists the hazards behind these
properties at the lines where they bite.

## 2. The modules

An action is what runs without another actor being able to step in: one system
call where operating-system processes meet (election, lock file), the code
between two awaits that really wait where one JavaScript thread runs (mutex,
store, watcher, engine, parse worker, jobs, snapshots, pages), one iteration of a loop or
one stage in the sequential algorithms (walks, comparison, pictures, context, tools,
extraction, imports, synthesized calls).

### Processes, threads and promises

| module | code | state | actions |
|---|---|---|---|
| `DaemonElection` | `src/mcp/{daemon,index,proxy}.ts` | `pidfile`, `sock` (who created the file, or none); for each candidate its place, its finished attempts and what it read; for each launcher its place, failed probes and peer | `TryLink` .. `SleepAndRetry`: `tryAcquireDaemonLock`, `clearStaleDaemonLock` and the retry loop; `UnlinkStaleSocket`, `Listen`: `start`; `BeginStop` .. `UnlinkSocketAndExit`: `stop`; `Connect` .. `AfterFailedProbe`: `connectOrSpawnDaemon` and the hello; `Crash` anywhere |
| `Engine` | `src/mcp/{engine,session,tools,transport,daemon,index}.ts` | the engine's project, open, watcher and `closed`; the tool handler's default and `projectCache`; every CodeGraph instance; sessions and their calls; the daemon's idle timer | `Initialize`, `Opened` (the open in the background settles), `ToolsCall`, `Resume`, `Asked`, `RunTool`, `RootsAnswer`, `RootsTimeout`, `Connect`, `Disconnect`, `IdleTimeout`, `Signal`, `Exit`; `Change`: an index appears or goes |
| `Exclusive` | (abstract) | `owner` | a free resource is taken, a taken one is freed |
| `Mutex` | `class Mutex`, `src/utils.ts` | `locked`, `waitQueue`, where each caller is | `Acquire`, `Resume` (the loop's test runs again), `Release` |
| `FileLock` | `class FileLock`, `src/utils.ts` | the file at the lock path (its creator, whether its pid is written, whether it is older than two minutes), where each process is and what it read | each file-system call of `acquire` and `release`, `Age`, `Crash` |
| `GraphWriters` | `src/index.ts` | the variables of both locks, the stage and kind of each process's operation, whether the server's instance is open | `EnterMutex`, `Begin`, `TakeFileLock`, `EarlyRelease`, `Extracted`, `Resolved`, `ReleaseFileLock`, `End`, `Close` |
| `IndexStore` | `src/extraction/index.ts`, `src/db/queries.ts` | the tree on disk, table `files` (`record`), whose nodes are in table `nodes`, the running operation | `Scan`, `List`, `Pick`, `ReadFirst`, `ReadSecond`, `ParseFails`, `Store`, `Finish`, `Abort`; editors: `Edit`, `Remove` |
| `Watcher` | `class FileWatcher`, `src/sync/watcher.ts` | undelivered events, `ready`, `pending`, `timer`, `syncing`, `stopped` | `Event`, `Ready`, `Flush`, `SyncOk`, `SyncFailed`, `Stop` (operators that `LiveIndex` conjoins) |
| `LiveIndex` | `CodeGraph.watch`, `sync`, the engine's catch-up sync | `IndexStore` and `Watcher`, who runs the operation, crashes | edit with its event, delivery, flush, the watcher's sync refused, ended or thrown, operations of others, kill and restart |
| `ParseWorker` | parsing phase of `src/extraction/index.ts`, `parse-worker.ts` | the loop of `indexAll` (pass, files left, files to retry), the pending parse, every thread spawned with its requests and the events on their way, counters, errors, what is stored | the loop's steps, a request and its post, timeout, the thread's steps and its death, message, error and exit events, the two retry passes |
| `NameMatch`, `Resolution` | `src/resolution/{name-matcher,index}.ts`, `src/db/queries.ts`, `src/index.ts` | rows of `unresolved_refs`, edges, the resolver's caches, the running operation | `IndexAll`, `Sync`, `IndexFiles`, `ResolveReferences`, `ClearTables`, the steps of each, `Edit`, `Kill` |
| `Snapshots` | `packages/codedelta-snapshot-manager/src`, `packages/codedelta-repo-manager/src/worktree.ts` | the checkout at the worktree path, the database in it, the running builds, the in-flight entry, the cache file, what each caller was told | `ServeFromCache`, `JoinFlight`, `StartFlight`, `GrammarsLoaded`, `IndexFile`, `BuildFails`, `BuildEnds`, `Timeout`, `Restart` |
| `Project` | `src/bin/codegraph.ts`, `src/directory.ts`, `src/db/{index,migrations}.ts`, `src/db/schema.sql` | each directory's `.codegraph` (made, its database, its lock), the databases (recorded versions, columns, rows), where each process's command is | `StartInit`, `StartOn`; `CreateDirectory`, `CreateDatabase`, `InsertVersion`, `CreateTables`, `RecordCurrent`; `Open`, `RunMigration`; `Acquire`, `Store`, `Finish`, `Clear`, `Uninitialize`, `Unlock`, `ReportStatus`, `Search`; `Kill`, `Age` |
| `Jobs` | `packages/codedelta-server/src/{jobs,services}`, `apps/web/src/pages` | the job store, the directories of wikis and exports, the pages that poll, settings | a job's stages up to each file it writes, `StartWiki`, `StartExport`, `Evict`, `PageAsks`, `PageShows`, `Kill`, `Restart` |
| `Credentials` | `packages/codedelta-provider-runtime/src/codex-{auth,http}.ts` | the login file, the one refresh token the service accepts, where each borrower is | borrow, ask, answer, loss, expiry (operators that `Jobs` conjoins) |
| `Pages` | `apps/web/src/{pages,components,api,lib}` | the gate, the route with its parameters, the state of the page, the calls in flight, `sessionStorage`, what the server has | `ProbeAnswered` .. `RetryAnswered` of the gate; per page what the user does (`RunCompare`, `ChooseCommit`, `StartExport`, ...), its effects (`GraphEffect`, `LoadEffect`, ...) and the answers to its calls (`Drawn`, `Polled`, ...); `Go`, `Return`; the server's `ExportEnds`, `WikiEnds` |
| `Installer`, `ConfigFiles` | `src/installer`, `src/sync/git-hooks.ts` | the configuration files of one agent, the backup, the edits a command has left, whether the last step failed to keep what it wrote over | `Install`, `Uninstall`, `WireProject`, one `Step` an edit, `Crash`, the owners' edits |

### Algorithms

| module | code | what a behaviour is |
|---|---|---|
| `Compare` | `packages/codedelta-graph-diff/src/index.ts`, `semantic-id.ts` of the snapshot manager | one comparison: `CompareSnapshots`, then `Expand` per queued id, `Return` |
| `Traversal` | `src/graph/traversal.ts`, `findCircularDependencies` in `src/graph/queries.ts` | one walk: `TakeFromQueue`, `TakeEdge`, `BeginRound`, `WalkUsers`, `NextFile`, `TakeDependency` and the ends |
| `Panorama` | `packages/codedelta-graph-subgraph/src/index.ts`, the server's `services/panorama.ts` | one page: call trees grow node by node, are merged, cut and overlaid with a delta or a trace |
| `Extractor` | `src/extraction/tree-sitter.ts` | one syntax tree, of any shape the grammar allows, walked node by node |
| `ImportResolver` | `src/resolution/{import-resolver,path-aliases}.ts` | one imported name, searched through files and re-exports |
| `Synthesizer` | `src/resolution/callback-synthesizer.ts` | one project: each channel proposes pairs of symbols, which are merged and stored |
| `Search`, `Context`, `Tools` | `src/db/queries.ts`, `src/search`, `src/context/index.ts`, `src/mcp/tools.ts` | one question: the stages of `findRelevantContext`, the lookups of the tools, the file loop of `codegraph_explore` |
| `Project` (second part) | `src/bin/codegraph.ts` | one question to an index: the walk of `affected`, and what `callers`, `callees` and `impact` make of several matches |

Composition: `GraphWriters` instantiates `Mutex` and `FileLock` and takes their
steps as its own; `LiveIndex` extends `IndexStore` and instantiates `Watcher`;
`Resolution` extends `NameMatch`, `Jobs` instantiates `Credentials`, `Installer`
extends `ConfigFiles`, `Tools` extends `Context`, which extends `Search`.
`Mutex` and `GraphWriters` are refined to `Exclusive`, and `LiveIndex` to
`IndexStore`. The `MC` modules give constants values a `.cfg` cannot write;
`MCGraphs`, `MCTexts`, `MCContext` and `MCSnapshots` also put several subjects into
one run, each behaviour being of one of them; `MCGraphInputs` and `MCTextInputs` hold the
inputs of the first two. Operators whose name
has a suffix after an underscore (`End_KeepsMutex`,
`AfterFailedProbe_OneTooMany`) are not part of any specification: they are the
mistakes against which the properties are tried (section 4).

Where the models abstract:

- *Files on the shared disk* are known by the process that wrote them. Process
  ids are not reused. The stale timeout of the lock file is one bit.
- *Editors* are limited to `MaxEdits` writes. The stat of a file (size and
  mtime) is the number of its last edit, so two edits never look alike; a
  content is one of a few values, and those in `Rejected` do not parse.
- *The scan of sync* is one step, because it looks at each file once and
  awaits nothing between two looks. A batch of `indexAll` is read one file
  at a time. An event raised in the very millisecond a sync starts is delivered
  before the scan.
- *Storing a file* is one step in `Resolution`; `IndexStore` has its transactions.
- *The parse worker* is a thread with a queue of requests and a queue of events;
  a file is known by what it does to its parser (parse, crash, hang, run the heap
  full, fail to be read). The fallback without a compiled worker is left out.
- *The engine*: opening a project takes one await, fails at most `MaxFailures`
  times, and an index appears or goes at most `MaxChanges` times. Clients send
  `initialize` first, and once.
- *The snapshot* of one commit is followed, since the worktree path, the cache
  file and the in-flight key are all named by the commit. At most
  `Cardinality(Builds) - 2` abandoned builds are alive when a flight starts.
  Which version of the analyser wrote a cache file is not modelled.
- *Project*: a lock file is its owner and whether it is stale (`FileLock` has its steps), the
  schema is what migration 2 changes, the contents are the files that are stored. A
  database whose file is gone lives on in who has it open; the number of a
  database that nobody has is used again, so that `Levels + |Procs|` numbers suffice.
- *The pages* have one repository; a symbol that is typed is applied at once, and what is
  drawn is left out but for the conditions under which it is.
- *The synthesizer* reads a text as the sequence of what its patterns match.
- *Jobs* follow one plan of sections per generation; texts made by a provider
  are their section and the job that wrote them. What `history` mode writes beside
  the commits is left out, and so is the write-back of a login read before an
  await (`codex-auth.ts:216`).
- *The installer's targets* share no file, so one target at one location is
  followed. A line of a text file is one of a few kinds; lost updates between
  the read and the rename of one edit are not modelled.
- *The extractor's* syntax trees are those of five languages with declarations, types,
  calls and references; the hooks of other languages, Svelte, Vue and the formats
  without a grammar are left out. Two declarations of one kind, name and line,
  which the ids do not tell apart, do not occur.
- *Search* has a word stand for about four letters and counts scores in hundredths; in `Tools` a
  line counts as one character. Equal candidates of `NameMatch` are taken in any
  order, where the code takes the first row.
- *A node's attribute* in `Compare` stands for the five fields `detectNodeChanges`
  compares. Ids are pushed on the queue of the walk in any order, since the iteration
  orders of the maps do not matter to what is computed.
- *Rows of an edge query* come in any order. The `edgeKinds` filter, `getAncestors`
  and the queries of a single step are left out.

History variables, which no guard reads: `overtaken` (`clearStaleDaemonLock`
unlinked another pidfile than the one it had read), `robbed` (a lock file was
unlinked under its owner), `torn` in `IndexStore` and `Resolution` (a store or a batch was cut),
`settled` and `misdated` in `LiveIndex`, `raced` and `named` in `Engine`,
`foreign` in `ParseWorker` (a request failed by the exit of another worker than its
own), `last` in `Resolution`, `lost` in `Credentials` (a renewing answer was lost),
the field `lost` of a build (files it failed to read because the checkout was gone), `cut` of a
database and `hit` of a process in `Project` (its init was killed; another process cleared or removed the
database or took the lock), and `passed` of a call and `over` in `Pages` (a later event had set the same state).

## 3. What is checked

All runs: `tlc -config X.cfg M` with the pairs of module and configuration in
`PROJECT.json`. Deadlock is checked except where a behaviour rightly ends: the
sequential modules end with their answer, processes of the lock run out of
calls, a server stops, and a stopped watcher with a spent budget of edits has nothing to do.

| run | instance | what it shows |
|---|---|---|
| `election` | 3 candidates, one of another version, 2 launchers, 2 takeover attempts, 1 further probe, 2 kills | `ElectionSafe`: two daemons are elected only after an overtaken unlink (with the inductive invariant); `DaemonIsShared`: attached launchers share a daemon, and without kills the last to leave takes pidfile and socket along |
| `election_live` | 2 candidates, 2 launchers, 2 further probes, 2 kills, no symmetry | `ElectionSettles`: a launcher is attached or served in-process in the end, and a dead holder's pidfile does not stay |
| `engine` | 2 sessions of a daemon or 1 of a direct server, 2 tool calls, 1 failure of an open, 1 change of an index | `ConnectionInv`: one connection to a project, the default one watched, no open behind a question to the client, the root it names wins; `NoticeFromWatcher`: an answer shows what the watcher holds pending; `NothingHangs`: every call is answered and an idle daemon stops |
| `locks` | a server with 2 callers and 3 calls, one hook that may be killed, ageing, `close` | `LocksInv`: mutual exclusion, exact wait queue, no lost wake-up, one owner of the file, nothing left behind, one writer; `IsExclusive` (refinement of `Exclusive`); `LocksYield`: a dead holder's file yields and every call ends |
| `live_index` | one file, two contents of which one has no result, 2 edits, 1 kill, all three operations | `RecordInv`: a row's content is in the graph; `SyncNeverMisdates`; `StaleIsFlagged`: after the first complete sync a file the graph lags behind is pending or its event is on the way; `PendingServed` |
| `parse_worker` | 3 files of every mix of kinds, recycling after 2 requests, threads that end late or never | `ParseInv`: each file is stored as its own parse, the counters add up through the retries, a healthy file is lost only to the exit of another worker, one worker runs; `IndexAllEnds` |
| `resolution` | 3 files in 2 languages, batches of 2, one edit, kills | `EdgesInv`, `OperationsResolve`: the edges are those of what is stored, one to a reference, at every step and after a kill; a sync resolves what it stored whatever its caches held, and what `indexAll` leaves out is explained by its batches; `OperationsEnd` |
| `snapshots` | 2 files, 3 builds (up to two abandoned at a time), 2 requests, timeouts, failures, restarts; 2 processes of the command line on an inner and an outer directory, kills; questions over 8 imports and up to 3 matches | `SnapshotsInv`: the cached snapshot is whole and the same for all; `AskServed`; `ProjectInv`: a database on disk opens unless an init was killed on it, no command works on an old schema, one writes at a time, what is reported as indexed is there; `QuestionsInv`: the tests called affected are those within the asked depth, a name is answered for by what has it |
| `jobs` | one wiki with one plan of two sections, one export in two formats, 2 jobs, 2 attempts of a model call, one renewal of the login | `JobsInv`: one active job to a key, a whole wiki behind its marker, behind a manifest an export that is whole, behind the second one also done, pages that show what is there; `TokenIsKept`: the refresh token is not lost; `OutcomeStands`: no ready answer of a status endpoint is taken back, and no failure, but for an export that failed between its two manifests; `WaitingEnds` |
| `graphs` | every pair of exports of 4 symbols, two with one qualified name, and 3 edges; all graphs over 10 edges and 4 nodes with 18 questions; 7 pages of every head over 6 edges | `CompareInv` and `BlastRadius`: the lists turn base into head, and the affected ids are the least closed set around the changes; `WalksAnswer`: walks, shortest paths, cycles and supertypes against recursive reference definitions; `PictureIsWhole`: a page draws what its budget allows and says so |
| `texts` | every syntax tree of 4 or 5 nodes in five languages; nine kinds of configuration with up to 2 edits of their owners; 10 508 worlds of an imported name; the projects of every channel of synthesized calls | `SymbolsBelong`: symbols, calls and types go to the innermost declaration around them; `InstallerInv`, `ForeignSurvives`: an install is complete, an uninstall is clean, and no step loses what is others', through kills, with three exceptions (below); `ImportsInv`: the symbol found is the one the modules mean; `CallsMeet`: a synthesized call joins what registers, emits or renders with what is called, within the caps |
| `context` | every graph of a family over 9 symbols of 3 files, tasks of up to 4 words; the pages over 2 branches with 3 acts of the user and 2 calls in flight when one begins | `ContextInv`: budgets kept, entry points not lost without need; `CallPathsAreFlows`: the call paths shown are maximal flows between entry points; `ToolsInv`: lookups answer for the symbol asked for, traces are shortest, the source shown keeps its budget without crowding out the entry points; `PagesShow`: the panorama's picture is what was asked for last in every order of answers, the rest of the pages as long as no answer was overtaken; `SpinnersEnd`: a page waits only for calls in flight |

Why the bounds are enough:

- *Election.* The hazards need a dead holder, one candidate that clears and one
  that overtakes it, and a third party that dials: three candidates, two kills,
  two attempts. The code retries a takeover 5 times and probes 60 times; more
  retries repeat the same steps. Symmetry permutes the candidates of one
  version and the launchers, in the safety run only.
- *Engine.* Two calls are the one whose question or open is under way and the one that
  arrives meanwhile; two sessions, one that leaves while the other is served.
- *Locks.* Two callers make a queue with a barging third call; the server and
  one hook are the two processes that can race on every call of the lock file,
  and the file can be stale by age or by death.
- *Live index.* Files are independent: what is stored, read or pending of one
  file is never looked at for another, except that a scan that finds none
  returns differently, which one file shows. Two edits give the one that is
  read and the one that is missed. The theorems hold for any number.
- *Parse worker.* Three files with recycling after two requests make a worker
  end while a file is parsed by its successor; every pass meets every kind.
- *Resolution.* Three files give a reference, the better and the worse target; one edit
  moves a symbol, a batch of two cuts the rows of one file.
- *Snapshots.* Three builds are the one awaited and one abandoned by each of
  the two tries, and two requests are one that builds and one that joins.
- *Project.* Two processes are one that creates, fills or reads a database and one that forces,
  removes or unlocks it meanwhile; two directories are the one asked for and the one
  found above it. Commands are not bounded.
- *Pages.* Three acts are a choice, a second one while the first is loading, and a way back.
- *Jobs.* Two jobs are a job and the one that replaces it or shares its login;
  two sections and two formats give a kill between two files.
- *Graphs.* Two symbols under one name give moved, hidden and merged nodes; a
  chain of two followed edges makes the walk take a second step, an edge that
  is not followed stops it. The ten edges of the walks hold cycles of calls, imports and inheritance,
  two paths of different lengths between the same nodes, and members whose
  users are found only through their container.
- *Texts.* Four nodes are a declaration in a declaration with a call in it, and
  five a type around both. TypeScript's five-node trees are those whose
  file-level declarations begin among the first three nodes; the others
  only repeat a four-node tree behind another declaration. Two edits are one by
  the owner and one by a program that rewrites the file.
- *Context.* Three files make a file the budget leaves out, nine symbols fill
  every budget, which the configuration makes small.

### Fairness

- *Election*: a running candidate and a running launcher take their next step,
  as the operating system's scheduler sees to; a client of a daemon that closes
  hangs up, since the daemon destroys its sockets. Nobody is obliged to
  signal, to kill or to hang up on a daemon that serves.
- *Engine*: timers fire, an open settles, a continuation runs. Clients owe
  nothing, not even an answer to roots/list.
- *Locks*: a woken caller resumes (a resolved promise is in the microtask
  queue), a holder gets on with its work and releases (`finally`), a process
  takes its next step unless it is killed. New calls and `close` are not fair.
- *Live index*: timers and file events fire and operations go on. The watcher's
  syncs that are tried again and again meet a free lock in the end and do
  not fail for ever; without that `PendingServed` cannot hold. Editors, kills
  and other processes' operations are not fair.
- *Parse worker*: the main thread goes on, timers fire and events are delivered; a
  thread owes nothing, it may hang or never end.
- *Resolution*: an operation goes on while its process lives.
- *Jobs*: every await of a job ends, since snapshots and model calls have
  timeouts; pages poll on a timer and the reply that ends the polling arrives.
  Users, kills and restarts are not fair.
- *Snapshots*: the only assumption is that an armed timer fires. A build may
  hang for ever.

### Where the code departs from what it says

The modules keep the properties that do not hold, as definitions no configuration
lists: added to the named run as an `INVARIANT` (`QuietIsFresh`, `OwnsSocketWhileServing`, ...) they give the
counterexample told here.

- `OwnsSocketWhileServing` (`DaemonElection`): `stop()` removes the pidfile first and the
  socket path last (`src/mcp/daemon.ts:201`). A successor elected in between binds the
  path, and the old daemon unlinks the successor's socket: it holds the lock and can
  be dialled by nobody until it exits on idle.
- `SingleWriter` (`GraphWriters`): `indexFiles` returns the orchestrator's promise from
  inside `try/finally` without awaiting it (`src/index.ts:401`); the lock file is released
  before anything is written, and another process writes beside it.
- `QuietIsFresh` (`LiveIndex`): the batch reader of `indexAll` reads the content and then the
  stat (`src/extraction/index.ts:843`). A file edited in between is recorded with the old hash
  under the new stat, the next sync takes it for unchanged and clears its pending entry: a
  stale answer that nothing announces. `SyncNeverMisdates` shows that only `indexAll` does this.
- `NoRaceOnWorktree` (`Snapshots`): after a timeout the retry builds at the path where the
  abandoned build is still running (`packages/codedelta-snapshot-manager/src/index.ts:157`). If
  that one creates its graph first, the retry is refused and the fallback's snapshot is cached for good.
- `SubtypesAreFound` (`Traversal`): `getTypeHierarchy` hands the visited set of the walk up to the
  walk down (`src/graph/traversal.ts:375`), which returns at once: descendants are never
  found. `HierarchyIsShown` (`Context`) is the same seen from `findRelevantContext`
  (`src/context/index.ts:822`), whose second pass adds nothing.
- `SyncedIsFresh` (`Resolution`): sync resolves the references of the files it indexed
  only. The edges of an unchanged caller into a re-indexed file are deleted with
  its nodes (`src/db/queries.ts:1203`) and not made again (`src/index.ts:436`).
- `EdgesAreShown` (`Panorama`): a delta in which only edges changed gives an empty delta
  view, since `filterDeltaRelevant` starts from changed nodes only
  (`packages/codedelta-graph-subgraph/src/index.ts:36`).

Weaknesses that are premises of properties that hold: an unlink of the pidfile can
overtake its own read (`~overtaken`), a lock file can be taken from a live owner, by
the catch block of `acquire` or after two minutes (`~robbed`), an exit of an old
worker fails the request of its successor (`foreign`), and a default project opened
by a call while the engine opens it stays unwatched (`raced`).

Of an export: `manifest.json` is written twice, the second time with its own size
(`packages/codedelta-server/src/services/training.ts:481`, `:488`). If the `stat` or the second
write fails the job ends as `error`, and once it is evicted or the server restarts,
`getTrainingStatus` finds the first manifest and answers `ready`: `OutcomeStands` excepts
exactly that (`~sized`).

Of the installer: `ForeignSurvives` excepts two steps and some layouts. `readJsonFile` ignores
that the copy to the backup fails and the file is then written over
(`src/installer/targets/shared.ts:61`), against its own comment (`:45`); hooks are not renamed
into place, so a kill within the write leaves one empty (`src/sync/git-hooks.ts:153`, `:188`),
against the comment that "any user-authored hook content is preserved" (`:117`); and an array of
tables behind our TOML table, a top-level `key: value` behind one of the two keys of Hermes's
YAML, or a header of level one behind an unmarked section of `CLAUDE.md` is taken for a part of
it (`Recognised`).

Of the pages: late answers of the delta, timeline, training and wiki pages overwrite newer
ones, since nothing but an unmounted effect guards them; the panorama keeps its spinner after Back
or Forward while it loads (`apps/web/src/pages/PanoramaPage.tsx:237`); going back to the delta's overview
asks for the old root again (`popped.root || undefined`, `DeltaViewPage.tsx:287`); a late failing probe
unmounts a ready application (`ServerBootGate.tsx:57`). Of the command line: a database whose
init was killed before its version row counts as initialized, and every open refuses it
(`cut` in `ProjectInv`); of two processes that open an old database one fails; `index --force`
clears before it asks for the lock; `uninit` removes the lock under a running command; a refused sync
reports that nothing has changed. Of the synthesizer: events beyond the fan-out cap lose every edge,
and of several C++ bases with one method the last is kept.

Others met while modelling, which no property is about: a direct server's
`process.exit` runs before `engine.stop()` (`rl.close()` emits `close` synchronously);
`findAllSymbols` answers a wrong qualifier with another symbol of the name; the list of
files `codegraph_explore` has not shown is shifted by a skipped file; `path:` and `name:`
filters apply after the trim to the limit; the trim of direct neighbours extends
transitively in edge order; a failed wiki job shows as "absent" and `TrainingDataPage`
polls an absent export without end.

## 4. How the properties are tried

Every property of a passing run is known to fail for a plausible mistake in the
code: a dropped guard, a swapped order, an off-by-one. The mistakes are the operators
with a suffix (`AfterFailedProbe_OneTooMany`, `TakeFileLock_IgnoresRefusal`), and `mutants` in
`PROJECT.json` says which property each of them breaks under its run's
configuration.

## 5. What is proved

The `*Proofs` modules hold theorems that `tlapm` checks to the last leaf. They
hold for all values of the constants that satisfy the assumptions named beside
each `CONSTANTS` declaration, which TLC evaluates on the instances above. The
inductive invariants were model-checked on the runs' instances first, where TLC can evaluate them (`BInv` and `DInv` of
the walks speak of every distance).

- **DaemonElection** (`ElectionAssumption`). `TypeCorrect`: the counters stay in
  range because a process that may still count has retries left. `ElectionIsSafe`,
  `PidfileNamesElected` and `AtMostOneElected`: the invariant `ElectionInv` says that an elected daemon
  is the one the pidfile names, that a candidate about to unlink has read a
  process that is dead, and that no file names a process that never ran. The
  second part keeps the first: an unlink of a file that still reads as before
  removes a dead process's name; if it reads otherwise, it is overtaken.
  `DaemonStaysShared` adds `ShareInv`: an attached launcher's peer was elected and has
  not gone while the launcher is its client, and a pidfile or socket is always
  somebody's who has yet to remove it or was killed.
- **Engine** (`EngineAssumption`). `ConnectionsHold` and `NoticesHold`. The invariant has five parts: which engine
  states are possible (`ModeInv`), what a session's question to its client implies
  (`SessInv`), where a call may stand and what it holds (`CallInv`), that every
  instance is the default one, cached, or closed (`InstInv`), and that
  after the budget of failures is spent, or before anything was named, nothing is under way
  that could open a second one (`QuietInv`). The delicate part is a call that retries the open
  while the engine's own open is under way: it is excused by `raced` only if both end with an instance.
- **Mutex**. `MutualExclusion` (flag, holder and queue agree), `NoWakeupIsLost`
  (whoever waits, the flag is set or a woken caller is on its way), and
  `ImplementsExclusive`: `Mutex` implements `Exclusive` under
  `owner <- Holder`.
- **FileLock**. `OwnersFile` and `OneHolderUnlessRobbed`: exclusive creation
  admits one owner, and only an unlink by another takes a file away. `ReleasedIsGone`:
  the process that made the file removes it, unless it was killed.
- **GraphWriters** (`WritersAssumption`, in `GraphAccessProofs`). `UsesMutex` and `UsesFileLock` show
  that the composition takes only steps of its parts, so that the theorems about them
  carry over (`ServerMutex`, `WriterOwnsFile`, `ServerIsExclusive`). `OperationsAgree` relates an
  operation's stage with both locks; `OneWriterAtATime` and `LocksHold` follow.
- **Traversal** (`WalksAssumption`, in `GraphAccessProofs`). `WalksHold`: for every finite graph, every question,
  depth and limit, and every order of the edges. The reference definitions
  are recursive functions of the distance; that they unfold, grow and end in the least closed set
  (`WithinUnfolds`, `WithMembersLeast`, `ClosedContains`) is proved first, by induction over a set of numbers. `TInv` types the state. `BInv`,
  of the breadth-first walks: the queue is in the order of its distances, which differ by at most one, all that is nearer than
  the head is visited, the neighbours of what is visited have been met, and in the tree of the
  answer nothing is farther from the start than in the graph. `DInv`, of the depth-first walks: what is found is within
  the depth (`FrameOk`, `Sound`), and where the depth does not bind an edge of a visited node is still to be taken or
  leads to something found (`Complete`); nodes in between may be missed, since a visited node
  is not walked again by a shorter path, and so nothing stronger holds. `CInv`, of the cycles: the frames are a path of imports without
  repetition, and until a cycle is reported what a finished file imports was finished before it.
  The premise `~Limited` stays: a walk that stops at its limit may miss anything.
- **IndexStore** (`StoreAssumption`). `RecordsAgree`: the row is written last, so
  a cut store leaves nodes without a row and never a row without nodes.
  `SyncDatesRight` needs `StatInv`: no stat is newer than the last edit, and
  what is to be stored under the stat of the file on disk is its content.
- **LiveIndex** (`LiveAssumption`). `LiveIndexIsStore`: the composition implements `IndexStore`, and
  the two theorems above hold of it (`LiveRecordsAgree`, `LiveSyncDatesRight`).
  `LiveStaleIsFlagged` is about edits the watcher has not heard of yet. Its invariant
  `FlagInv` splits the flags by whether the watcher's running sync will clear them
  (`Noted`: an event on the way, or an entry newer than the sync) and says that the sync,
  past its scan, has every stale file before it or noted (`SyncCovers`), and that what was
  read of the current file is its content still, or an edit is noted (`ReadFresh`): what an exception or a kill then leaves
  stale was stale before.
- **ParseWorker** (`ParseAssumption`). `ParseHolds`. `FileInv` follows each file through the passes: where it waits
  (`WaitInv`), that everything not waiting has ended (`SweepInv`), the counters
  (`CountInv`), what the retries may hold (`RetryInv`), who may be lost (`LossInv`) and
  what may be stored (`StoredInv`). `PoolInv` is about the threads: a thread's unread
  events belong to its own requests, the current one has been given exactly what is
  counted (`Good`, `UseInv`). As long as no exit was foreign, a file fails only by its own doing.
- **Jobs**, **Credentials** (`PlanAssumption`). `JobsHold`, `OutcomesStand`, `TokenStays`: the
  marker is written last and removed first (`WikiInv`), a manifest stands only where every artifact does and no
  job runs, the sized one only where none failed (`ExportInv`), a job owns its
  directory from its first file on (`Begun`), a reply on its way to a page is still true when it arrives
  (`ReplyInv`); each borrower's token was the service's when it was read, and the
  service's token is in the file or with a borrower that will write it (`BorrowInv`, `TokenInv`).
- **Snapshots**. `SnapshotsHold` with `TypeCorrect`, `WholeInCache`, `SameForAll` from the invariant
  `IInv`. Its core is `Flying`: while a build is awaited its checkout stands, nothing
  is cached and it has lost no file, in whatever state the abandoned builds are.
  `NoneServed` (nobody was answered before the cache was written) gives `OneSnapshot`.
- **Project** (`ProjectAssumption`, in `SnapshotsProofs`). `ProjectHolds`. What a command knows of the database it
  has open (`ProcOK`: its directory shows it, its schema is at the command's stage, its lock is its
  own, what it has written is there) survives the steps of others, because these only add versions,
  columns and rows, or leave a mark on the command (`Kept`). `Shape` is what the version rows
  tell of the columns; `OneCreates` that one init at a time is past the version row; `Made` that
  a database which no open accepts belongs to an init that runs or was killed.
  `QuestionsHold` (`QuestionsAssumption`) is about the questions of the command line, for any finite index, any depth
  and any matches. The walk of `affected` has the loop invariant of a breadth-first search: the queue is in the order
  of its distances, which differ by at most one, what is visited lies within the head's distance, and all that
  lies within it is visited or queued. That the reference definition, a recursive function of the distance,
  grows with it and is complete needs induction; the same holds for the list `callers` gathers match by match.
- **Resolution** (`ResolutionAssumption`, in `GraphProofs`): any finite set of files, any contents, names and batch
  size, any order of operations, edits and kills. `EdgesHold`: `EdgesIInv`, the part of `EdgesInv` about the tables, is
  inductive with `RowsAreOwed` (a reference has a row or an edge, not both), without which
  the next batch could make an edge twice. Which symbol a strategy returns is reduced to `Fits`, what every strategy
  asks of it at the least; that an edge's target is the *best* match holds only right after it
  was made, as later files may bring a better one. `MatchInv`, about the ranking, needs no
  induction. `OperationsHold` adds `ResolveIInv`: the caches are accurate from when an operation clears
  them (`CachesAreAccurate`), which `indexFiles` leaves undone and so `resolveReferences` does not have; a file of a
  sync has all its rows and no edge, or exactly its edges (`SyncOwes`); a batch is the first rows in the order of
  their lines (`BatchIsPrefix`, `RowsInOrder`), so a row deleted with its namesake comes after the line that
  got the edge (`ScratchOwes`); what stays behind a batch without a match is what `LeftBehind` counts.
- **Compare** (`CompareAssumption`, in `GraphProofs`). `AffectedIsLeast` from the loop invariant of
  the walk: the changes are affected (`Seeded`), an affected id is queued or its
  neighbours are affected (`Frontier`), and every closed set around the changes
  contains the affected ids (`Contained`). `ListsReplay`, `NothingElseChanged` and `ComparisonHolds`
  follow from the definition of the lists, `NothingElseChanged` with `Seeded`.

Only model-checked: liveness (no prover here reasons about fairness), and most of what rests on
recursion over data: the walk of `Panorama`, `Extractor` and `ImportResolver` (a tree and
a search stack, in modules with RECURSIVE operators or folds), `Search`, `Context` and `Tools` (folds over
ranked lists) and `Synthesizer` (folds over channels). The library's induction theorems
take an operator as a parameter, which these provers cannot instantiate. The way round it is an induction
over a *set* of numbers (`NatInd`, from the well-foundedness of < on Nat), by which `QuestionsHold` and `WalksHold`
unfold recursive functions; folds are defined by a CHOOSE over functions on
finite sets and stay out of reach. For the same reason `Resolution` keeps rows with its own `Picked`
and not with `SelectSeq`. `Installer` is a finite table of edits of which TLC
covers every case but the length of the file. `Pages` is checked for its one
session, its state being a record of another shape on every page.

## 6. What is not modelled

`PROJECT.json` lists every component with its reason. In short: grammars,
scores, summaries, prompts and page layout
are sequential functions whose results no rule of the code decides;
the terminal interface prints. The framework
resolvers and the extractors of formats without a grammar are text patterns.

One hazard has no property: `indexFiles` unprotected (`SingleWriter` above).

## 7. Plan

The state machines are modelled and their safety is proved, that of the processes, threads,
stores and tables for every instance. To do next: the framework resolvers and import paths as further strategies of
`Resolution` (`Fits` is all that its proofs ask of one), `PictureIsWhole` of `Panorama` by the lemmas about the walks
(its call trees are breadth-first walks with a budget), and the pages one at a time, each with
a state of one shape, so that `PagesShow` can be proved.

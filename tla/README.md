# facts-tool: a TLA+ verification project

The repository teaches Clang LibTooling (`docs/`, `legacy/`, four small sample
tools under `skeletons/`) and contains one large program,
`skeletons/facts-tool`: it extracts facts about C++ code into SQLite databases,
analyses them, and serves them over HTTP. This directory models that program:
its server, the databases that its commands share, and the analyses. Paths below
are relative to `src/skeletons/facts-tool/src` unless they say otherwise.
`PROJECT.json` maps each definition to the lines that it stands for.

## 1. Inventory

| Component | State | Hard because | Correct when |
|---|---|---|---|
| Compatibility job queue (`apis/jobs/Queue*`) | records, order, pending queue, active process, pause, stop | posted pumps, five ways to end a job, eviction | jobs run one at a time in order, each ends once and is reported once, no limit loses one |
| Child process (`apis/jobs/Process*`, `Spawn`) | pid, two pipes, four timers, flags | expired timers that cannot be cancelled, descendants that hold pipes or outlive the child | one result, after the child is reaped; output that was cut is marked |
| Native runtime (`apis/runtime`) | native jobs, work queue, worker, index status, reads | a worker that posts back, pause and busy polling, coalesced refreshes | never writes while a compatibility job runs, loses no job and no refresh, shuts down |
| Server assembly (`apis/Server.cpp`) | the components above | order of the shutdown | drains before it stops |
| Repository watcher (`apis/watch`) | watches, buffered events, timers, scanner thread, snapshot, cycle, checkpoint | two threads, events during scans, directories that go, restarts | follows every change it can be told of; the checkpoint never lies |
| Symbol index (`apis/index`) | copies with fingerprints, published rows, generation | facts change while they are copied, catalog edits hide rows, clients page | the index equals its sources; a client sees one generation |
| Log, daemon (`apis/logging`, `apis/daemon`) | bounded queue, drop count; lock, PID file, readiness pipe | bound, stop, fork, kills | nothing dropped uncounted; one server |
| Incremental extraction (`commands/Extract*`, `storage/FileIndexState`) | index state in another database than the facts | two databases, crashes in between, shared headers, overlapping runs | a skipped source has current facts |
| Project database and paired facts (`storage/File*`, `FactProvenance`, `catalog`) | rows of repositories, components and files; provenance in every facts database | row ids are reused, checkouts are switched | an accepted pair means the same files |
| Stored compile commands (`tooling/ProjectImport`, `CompilationCommandCodec`) | commands in terms of components | several checkouts, links | another checkout builds the same |
| Schema migration (`storage/*Migration`, `Schema.h`) | fourteen versions of facts, two of projects | two transactions, processes killed, old versions | an upgrade is whole or not there |
| Fact extraction and storage (`ast`, `storage/FactStore`, `Symbol*`) | symbols, relations, sites, entries | order of units, stale definitions, placeholders | the facts are the sources' |
| Call graphs (`analysis/callgraph`, `commands/analyse`) | stored entries, budgets, attempts | bounded loops over changing inputs, receivers of virtual calls | complete, or marked incomplete |
| Variable flow (`analysis/variableflow`) | a worklist | references, recursion, depth limits | every flow of an execution is in it |
| AST cache (`tooling/astcache`) | artifacts, rows, commits | shared by processes, files change while they are parsed | a hit hides no commit |
| Drivers, discovery, includes (`tooling/platform`, `CompilationFiles`, `commands/Dependency`) | probe answers, files, edges | compilers are replaced, links form cycles, entries vanish | the driver's own answer; the files and includes that are there |
| HTTP, configuration, version 2 operations, matching, CLI, Python SDK, tutorials | per request | little concurrency | not modelled, see section 7 |

All handlers of the server run on one thread (the `io_context`); the worker
(`runtime`), its readers, the scanner (`watch`) and the log have threads of
their own and talk to it by posting. A model step is one handler, or one piece
of work of another thread between two things that the handlers can see. Commands
of the tool are processes that meet only in files and databases; there a step is
one transaction, or one read between two of them.

## 2. Modules

| Modules | What they are |
|---|---|
| `JobService` <- `JobQueue` | the queue, and what it promises its clients |
| `JobProcess` <- `ChildProcess` | one child process, and what the queue relies on |
| `Runtime` | extends `JobQueue` with the native runtime and the shutdown |
| `Watcher` | one watcher, its scanner, its checkpoint, and what it watches |
| `SymbolIndex` | refreshes, extractions, catalog edits, and clients that page |
| `EventLog`, `Daemon` | the server's log; processes that want to be the server |
| `ExtractIndex` | incremental extraction over the facts and the project database |
| `ProjectFacts` | the catalog, its reused ids, and the facts paired with it |
| `StoredCommands` | import, normalisation, switch of the checkout, and reading back |
| `Migration` | every step of both schema migrations |
| `FactStore` | the transaction in which a run replaces the facts of its sources |
| `AstFacts` | what the three traversals of each unit store, unit by unit |
| `CallDispatch`, `CallSearch`, `CallGraphRecovery` | virtual calls from body to search; the searches with budgets; `--recover-missing` |
| `VariableFlow` | variable-flow, next to an execution of the program |
| `AstCache`, `DriverProbe` | an entry of the cache of parsed units; answers of GNU drivers |
| `SourceDiscovery`, `IncludeGraph` | the walk through directories; the edges that an analysis stores |
| `NoValue` | the constant `None` that the models of the databases share |
| `*Proofs` | the theorems: `JobQueue`, `Runtime`, `ChildProcess`, `Watcher`, `Server` (log and daemon), `Project` (extraction, paired facts, migration, facts), `Analysis` (AST cache, recovery and search of call graphs, driver probing, source discovery, include graph), `Index` (symbol index) |
| `MC*` | values of the constants for TLC, and the compositions below |

`MCJobs`, `MCServer`, `MCProject` and `MCAnalysis` each extend several components
that have no variable in common. A variable `part` chooses the one that moves
while the others rest, so that such a run explores the sum of the components'
states and not their product. Components that do interact are composed in
earnest: `Runtime` extends `JobQueue`, `ChildProcess` refines what `JobQueue` assumes
of a process, `IncludeGraph` takes its files from what `SourceDiscovery` finds.

    JobService  <=  JobQueue  <-  Runtime          <=  is implemented by
                       |                           <-  is extended by
    JobProcess  <=  ChildProcess

**JobQueue.** `state` is the `state` field of each record, with "absent" before
submission and "forgotten" after eviction; `order` and `pending` are the deques;
`pumpPosted` stands for all posted calls of `pump` (the proof of `WakeupPosted`
shows that one flag is exact); `reports` counts callbacks. `process` is the phase
of the active child. `Submit` is `submit` with both limits and the eviction.

**ChildProcess.** A timer is "off", "armed", "due" (expired, its handler queued:
asio's `cancel` no longer reaches it) or "both". `got`, `sent`, `closed`,
`truncated` describe each pipe; `child` and `family` the processes. `autoReap`
says that the server inherited an ignored SIGCHLD, in which case `waitpid` never
finds a child. `strays`, `terminated` and `results` are history variables.

**Runtime.** `work` is the deque of tasks, `task` the one the worker has and `phase`
how far it is, `inbox` what the worker has posted, in order. `Pumped` is `pump`,
which every handler that enqueues or completes calls within its own step. `owed`
and `fresh` are history: does a job whose end asked for a refresh leave facts that
none has read? `LegacyEnds` is the end of a compatibility job of which the observer
asks nothing, whatever it wrote and however it ended; `LegacySucceeds` the one after
which it refreshes.

**Watcher.** `boot` splits `start()` where the directory was scanned and is not yet
watched; `scan` is the scanner thread, from the catalog to the plan to the posted
result. `Halt` is a stop followed by a new watcher, for new settings (the old job
stays in the queue, `leftover`) or in a new process. Contents are numbers that
edits make larger; an edit back to an earlier content is abstracted away.

**SymbolIndex.** `job` is a refresh, which holds the write lock from `BeginRefresh` to
`Commit`: it looks at the fingerprint of each source, copies it, and confirms the
fingerprint. `stamp` is the fingerprint of the files on disk. `settled` is history.

**EventLog, Daemon.** The log's queue, the record that the worker holds, the count
of dropped ones and the file. A daemon's lock belongs to an open file that a
forked child shares with its parent.

**ExtractIndex.** `extraction[p]` is a run: its closures (`Discover`), what it observed
and found stale (`Partition`), what it parsed (`Parse`), then the commit of the
facts and the record in the project database, which share no transaction. Contents
and commands are numbers that every change makes larger, so that a modification
time is the content it belongs to. The AST cache is off here.

**ProjectFacts.** Rows get the highest id plus one, so that an id is given out
again once its row is gone. `Write` is an extraction's commit with the clone refresh,
the registration of its files and the check of the pair; `ReadAccepts` and
`WriteAccepts` are `validateFactsProvenance`.

**Migration.** A transaction is a record of file, step and private copy; `FactSteps`
is the table of steps of `migrateFactsSchema`, in its order; the project has two
transactions with a gap between them.

**StoredCommands.** A path is a base and a component; links lead from one checkout
into another; import, switch and reading are actions, the codec is operators.

**FactStore and AstFacts.** `FactStore` has the transaction with its sources that
change while it runs; `AstFacts` has the traversals of declarations, bodies and call
graph over a small program with templates, lambdas, overrides and system headers.

**Call graphs.** `CallSearch` runs the four searches step by step over every small
graph; `CallDispatch` follows the class of a receiver through extraction, stored row
and search; `CallGraphRecovery` repeats traversal, scan and extraction.

**VariableFlow.** The worklist, the expansion of calls, effects through references,
reaching definitions and the stored graph, next to an interpreter of the program.

**AstCache, DriverProbe, SourceDiscovery, IncludeGraph.** Several processes use,
prepare, store and clear one entry while people edit and commit; two processes ask
drivers under names that links lead to other executables; directories are read in
any order while an entry vanishes; edges of visited files are replaced.

## 3. Runs

| Run | Properties | Shows |
|---|---|---|
| `jobs` | `NoOrphan`, `ReportedOnce`, `WakeupPosted`, `RoomForRecords`, `Implements`, `EveryJobEnds`; `NothingLeft`, `HonestOutput`, `ChildImplements` | the queue keeps the promise of `JobService` and every job ends; every race of reads, timers and cancellation of a child gives one result and leaves nothing behind |
| `server` | `MutualExclusion`, `NoLostRefresh`, `NativeNoOrphan`, `ShutdownClean`; `IndexServesFacts`; `LogAccounts`; `OneHonestServer` | the two queues exclude each other and lose neither jobs nor refreshes that were asked for; the index is the facts' and is read as of one moment; log and daemon |
| `runtime_live` | `JobsOfBothQueuesEnd`, `ShutdownCompletes` | neither queue waits for the other for ever; a shutdown completes |
| `watcher` | `NeverBlind`, `SettledIsCurrent`, `CheckpointHonest`, `CatchesUp` | no change is forgotten, a settled watcher has current facts, a checkpoint never vouches for stale ones, and cycles come to rest |
| `project` | `SkippedIsCurrent`, `ExtractionAdvances`; `PairedIdentity`, `CommittedPairAgrees`; `UpgradesWhole`, `ReadersFindCurrent`; `FactsAgree`, `IdsNeverReused`; `StoredBuildKept`; `FactsAreTheSources` | facts that a reader accepts belong to the files that he sees, an upgrade is whole, an extraction skips only what is current, and stored facts and commands mean what the sources say |
| `analysis` | `SearchHonest`, `NoOverrideDropped`, `RecoveryHonest`; `FlowSound`; `ProbedAsAnswered`; `FoundInAnyOrder`, `GraphOfPresentTexts`; `NoCommitMissed` | what the tools derive from facts and sources is complete or says that it is not, whatever changes meanwhile |
| `child_cancel_drain`, `watcher_blind`, `watcher_resume`, `extract_shared`, `dispatch_dropped`, `calls_lost` | one property each | **violated**, see section 6 |

Type invariants are not run: those of the modules of section 4 are proved.

Bounds, and why they are enough:

- *queue*: 2 pending, 4 retained, 6 submissions. The retention limit exceeds the
  pending limit by two (as 128 exceeds 64), so the queue can be full with and
  without a record to evict, with a job active, and records are evicted twice.
- *child*: both pipes, a limit of one unit and two written: a stream can be complete,
  cut by the limit and cut by a timer; one descendant group.
- *runtime*: two native jobs of any kind, two compatibility jobs, one catalog call,
  one read, a work queue of one and one retained record, so that a cancelled job can
  be evicted before its task is dropped. `runtime_live` has one compatibility job.
  `EveryWriterOwes` is FALSE: a job owes the index a refresh when its end asks for
  one, not whenever it wrote (section 6).
- *watcher*: two edits, one move or reconcile request, one failure, one stop, a buffer
  of one event. Each race needs at most two edits: one that starts a scan and one
  that overtakes it.
- *index*: two databases, three files in two repositories, two symbols whose names sort
  against the order of their rows, one write of facts and two edits of the catalog.
  `RemovesWhileRead` is FALSE: a removal by the command line, which counts no
  revision, while a client pages makes it lose rows (section 6).
- *log, daemon*: a queue of 2 for 5 records; three launches and two kills.
- *extraction*: two sources that share a header and one private header, two overlapping
  runs into one database, two edits and one crash. `MidRun` is FALSE: stored commands
  do not change under a run.
- *catalog*: two checkouts with two files each, two rows per table so that ids are
  reused, five commands. `MayOverlap` is FALSE: no catalog command under a writer.
- *migration*: two processes, every version of the facts and every layout of the
  project, three file ids of which one is beyond what a symbol can hold.
- *facts*: two units and a header, three functions, two edits, three refreshes.
- *commands*: two checkouts of one repository with a link into the first, a second
  repository, three imports.
- *call graphs*: every graph of up to three edges on four nodes; for dispatch three
  classes in one unit. `OneUnit`, `SharedTargets`, `OtherObjects` exclude the known losses
  of overrides (section 6). Recovery has one edit and two units.
- *variable flow*: a loop with dead code, nested references, a detour, recursion and a
  diamond; each for every variable of main and depths none, 0, 1 and 2. Once it was
  also checked on all programs of three statements (985 000 states).
- *AST cache*: three repositories that are edited once each, two processes with two
  operations and one, kills anywhere; commits only grow.
- *drivers*: two processes with different environments, one replacement, one damage,
  a memory of one answer. `SwitchedWhileProbing` is FALSE (section 6).
- *discovery and includes*: nine directories and one that cannot be read, links up,
  outside and to an alias, one entry that vanishes (`LinksVanish` is FALSE: not a
  link), three texts, two analyses, one at a time.

`CHECK_DEADLOCK FALSE` is set where the system stops by design: a process that
ended, a server that shut down, edits that are used up.

Fairness is weak everywhere, and never on a client, an editor, a stop or a child:
asio runs posted handlers and expires timers, the worker, the readers and the
scanner proceed, and a child process ends. The last is what `ChildProcess` shows
from fairness of timers and pipes alone (`ChildImplements`): poll timer, deadline,
kill timer and drain timer.

In `watcher` the constant `Disturbed` is FALSE: the clone does not change between
the moment a scan has read it and the moment its directory is watched. With TRUE
two properties fail, which are findings (`watcher_blind`, `watcher_resume`).
Edits while the directory is watched and a scan, a cycle or a checkpoint is under
way may happen at any time.

## 4. Proofs

TLAPS proves the following for all values of the constants that satisfy the
named assumptions of the modules (limits are positive and the retention limit
exceeds the pending limit by at least two, ids are naturals, `None` is none of
them, an include table has a set of headers for every content of a source, a facts
database has finitely many rows, functions are finitely many and each is read by some
unit, a path is a non-empty sequence of names whose parent is a directory or "/",
links lead to directories or files, and a compilation database has for a path the
commands registered under it, or else those of the file, as
`StoredCompilationDatabase.cpp:22` answers). The assumptions stand next to the
constants, and TLC evaluates each of them in a run. `AstCache` gives a working tree two versions, `TreeVersions`; everything else
is arbitrary: processes, repositories, databases, files, symbols, edits, crashes.

| Theorem | States |
|---|---|
| `JobQueueProofs!TypeCorrect`, `NoJobOrphaned`, `EndsReportedOnce`, `NoLostWakeup`, `RoomAlways` | `TypeOK`, `NoOrphan`, `ReportedOnce`, `WakeupPosted`, `RoomForRecords` (the refusal "retention_capacity" is unreachable) |
| `JobQueueProofs!ServiceImplemented` | `Spec => Implements`: the queue implements `JobService` |
| `RuntimeProofs!QueuesExclude`, `NativeJobsKept`, `NothingLeftAtHalt` | `MutualExclusion`, `NativeNoOrphan`, `ShutdownClean` |
| `RuntimeProofs!NoRefreshLost` | `NoLostRefresh`, under `~EveryWriterOwes`: a refresh that the end of a job asked for still comes |
| `RuntimeProofs!QueueInServer` | the queue's invariants still hold inside the server, where the runtime pauses it |
| `ChildProcessProofs!NothingIsLeft`, `OutputIsHonest` | `NothingLeft`, `HonestOutput` |
| `ChildProcessProofs!PhasesImplemented` | every step is a step of `JobProcess` or none: the safety part of `ChildImplements` |
| `WatcherProofs!WatcherSees`, `SettledMeansCurrent`, `CheckpointVouches` | `NeverBlind`, `SettledIsCurrent`, `CheckpointHonest`, under `~Disturbed` |
| `ServerProofs!OneServer`, `LogIsComplete` | `OneHonestServer`, `LogAccounts` |
| `ProjectProofs!ExtractionGoesForward` | `ExtractionAdvances`, without a hypothesis |
| `ProjectProofs!SkippedMeansCurrent` | `SkippedIsCurrent`, under `Undivided` |
| `ProjectProofs!PairsNameTheirFiles`, `PairsStayAccepted` | `PairedIdentity`, `CommittedPairAgrees`, under `~MayOverlap` |
| `ProjectProofs!UpgradesAreWhole`, `CurrentIsComplete` | `UpgradesWhole`, `ReadersFindCurrent` |
| `ProjectProofs!CommittedFactsAgree`, `SymbolIdsStay` | `FactsAgree`, `IdsNeverReused`, without a hypothesis |
| `AnalysisProofs!CacheMissesNoCommit` | `NoCommitMissed` |
| `AnalysisProofs!RecoveryIsHonest` | `RecoveryHonest`: fresh bodies, and no more rounds than functions |
| `AnalysisProofs!DriversAnswerAsMeant` | `AnswersAreMeant`: a configured command has what its driver answered when it was identified, under `~SwitchedWhileProbing` |
| `AnalysisProofs!DriversConfigured` | `ProbedAsAnswered`, under `~SwitchedWhileProbing` |
| `AnalysisProofs!SearchFindsAll` | `FindsAll`, for searches of callees and callers: the calls of a complete result are exactly those of the least set closed under calls from the roots; what only the depth limit kept out lies behind the frontier |
| `AnalysisProofs!SearchIsHonest` | `SearchHonest`, for all four modes; paths start at one function, and shortest paths are those of calls without receivers (`PathQueryOK`) |
| `AnalysisProofs!DiscoveryFindsAll` | `FoundInAnyOrder`, under `~LinksVanish` |
| `AnalysisProofs!GraphFollowsTheTexts` | `GraphOfPresentTexts`, without a hypothesis |
| `IndexProofs!IndexIsTheFacts` | `IndexIsCurrent`, the half of `IndexServesFacts` about what is published, without a hypothesis |
| `IndexProofs!IndexServesReaders` | `IndexServesFacts`, under `~RemovesWhileRead` |

*The queue.* `IInv` is the conjunction of the four invariants and `Bookkeeping`:
both deques hold increasing ids, ids are given out in order, `order` lists exactly
the retained records, the limits hold, and a stopped queue is empty. None of the
four is inductive: `NoOrphan` needs that the pending queue has no id twice, which
follows from its order; `ReportedOnce` needs that a job ends in one place only; the
refinement needs that the head of the pending queue is the oldest queued job. One
lemma per action shows that the action keeps `IInv` (`...Inv`), and one that it is
a step of `JobService` or none (`...Refines`). `RoomAlways` follows by counting.

*The two queues.* `MutualExclusion` is not inductive, since the compatibility queue
starts a job whenever it is not paused. `ExclusionInv` adds that the pause lasts as
long as the worker has a task, except after a shutdown. `QueueInServer` cannot cite the
theorems of `JobQueueProofs`, whose specification never pauses for the runtime: it
reuses their lemmas action by action. `RuntimeInv` then says where every native job
that has not ended is found (work queue, worker, inbox), which refresh is
the one that pending stands for, and that whatever is owed to the index is owed to a
task that waits, runs or is still to be posted (unless `EveryWriterOwes`); `PumpedFacts` describes `pump` once
for all handlers that call it.

*The child.* `ChildInv` adds what the handlers rely on without testing it: `exited`
tells exactly that the child was waited for; a group that was sent SIGTERM was
cancelled or timed out, so that reaping kills the rest of it; until the result is
delivered a stream is closed only by its end.

*The watcher.* Contents only grow. A snapshot is fresh while no file was edited since
it was taken; if the last one is not fresh, somebody still owes a scan: a record in the
kernel, a buffered event, `needsScan`, or the scan under way. `WatcherInv` carries
this through start, cycles, failures and restarts; the checkpoint is then a snapshot
that a finished cycle vouches for. Each of the three theorems needs `~Disturbed`, and
`watcher_blind` and `watcher_resume` are the counterexamples without it.

*Log and daemon.* `DaemonInv` says who holds the lock: exactly the processes that are
alive and past it, all of one invocation. `LogInv` says where a record is that is not
in the file yet: at the worker, in the queue, or in one of the two counts.

*Extraction.* `Forward` (types, lock holders, what was observed and parsed is not newer
than the files, what is stored is not newer than what any later run parses) gives
`ExtractionAdvances` for runs that overlap, fail and crash as they like. `SkipInv`
adds what a run knows: the closure of each source as it was once (`Whole`), rows that
vouch for stored facts (`Vouched`, `Reached`), and that facts made after an edit that a
run has not observed are as new as everything it has observed (`Overtaken`). The
attempt to prove `SkippedIsCurrent` without `Undivided` failed for a good reason:
the property is false when runs extract different sources (finding 4), and also when
runs overlap and an edit makes a source include a header that another source
includes: the slower run marks the header with a closure that did not have it yet, and
the source is skipped although its facts are older. TLC shows this in sixteen steps
on two sources and one header. The instance of the run satisfies the hypothesis:
the header that an edit adds is private to its source.

*Paired facts.* `FactsInv` says that a facts database has, for every file that it knows
symbols of, the provenance those symbols were written under, and that a writer
saw the project as it is (which `~MayOverlap` gives). The id that `GetId` finds rests on
`LeastExists`: a non-empty set of naturals has a least element, from the
well-foundedness of inclusion on finite sets.

*Migration.* `Fits` ties the parts of a store to its version before each of the fifteen
steps, and one lemma per step shows that the next step finds what it needs;
`CreatedIsFresh` closes the list. `UpgradingFacts`, `UpgradingFiles` and `UpgradingSchema`
say how far a transaction has taken its copy, and `OpenersKept` that each database
has one writer. The gap between the two project transactions is harmless because
nothing takes the columns of a registry away.

*Facts of a run.* `StoreInv` says of the committed database and of the copy in the
transaction that they fit (`StoreFits`). Neither property is inductive alone. Ids in
use lie below the next id of their file, and so do those that were ever committed
(`IdsTaken`, `GivenKept`), in whatever order a unit numbers its new symbols. What an
entry promises is kept inside a run because its unit was visited in this run and is
not visited again, also when a definition moves to a unit visited later; and at the
commit because all it calls was declared in this run, so that no call of it is deleted
with an obsolete symbol (`RunFits`). The flag of a definition may be wrong inside a
run, but only in one direction (`DefinitionsMarked`), and the commit sets it.

*AST cache.* The cache has three parts that are replaced one after the other: the
snapshot row, the artifact row and the file. `CacheInv` says of each that it is
`Backed`: the commits recorded with a text are not newer than what the text was read
from, for all repositories that the text came from. A parse keeps `ReadAfterLook`: it
looked at the commit of a repository before it read a file of it, so that what it
records is too old at worst. Whoever validates has looked up commits not older than
its own beginning (`HeldCurrent`), and equal commits then mean a text not older than
those. The lock makes the file that the metadata row describes the one on disk.

*Recovery.* `RecoveryInv` rests on `FreshBodies`, the functions whose stored facts the
sources had at some moment of the run. What a round preserves is fresh; a scan that
is kept has bodies that were there; an attempt that succeeded made what it asked for
fresh, and one without a match asked for what the unit does not define. In a round
without failures everything reached and not fresh is wanted from every unit that
defines it (`WantedAll`), so that a run which ends without an error has only fresh
bodies. The rounds are counted against the preserved functions: a round that extracts
something adds one (`Counted`). That part needs that nobody edits; with edits the
number of rounds is bounded by those of the model only.

*Driver probing.* The key of an answer holds all that the answer depends on (`KeyTellsAll`).
`ProbeInv` says that whatever is kept under a key, in memory or as the digest of a
row, is what the driver of that key answers, so that neither evictions nor damaged
rows nor new builds matter; `load` takes rows for an answer only if they are the
digest. A process that has identified a driver must still meet it when it asks, which
is the hypothesis: TLC refutes the theorem without it. That a source gets its commands
is a matter of positions: what is done, and after it what is left, is the sequence of
selected commands (`Progress`), which has each command once (`SelectedOnce`). The
filters pick the members of a sequence at some positions (`Picked`); what they pick
(`PickedMembers`) follows from what joining the parts of a sequence gives (`Flattened`).
A path has the commands of its name or, if no command of the whole database has that
name, of its file: so what was selected for it cannot be mistaken for what a second
source with the same file selected (`ConfiguredAll`).

*Call graph search.* `SearchInv` speaks of the frames of the recursion. Whatever is
entered must be in every set closed under calls (`Sound`); and unless the search has
stopped, each edge of what is entered is in the result with its far end entered,
without a body or cut by depth, or a frame has still to follow it (`Whole`). At the end
there are no frames, and so what was entered, with the ends of its edges, is the least
closed set, or becomes closed with what lies behind the cuts. A budget or an interruption
ends the claim, and `Truncating` shows that the frontier then says so. Whether a context
was first entered near its root or far from it does not matter. `SearchHonest` computes
the least set in rounds instead of naming it. The rounds suffice because there are no
more contexts than calls times receivers (`ContextsCounted`), and a round that adds
nothing is the last that can (`ReachedIsClosed`).

*Searches for paths.* A simple path is no longer than there are calls, since its later
functions are different ends of calls (`RouteLength`); so the reference, which grows
paths that often, has them all, and is the least set closed under going on by one call
(`RoutesClosed`, `RoutesAreLeast`). `PathInv` has a part for each mode. All simple
paths: each path to the target has been found, or a call that a frame has still to
follow leads to it (`SimpleWhole`, with `Leads` for "is within every set closed from
here"). A shortest path: the search works on a `Level`. The queue is sorted and spans at
most two lengths; what is entered has all its calls met or waits in the frame or in the
queue; no function has a shorter path than the one it waits with; and every shorter path
has been gone on from. So what has not been found when the first path is found is at
least as long, and when the queue runs dry without a path, what was entered is closed
and does not contain the target (`NoneIsLeft`). The `Level` argument uses that a path
which the search drops, because its function was met before, is not needed: with
receivers that is false (section 6), and the theorem says so by its hypothesis.

*Source discovery.* `FoundInAnyOrder` compares the walk with what the disk says at its
end, so the invariant must survive entries that vanish. `WalkGood` speaks of the disk of
the moment: each entry of a visited directory that can be read and is still there is
`Handled` (its file found, its directory visited), or it is `Due`: a pending path leads
to its directory, or its name waits in the directory that is being read. Whatever
vanishes makes the expected inputs fewer (`InputsLess`), and a pending path leads where
it led unless the directory itself is gone (`LeadsStill`); this is where links must
stay, since a pending path through a vanished link would lead nowhere while the
directory is still reachable by another. At the end of a root nothing is `Due`, so the
visited directories are closed, and the reference, a least closed set, is within them
(`LeastIsLeast`). `WalkSound`, that nothing more is found, holds while nothing has
vanished. Where a path leads is a function of its length; what the proofs need of it is
shown by a shortest counterexample.

*Include graph.* `CollectionOK` says that what an analysis has collected are texts of
the files that it visited, each file in one text, closed under the includes that have no
condition, and that a file is registered before an edge names it. `StoredOK` says the
same of what is stored, file by file, in the text that was stored last, so that two
sources that replace the edges of a shared header in turn leave one of its texts. The
property follows since the certain closure is within every set closed under the stored
edges.

*Symbol index.* `PublicationInv` says that a copy with the fingerprint its database has
now is its rows, in the cache and in the refresh under way; that a refresh has taken
every linked source or still has it to do; and that everything published is shown,
so that an edit of the catalog hides at once what it makes obsolete. `IndexIsCurrent`
follows at the commit, and is part of the invariant because it must survive what
leaves the index alone. `ReadingInv` says where a client is in its result while the
revision is still the one it began with, and that a reader has the occurrences of the
databases it is done with while their fingerprints are those it has seen. With
`RemovesWhileRead` the second theorem is false (section 6), since the command
line removes a file without a new revision. What a query with ORDER BY returns is
`InOrder`, a choice; that there is something to choose (`LastExists`, then an
enumeration for every finite set with an order) rests again on the well-foundedness of
inclusion, by a smallest counterexample, as induction is out of reach.

Only model-checked: liveness (`EveryJobEnds`, `JobsOfBothQueuesEnd`,
`ShutdownCompletes`, `CatchesUp`, the fairness part of `ChildImplements`), because the
prover has neither fairness nor ENABLED; `FactsAreTheSources`, whose module uses
RECURSIVE operators; `NoOverrideDropped`,
`FlowSound` and `StoredBuildKept`, which are about what a search or a fold of a
sequence computes: that needs induction over data.

## 5. What each property guards

`PROJECT.json` lists 40 hazards with their lines and the property that would
notice them; two have none and say why. Every property of a passing run has a
mutant: an operator next to the definition it replaces (a dropped test, a forgotten
post, a swapped order), with which TLC finds the property violated.

## 6. Findings

1. A cancellation in the 250 ms in which the output of an exited child is drained
   terminates nothing of its process group (`child_cancel_drain`), although the job is
   still "running" and the API documents process-group termination.
2. `Watcher::Impl::start` overwrites the `needsScan` that `applyScan` set for a
   directory that vanished meanwhile; after a start that reuses the checkpoint it
   is never watched (`watcher_blind`).
3. On such a start, files are fingerprinted before their directories are watched and
   no scan follows; an edit in between is missed (`watcher_resume`).
4. A run that extracts only some of the sources that include an edited header records
   the header as indexed; the others are skipped with older facts (`extract_shared`).
5. Two receivers of exact classes that run one inherited method lose the override of
   one of them, in a result reported as complete (`dispatch_dropped`).
6. The calls that one source's instance of a template makes are deleted when another
   source that includes the template is extracted after it (`calls_lost`).

Seen while modelling, without a run of their own; the constants named keep them out
of the passing runs, and setting them the other way shows them:

- The observer of the compatibility queue asks for a refresh when a job succeeded whose
  first word is extract, match, import or dependency (`apis/runtime/Service.cpp:9`).
  The last is never the first word: the command is `analyse dependency`
  (`cli/CommandLine.cpp:30`, `http/Arguments.cpp:59`). So `analyse dependency`, which
  replaces rows of a facts database and clears files that moved, and
  `analyse call-graph --recover-missing`, which extracts, succeed without a refresh, and
  the index shows what they changed only after the next one; so it is with a job that
  failed after a commit. `EveryWriterOwes` TRUE in `Server.cfg` asks `NoLostRefresh` of
  every job that succeeded, and TLC finds it violated.
- Overlapping runs over a header that becomes shared (section 4), options that change
  during a run (`MidRun`), catalog commands under a writer (`MayOverlap`).
- Overrides are also lost when two units see different parts of a hierarchy
  (`OneUnit` FALSE) and when a receiver's class is carried to calls on other objects
  (`OtherObjects` TRUE: `analysis/callgraph/ReceiverPropagation.cpp:8`).
- A file that the command line removes while a client pages takes its rows without a
  new generation (`RemovesWhileRead`: `storage/catalog/File.cpp:252`).
- A driver that is switched between the computation of its key and its run leaves its
  answer under the other driver's key (`SwitchedWhileProbing`:
  `DriverIncludes.cpp:258`). Headers installed without a new driver are not in the key.
- A link that vanishes during discovery ends the walk of its directory
  (`LinksVanish`: `tooling/CompilationFiles.cpp:262`). Two more exits of the walk
  are left out: the error when a root vanishes between the test that it is a directory
  and its `canonical`, which ends the walk without an answer, and an iterator that
  fails in the middle of a directory, whose other entries are skipped with a diagnostic.
  What is promised presumes that a directory that opens can be read to its end.
- A cancelled child's output may be cut in the drain without `truncated`, and the index
  status says `pending: false` when any result is published.
- A search that enters a function far from its root does not enter it again when it
  meets it nearer, so a depth limit can hide what is within it.
- `--path-mode shortest` may report "complete" without a path when there is one. The
  search drops a context that it has met before (`PathSearch::shortest` in
  `CallGraphPathModes.cpp`), and only later leaves out calls to functions that are on
  the path at hand. If a shorter path to the context visits a function that the rest
  needs, both are lost: with r to n (receiver X), n to f (X), r to a to b to f (X), f to
  n (Y), and from n to t only for Y, the path r, a, b, f, n, t is not found. The user
  guide says that the mode "returns one minimum-hop path". Without receivers it does,
  which is the theorem.
- Relations other than calls of an edited body, symbols of headers and locations of
  symbols are never deleted or updated by a later extraction (`storage/Symbol.cpp:32`).
- Commands: built-in components answer for every absolute path, so that a request
  through a symlinked checkout is "not imported"; paths of `-include` and of drivers
  through a link stay in the old checkout; options dropped by prefix leave a separate
  argument behind; components of one name resolve to the highest version.
- Version 2 operations, by reading: facts that were committed and not recorded for one
  clone make a later extraction in another clone skip; moved files that a dependency
  analysis clears keep their indexed state (`storage/DependencyDatabase.cpp:79`).
- With a facts database per source, sources that share a header find the other's
  database on its row and are extracted alternately.

## 7. Not modelled, and the plan

Left out of the modelled components: text and encoding of records and names,
durations (any order of expiries is allowed); warnings, ignore rules and control
files of the watcher, more than one clone or directory; what native operations
compute; signals between two adjacent system calls of one handler; for variable
flow pointers, local aliases, lambdas and indirect calls, for which the code reports
boundaries; flags and regions of symbols; labels of users and overridden arguments;
several analyses of dependencies at a time; edits of headers of which recovery sees
only the modification times of a unit's own files.

Not modelled: HTTP sessions, routing and OpenAPI, server configuration, the command
line (no state of their own); version 2 operations and matching (work inside one
native job, whose outcome `Runtime` has); the watcher's filters and plan (pure);
the Python SDK and the tutorials.

Next, in this order:

1. `CallDispatch` and `StoredCommands`, which need facts about folds and filters; some
   can be had by smallest counterexample, as for flattening in `AnalysisProofs`.
2. `AstFacts`: its traversals as functions instead of RECURSIVE operators, so that it
   can be proved about.

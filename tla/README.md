# A TLA+ development for mneme (datatree)

mneme is a local memory daemon for coding assistants: a supervisor keeps a set
of worker processes alive and hands them jobs, workers parse and scan a project
into SQLite shards, a live bus streams events to editors, and command-line and
MCP front ends read and write the shards. This directory holds TLA+ modules of
the parts where processes, tasks, failures and restarts interleave, and of the
algorithms whose answers users rely on, TLC configurations for them, and TLAPS
proofs of the most important invariants.

`PROJECT.json` lists components, runs, mutants, hazards and theorems, and maps
each definition to the source lines it models. To run a model:
`tlc -config JobQueueDurable.cfg MCJobQueue`; to check a proof:
`tlapm JobQueueProofs.tla`.

## 1. Inventory

| Component | State it keeps | Operations | What makes it correct |
|---|---|---|---|
| Job queue (`supervisor/src/job_queue.rs`, `job_queue_db.rs`, router in `lib.rs`) | pending queue, tracked jobs, in-flight map, id counter; table `jobs` in `jobs.db` | submit, next_pending, mark_assigned, return_pending, complete, requeue_worker, recover_from_disk | a job is in one place, is never lost, survives a crash of the supervisor, and finishes |
| Child manager and watchdog (`manager.rs`, `child.rs`, `watchdog.rs`) | a handle for each child (status, pid, restarts in the window), monitor tasks, restart channel, shutdown flag | spawn_all, spawn_child, monitor_child, respawn_one, kill_child, shutdown_all | one process for each child, bounded restarts, no exit is overlooked |
| Run loop (`lib.rs`, `health.rs`, `ipc.rs`) | one shared `Notify`, the background tasks | boot, select, notify, stop children, join | Stop stops the process |
| Control plane (`ipc.rs`) | open connections | Dispatch, WorkerCompleteJob, Restart, RestartAll, Stop, Heartbeat, queries | each command does what its reply says |
| File watcher (`watcher.rs`) | debounce table, stats, the nodes and edges of the graph shard | classify, debounce, flush, reindex_one | the graph follows the files |
| Log ring (`log_ring.rs`) | a bounded ring of lines | push, tail | the newest lines, in order |
| Live bus (`livebus/src/*.rs`) | subscriber registry, bounded queue and lag counter of each subscriber, counters | register, update_patterns, dispatch, evict, unregister; WebSocket, SSE and IPC transports | order, one eviction for each slow client, correct topic matching |
| Store writers (`store/src/query.rs`, `ipc.rs`) | map of writer tasks, bounded channels, shards | write, write_batch, query_rows | one writer for each shard, no success without a commit |
| Store injection (`store/src/inject.rs`) | idempotency records and audit log | insert, upsert, delete, batch_inject | idempotent, audited |
| Store lifecycle (`store/src/lifecycle.rs`, `builder.rs`, `schema.rs`) | snapshot directories, shard files, full-text index | init, snapshot, restore, repair, archive, vacuum, purge, rebuild | no operation loses rows it was not told to; search follows the rows |
| Build lock (`cli/src/build_lock.rs`) | lock file, flock | acquire, drop | builds of one project exclude one another and none waits for ever |
| Install (`cli/src/receipts.rs`, `markers.rs`, `platforms/`, `commands/install.rs`, `rollback.rs`, ...) | receipts, backups, marked regions of user files | install, uninstall, register, rollback | the user's text is never lost, rollback undoes install |
| Build and client (`cli/src/commands/build.rs`, `rebuild.rs`, `graphify.rs`, `cli/src/ipc.rs`) | rows of the graph and media shards, stamp in `meta.db` | build, dispatched build with fallback, rebuild, graphify, request with auto-start | a rebuild leaves the graph of the files |
| Audit (`cli/src/commands/audit.rs`) | child process, pipes, findings shard | audit | all findings or none |
| Prompt hook (`cli/src/commands/inject.rs`, `skill_matcher.rs`) | nothing | inject | the skill that fits best, and never a failure |
| Brain (`brain/src/*.rs`) | step ledger, vector index, clusters, convention counters, fingerprints | append, resume, embed, cluster, retrieve, observe, scan | the ledger is append-only and resume returns the open work; an index once written is kept; moves improve a partition; a pack fits its budget |
| Parsers and scanners (`parsers/src`, `scanners/src`) | parser pool, tree cache, channels, batches | parse, scan, forward, report | a job has one outcome, and it is forwarded once |
| Multimodal bridge, md-ingest | nothing | extract | media go to external tools |
| MCP server, vision app, editor extension | IPC clients, caches, event streams | tools, hooks, reconnect | no event handled against a stale cache |

**How they interact.** CLI, MCP server and hooks talk to the supervisor over a
local socket. `Dispatch` puts a job into the job queue; the router writes it to
the stdin of a child that the child manager runs; the worker reports the outcome
over a connection of its own (`WorkerCompleteJob`). When a child exits, its
monitor first gives its jobs back to the queue and then asks the restart loop
for a new process. The watcher parses in the supervisor's process and writes
through the store's query layer. Workers publish events to the live bus over
IPC; editors and the vision app subscribe by WebSocket or SSE. Build commands
exclude one another by a lock file. Workers read jobs as lines on stdin and write
results as lines on stdout; the scan worker is also started by `mneme audit`
itself. Shard files are shared: a build, the watcher and the store write them,
lifecycle requests rename and replace them, CLI, supervisor and MCP tools read
them.

**What is hard.** Every arrow above crosses a task or a process. Locks are held
for short sections and the decisions made under them are used afterwards (pid of
a child, snapshot of subscribers, job in the router's hand, row updates after the
queue lock). Reports and wakeups can be lost. The supervisor, a worker, the store
or a CLI process can die between any two steps. `PROJECT.json` lists the single
hazards, each at its line.

## 2. Modules

| Module | Models | Composition |
|---|---|---|
| `JobQueue` | job queue, its SQLite mirror, router, worker processes, monitors, supervisor crash and recovery | instance of `JobLedger` |
| `JobLedger` | abstract at-least-once ledger: owed and settled jobs | refined by `JobQueue` |
| `JobQueueProofs` | TLAPS proofs about `JobQueue` | |
| `ChildManager` | child lifecycle: boot, monitors, restart loop, kills, shutdown | the steps `JobQueue` abstracts to WorkerExit, Spawn and Retire |
| `Shutdown` | start, `Notify` and stop of the supervisor | the steps `ChildManager` groups as StopFlag, StopDrains, StopMarks are one step here |
| `BuildLock` | lock file protocol of build and rebuild | |
| `BuildPipeline` | build, dispatched build, rebuild, graphify, the client's requests, rows and stamps | admitted by `BuildLock`; the daemon's queue is `JobQueue` reduced to counters |
| `Install`, `Platforms` | install, uninstall, register, rollback on the table of platforms | `Install` extends `Platforms` |
| `Audit` | `mneme audit`, its scanner process, pipes and transaction | |
| `ParseWorker`, `InputEdit` | parse worker process; the edit handed to tree-sitter | the processes `JobQueue` has as `inbox` |
| `ScanWorker` | scan worker process with its batcher | as above |
| `BrainWorker` | brain process, embedder cache, vector index on disk | as above |
| `LiveBus` | registry, dispatch, eviction, both transports | topics abstracted; matching is in `TopicMatch` |
| `TopicMatch` | `topic_matches` against the documented language | |
| `StoreWriter` | writer tasks, channels, idempotency, audit, batches | |
| `StoreLifecycle` | shard files and their `-wal`, snapshots, restores, repairs, purges and the writer that holds a file | the writer is one of `StoreWriter` |
| `Watcher` | debouncer and the re-index jobs | its statements are the writes of `StoreWriter` |
| `NodeSearch` | full-text index of a graph shard, its triggers and seeding, recall | its writes are those of `Watcher` and `BuildPipeline` |
| `StepLedger` | step ledger and the resume bundle | |
| `GraphQueries` | blast radius, cycles, god nodes | |
| `Clustering` | community detection and the splitting of large communities | |
| `Retrieval` | hybrid retrieval: fused rankings, context pack | |
| `Conventions` | convention learner and checker | |
| `Federated` | fingerprints, scans, similarity queries | |
| `PromptHook` | `mneme inject` with the skill matcher | |
| `ChildManagerProofs`, `StoreWriterProofs`, `LiveBusProofs` | TLAPS proofs about the module of that name | |
| `WaitingProofs`, `CommandProofs`, `WorkersProofs`, `DataProofs` | TLAPS proofs about parts of what `MCWaiting`, `MCCommands`, `MCWorkers` and `MCData` run | each theorem is about one component and its own specification |
| `MCJobQueue`, `MCChildManager`, `MCWatcher` | constant functions for TLC | |
| `MCWaiting`, `MCCommands`, `MCWorkers`, `MCData` | several components side by side, one in focus | see below |

**Components side by side.** Components that share no variable and whose
questions are of one kind are checked by one run. The MC module has a variable
`focus`; it is chosen at the start and never changes, the component in focus takes
its own `Init` and `Next`, and the others stay in one of their initial states. The
states of such a run are the sum, not the product, of the components' states; an
invariant of a component is checked in all of its reachable states, and a liveness
property of a component under that component's fairness, which the MC module
asks for in behaviours in which it is in focus.

Mutated forms of definitions (`Boot_QueuedOnly`, `LoadEntry_KeepsBoth`, ...) stand
before the definition they vary. They are not part of any specification: each
shows that a plausible slip in the code would be noticed by a property.

### JobQueue

`mode` says whether the supervisor is down, has `jobs.db` open, or runs in memory
because it could not be opened. `pending`, `tracked`, `inflight` and `nextId` are
the fields of `Inner` and the id counter, `disk` is the state column of the
table, `router` the local variables of `run_router`, `doneW` and `requeueW` the
row updates that IPC tasks and monitors have still to run, `inbox` what a process
has read from stdin, `reports` the messages on their way.

One action is one critical section of the queue's mutex or one SQLite statement.
`submit` inserts its row inside the critical section; `complete`, `mark_assigned`
and `requeue_worker` update theirs after it, so those updates are separate
actions and may be overtaken. `TryWorker` is one turn of `dispatch_to_pool`'s
loop. A worker exit empties its inbox (jobs may or may not have been finished);
`Crash` keeps only the table, the history and the messages orphaned workers may
still send. Payloads, timestamps and outcome texts are left out; a failed outcome
is as final as a successful one.

### ChildManager

`status`, `hpid`, `recent` are the handle; `mon[c]` is the monitor task and the
process it owns; `registered` and `aborting` say which `JoinHandle`s the monitors
map and `shutdown_all` hold; `requests` is the restart channel, `loop` the one
restart loop; `killer` holds the pids that `kill_child` calls have read and not
yet signalled. `main` and `boot` follow `spawn_all` and `shutdown_all`.
`proc` and `owner` are the operating system's process table. Time is abstracted:
an entry of the restart window may expire, a backoff may end and a heartbeat may
be too old at any moment.

### Shutdown

`task[t]` says whether a task's `Notified` future exists (`listening`), has been
woken, or does not exist because the task has not started, runs another branch
(`busy`) or is over. `notify_waiters` wakes exactly the listening ones.

### BuildLock

`path` is the file the name `.lock` refers to, `fd[b]` the file the handle of
process `b` refers to, `locked` the flock of each file. Files and names are
separate because `Drop` removes the name of a file others may have open.

### LiveBus and TopicMatch

`arcs[s]` holds every `Arc<Subscriber>` made for `s`; a publisher's `todo` is the
rest of the snapshot `dispatch` cloned. `try_send` and the update of the lag
counter are separate steps. A channel is closed once no registered or cloned Arc
holds its sender. Topics are two abstract values here; `TopicMatch` covers the
real matching on sequences of segments.

### StoreWriter

A caller walks through check, lookup of the writer (read lock, then write lock
with a second look), send into the bounded channel, and reply; an inject does so
for the write, the audit entry and the record in turn, a batch once for each
shard. A timeout lets the call return with the command still in the channel.

### Watcher

Content of a file is a set of symbols; each symbol is a node with one edge. Jobs
delete and insert statement by statement, so overlapping jobs interleave there.
With `Faults`, a file that exists may not be readable, a parse or an extraction may
fail, a query may fail and leave the job with an empty list (`unwrap_or_default`),
and any delete or insert may fail unnoticed (`let _ =`): each is a second disjunct
of its step (`AsksNodes`, `Writes`, `UpsertReads`, `UpsertFails`). `unread`, `lost`,
`spaced`, `missed` and `orphaned` are history variables: `missed` are the files whose
last job failed or lost a statement, `orphaned` those of which some job, ever, lost
what may leave edges of unknown nodes (an insert of a node, or the query or an edge
deletion of a removal). A write that times out is taken to have failed: the writer of
its shard is first-in-first-out, so if it is applied after all, that is before any
later write.

### BuildPipeline

`disk` is the version of each file, `graphDb` and `mediaDb` the rows, `indexedAt`
the stamp of `meta.db`, `build` the command that holds the lock and where it is,
`graphify` one that takes no lock. One action is one file (its delete and inserts,
any of which may be lost), one request or one phase of the command. `daemon` is up
or not, and its queue is three counters, so that `Poll` reads what `JobQueue` would
answer, the job between `next_pending` and `mark_assigned` included.

### Install and Platforms

`Platforms` is the table of adapters: for each platform and scope the files it
writes and the writer it uses. In `Install` a content keeps which text of the user
it holds, what is in mneme's section and whether mneme reprinted it; `baks` are the
backups by second, `receipts` the saved receipts, `cmd` the running command.
`StepWrites` is one file with its backup, `UndoModified`, `UndoCreated` and
`UndoRegistered` one recorded action of a rollback. `UserEdits`, `Tick`,
`StepFails` and `Dies` may happen between any two of them.

### Audit

`cli` and `child` are the two processes, `stdout` and `stderr` their pipes with a
capacity, `rows` the findings shard. A full pipe blocks its writer. `Persist` is
the transaction.

### ParseWorker, InputEdit, ScanWorker, BrainWorker

Every task of a process has its place (`task`, `emitter`, `scan`, `batcher`,
`worker`, `printer`), every channel is a bounded sequence, and every await or lock
is the border of an action. In `ParseWorker` the scan over the parser slots is one
action for each `try_lock`. `BrainWorker` adds the vector index in memory, the
steps of its flush, kills and restarts at any point, and starts that cannot read the
index and begin with an empty one (`Opened`; `unread` remembers it). `InputEdit`
compares all pairs of short texts.

### StoreLifecycle

A name (`shard`, `aside`, `snaps`, `away`) refers to an inode, and `holds` is the
inode a writer has open; renames move names, and a writer keeps its inode. Each
connection works on one request, layer by layer; restore and repair have two steps
for a layer (rename, copy), and any step may fail. Names carry the second, so two
requests in one second may clash. Shards are in WAL mode: from the moment a
connection opens a shard for writing until the last one closes in order (`logged`),
part of its rows may be in a `-wal` that a rename or copy of the `.db` leaves behind
(`stray`). The model assumes nothing of a file parted from its `-wal`, or put beside
a foreign one: it is `doomed`, its rows so far are `excused`, and `Spoils` takes rows
from it at any time. `excused` also has what a clash or a purge may have destroyed.

### NodeSearch, StepLedger, GraphQueries

`NodeSearch` keeps rows and postings apart, as FTS5's external content does, and
says which statement fires which trigger. `StepLedger` reads a resume bundle by
one action for each query while others append. `GraphQueries` has one action for
each turn of the loops of blast and of the cycle search; rows without an order are
taken from sets. A statement with a `LIMIT` is a set of answers (`Limited`): what its
`ORDER BY` may leave, whichever of the rows that tie are cut. `Unlisted` are the names
that edges have and `nodes` has not.

### Clustering, Retrieval, Conventions, Federated, PromptHook

The algorithms, stepwise, over the inputs that the MC module lists. Floating-point
numbers are scaled to integers (modularity gains, reciprocal ranks, confidence,
similarity); ties that the code leaves to hashing are any choice. `PromptHook`
reads files of skills line by line and directories in any order. What each
leaves out is said in its header.

## 3. Runs

All passing runs exhaust their state space.

| Run | What it asks | Bounds |
|---|---|---|
| `queue_durable` | Is every job in exactly one place, recoverable, finished in the end, and does the queue implement the ledger, when workers exit at any point, reports are lost and the supervisor crashes once? | 1 worker, 2 jobs, 2 exits, 1 crash |
| `queue_evaporation` (violated) | "so no work silently evaporates when a worker crashes" | 2 workers, 1 exit |
| `children` | One process for each child and none for one that is given up, the restart budget, every exit dealt with, with failing spawn and wait calls | 2 children of different strategy, 2 pids, 1 kill at a time, 1 restart in the window |
| `queue_memory` | The queue's capacity, durable or in memory, with failing statements and workers that are given up | 2 workers, 3 ids, `max_pending` 1 |
| `waiting` | No save is forgotten, spaced changes leave every file current that nothing was lost of, only the stats mutex stops the watcher; exclusion by the lock until its name is first removed, and nobody waits for ever; repeated Stop brings the supervisor down despite lost wakeups | watcher: 3 files (one unsupported), table of 2, 2 jobs, 3 changes, ignored paths; reads, parses, queries and writes fail as long as changes are spaced; lock: 3 processes, one a rebuild, one fail-fast; stop: 2 connections |
| `livebus_fanout` | One final eviction for each client, order for each connection, disconnection of evicted clients | 2 publishers, 1 WebSocket and 1 SSE client, queue of 1, 3 events or notices |
| `store_writes` | One writer for each shard; no record, and no success, without its write; every call is answered | 2 callers, 1 key, channel of 1, 3 calls, 1 crash, all faults |
| `store_retry_applies_twice` (violated) | Idempotency: a key is applied once | 1 caller, 3 calls |
| `watcher_ignored_deadlock` (violated) | "incremental re-index on save" keeps going when ignored files change | 1 file, 1 job, 2 changes |
| `commands` | The user's text survives install, uninstall and rollback; a rollback undoes the install; a rebuild leaves exactly the graph of the files; an audit stores all findings or none | install: the default targets, 3 commands, 2 edits or faults, 2 seconds; build: 2 code files and a document, 2 versions, 2 builds, 1 lost row; audit: 2 audits, pipes of 2 lines |
| `workers` | A permit finds a parser; every job read is answered; every result is forwarded once; an index once in place is kept, but for the two ways of losing it that the property names; the edit is exact; acknowledged rows survive, but for the excuses the property names | parse: 3 tasks, 2 parsers, 3 jobs, one grammar missing, one bad pattern, channels and cache of 1; scan: 2 tasks, 3 jobs, batches of 2; brain: 2 nodes, 3 starts; lifecycle: 2 connections (interchangeable), 1 row, 2 seconds, 2 inodes; edit: texts of up to 4 bytes |
| `project_data` | Search tells the truth; a resume bundle hangs together; graph answers are exact; packs are sound; checker and learner agree; what was scanned is found; the prescribed skill is the best; topics match as documented; moves improve | search: 3 nodes, 4 row ids; ledger: 3 entries; graph: all graphs of 4 names, one of them no row, and up to 4 edges, two names with one bare name, limit 2 on starts; clusters: 4 graphs; skills: all files of up to 4 lines below the name, and all triples of 8 skills against 6 prompts; topics: 3 segments over two words and both wildcards |

**Why the bounds are enough.** Each race involves at most two tasks around one
object, so two of everything that competes (jobs behind one router, publishers,
callers, children behind one restart loop, connections on one project) shows it;
the build lock needs three processes, because a removal only matters to two
others, and the parser pool three tasks for two parsers. Bounded structures are
set to their smallest size (channel, queue, debounce table, restart window, pipe,
batch, tree cache), so that full, empty and one-too-many all occur. One crash is
enough to reach every pair of a state before and a recovery after it; the proofs
of section 5 remove the bounds for the properties they are about. In the
queue runs one worker suffices for the durable part because a second one only adds
another place a job may be tried, which `queue_memory` covers. A failing watcher job is only checked for a user who waits for each change (`MCWaiting`
cuts off the rest); `NoSaveIsForgotten` covers the two together. Once the one row of
`StoreLifecycle`'s instance is excused its behaviour is not followed further
(`RowAtStake`), since nothing is left to lose. One layer suffices in
`StoreLifecycle`: a request treats the layers one after another and no step looks
at two of them. Two commands of each sort are enough for the commands, since what
the second finds is all that the earlier ones left. The algorithms are checked
against definitions of what they should return, over all inputs up to a size at
which each of their branches is taken.

**Three claims of the code that do not hold** (the violation runs):

* *queue_evaporation*: the router writes a job to stdin and calls `mark_assigned`
  afterwards. When the worker exits between the two, `requeue_worker` finds
  nothing to requeue and the job is then assigned to the process that is gone.
* *store_retry_applies_twice*: a timeout abandons the reply, not the command. The
  write is applied without its idempotency record and the retry applies it again.
* *watcher_ignored_deadlock*: `bump_ignored` locks the stats mutex on both sides
  of one assignment. The first ignored path blocks the debouncer for ever.

## 4. Fairness

* `JobQueue`: tokio runs ready tasks, the router also wakes every 500 ms, a
  process finishes what it has read unless it exits, exits are bounded, a dead
  worker gets a new process (in this run none is given up), and the
  supervisor is started again after a crash. Nothing is assumed about clients.
  Reports may be lost: `EveryJobFinishes` therefore says that a job finishes or
  stays in the in-flight map of a process that does not have it.
* `ChildManager`: weak fairness of the monitors and of the restart loop. Processes
  need not exit, the window need not slide, nobody need kill.
* `Shutdown`: ready tasks run; strong fairness of a woken task's shutdown branch,
  because `select!` picks at random among the ready branches. The client's
  repetition is the hypothesis of `RepeatedStopExits`, not a fairness condition.
* `BuildLock`: processes go on unless killed, and the build pipeline ends.
* `LiveBus`: `dispatch` never awaits; a WebSocket client keeps reading. The second
  is an assumption about the peer: a client that neither reads nor closes keeps
  its task in the socket send.
* `StoreWriter`: callers and writers run; SQLite statements return.
* `Watcher`: debouncer, ticker and jobs run; the user is free.
* `MCWaiting` asks for the fairness of `Watcher`, `Shutdown` and `BuildLock`, each
  in the behaviours in which it is in focus.

The worker processes and the commands are checked for safety only. What must
happen eventually is stated there for states in which nothing is left to do
(`QuietMeansAnswered`, `RestMeansForwardedOnce`): a job that is dropped, or stuck
behind tasks that wait for one another, shows as a state at rest with the job
unanswered, without an assumption on scheduling.

Runs say `CHECK_DEADLOCK FALSE` because every model has an environment that may
stop, and bounds at which it must.

## 5. Proofs

TLAPS proves the following for all values of the constants that the modules'
`ASSUME`s admit; a theorem that assumes more says so. Each inductive invariant stands in
the module of its component, after the property it strengthens. TLC checked it on
the instance of the component's run before it was proved; the runs list the
properties only.

`JobQueueProofs`

* `TypeCorrect`: `Spec => []TypeOK`.
* `Conservation`: `Spec => []JobsAreConserved`, for any number of jobs, workers,
  pools, exits and crashes and with failing statements. `JobsAreConserved` is
  `NeverDuplicated` and `TrackedIsHeld`, which are not inductive alone:
  `QueueInv` adds that the counter is ahead of all ids held anywhere (so `submit`
  appends a new one) and that a supervisor that is down holds nothing (so
  recovery starts from empty places). The proof goes action by action; lemmas on
  Append, Tail and concatenation say what happens to the elements and to their
  distinctness.
* `CrashSafety`, `IdsUnique`: without disk faults what is owed can be recovered,
  and no id is given out twice (with them `IdsNeverReused` asks for nothing).
  `DurableInv` says that every id in circulation was accepted and has a row, that
  a tracked job's row is recoverable, and that `done` is only ever written, or
  owed, for a job whose outcome was counted. The last part is why late row updates
  do no harm.
* `LedgerRefinement`: without disk faults `Spec => LedgerSpec`: each step of the
  queue is a step of the ledger or a stutter.
* `LoadBound`: `LoadBounded`, one job more than `max_pending`. `LoadInv` adds that
  until the first crash the table is empty when the supervisor boots, so that
  recovery adds nothing past the capacity test.

`ChildManagerProofs`

* `ChildTypeCorrect`, `OneProcess` (`OneProcessPerChild`) and `BudgetHolds`
  (`BudgetRespected`), for any children, strategies, pids and windows. The right to
  run a child is a token that is with `spawn_all`, the child's monitor, the restart
  channel or the restart loop. `ChildInv` says that it is in one place at a time,
  that a process not yet reaped belongs to the monitor of its child, and that a
  child that is given up, or over its budget, has no token anywhere: the watchdog,
  a kill and the shutdown may take processes away but never make a token.

`StoreWriterProofs`

* `StoreTypeCorrect`, `OneWriterPerShard` (`SingleWriter`) and `BooksAreTrue`
  (`NothingWithoutItsWrite`), for any callers, keys, shards and channel sizes, with
  timeouts, full channels, failing statements and crashes. `StoreInv` ties every
  command in a channel to its caller, who still waits for it or gave it up
  (`CommandInv`), no two commands having the same caller and number; and it balances
  the books: the audit rows, the acknowledgements and those on their way are
  together at most the writes applied (`BooksBalance`).

`LiveBusProofs`

* `FanoutTypeCorrect`, `EvictionCountsOnce` (`EvictedOnce`) and `OrderKept`
  (`PublisherOrder`), for any publishers, subscribers and queue sizes. `FanoutInv`
  says that a snapshot has at most one Arc of each subscriber, which exists; and that
  no queue has an event its publisher did not send, and the one at hand only if
  the subscriber is off the snapshot already.

`WaitingProofs`

* `LockTypeCorrect` and `LockExclusion` (`ExclusiveUntilRemoval`), for any number of
  processes. `LockInv` adds that until the first removal there is one file, that
  every open handle refers to it, and that whoever is inside holds its lock.
* `WatcherTypeCorrect` and `NoSaveIsForgotten` (`NoSaveForgotten`), for any files,
  table size and number of overlapping jobs. `SaveInv` adds that what waits in the
  table for a saved file is an upsert, and that a delete still in the channel, which
  could turn it into a delete, is older than the save, whose own event is still to
  come.
* `SpacedAreIndexed` (`SpacedChangesAreIndexed`), for any symbols and references as
  well. `FreshInv` says: while changes are spaced a file is in one place at a time
  (channel, table or one job) and what is to be done agrees with the disk; every
  edge belongs to a known node, so a job that goes through the known nodes of a
  file meets all of its edges; and, place by place, what a job has done so far
  (`Progress`). Jobs on other files overlap with it, and `OthersGoOn` shows what
  they can do to it: take an edge that leads into a file they delete. All this is said
  of a file outside `missed` and `orphaned`, and the clause on edges of every file
  outside `orphaned`: a lost query or wipe leaves edges whose nodes are known, so the
  next job that loses nothing sets the file right, which is what takes it out of
  `missed`; an edge whose node is unknown no later job meets.

`CommandProofs`

* `AllOrNothing` (`AuditIsAllOrNothing`), for any project, floor and pipe sizes.
  `AuditInv` says that as long as the command reads and the scanners live, what was
  read, what is in the pipe and what is still to be written are together the
  findings of the files the walk has passed, and that an audit has no row before it
  persists.
* `RebuildsAreExact` (`RebuildIsExact`), for any files, limits and failures.
  `RebuildInv`: a rebuild that lost no row, and under which no file changed, has
  exactly the rows of the files it has worked off.
* `InstallKeepsText` (`UserTextIsSafe`), for any targets, scopes, edits, failed
  writes and crashes. `TextInv` adds that every action a receipt, or the command that
  runs, has noted can be undone without losing a text (`Undoable`): what it left in
  its file holds nothing of the user or a text that has a copy. A rollback may
  therefore overwrite a file that is still as the action left it.
* `RollbackUndoes` (`RollbackUndoesInstall`). `UndoInv` reads the receipt as a chain:
  link by link, each action went from what the actions before it left in its file
  (`Left`, in the backup or on disk) to mneme's own content, and the first began
  with what the install found. A rollback takes the links off from the last to the
  first; the files are where the rest of the chain left them, or are stripped of
  their entry and go back no further.
* The two theorems assume that no target has a writer of kind "append" or a hook
  writer of kind "plain". This leaves Aider, Windsurf, OpenCode, Gemini CLI and Kiro
  out, and rightly so (section 6); the targets of the run are of the other kind, and
  fourteen of the nineteen platforms are. `EveryTextHasACopy` and
  `EveryRollbackBringsBack` are the same without the assumption: for all platforms,
  they speak of every file but those such a writer writes (`Unkept`).
* `BestIsPrescribed` (`PrescribesTheBest`), for any directories, files and prompt.
  `HookInv` has two parts. What the reader knows after n lines (`ParserInv`): every
  key but the one whose block is open has the texts that the first n lines say,
  read as a whole, and the open block has all items and texts since its key
  (`ReaderIsRight`). What the loader knows after some of the entries: each name it
  has passed is among the skills, and each skill is offered, since the directories
  before its own are done (`EntryLoaded`, `EveryDirListed`). Then the score of a
  skill is what its file is worth (`ScoreIsWorth`) and the first by rank has the
  greatest one (`FirstIsBest`).

`WorkersProofs`

* `PermitSuffices` (`PermitFindsSlot`), for any number of tasks and parsers.
  `LeaseInv` counts: the tasks that hold a permit and have reached slot k are at
  most the slots from k on, for every k. A locked slot's owner stays at its slot,
  so a task that passes it leaves one behind.
* `FlushedStaysOnDisk` (`FlushedIsKept`), for any nodes, texts, jobs, kills and
  restarts, and starts that fail to read the index. `FlushInv`: a running process has
  every flushed node in memory, unless it started without reading the index and has
  not removed it yet; what such a process removes, or a flush that stops between
  remove and rename, is taken out of `flushed`.
* `RowsStay` (`RowsSurvive`), for any layers, connections, rows, files and clock.
  `LifecycleInv`: a file has a name in the project or in an archive, or is doomed;
  every row of a doomed file is in a copy or excused, so it may lose any of them;
  and while a restore or a repair is half-way through a layer, the file that stands in
  its place has only rows that are in a copy or excused, so copying over it
  destroys nothing.
* `EditsAreExact` (`EditIsExact`), for texts of any bytes and length: from the
  arithmetic of the longest common prefix and suffix.
* `EveryJobAnswered` (`QuietMeansAnswered`), for any jobs, workers and channel sizes.
  `AnswerInv` counts: the lines written, the results in the channel and the jobs at
  a task or in its inbox are together the jobs read; and nothing waits for a task
  that ended, so when all wait, the places in between are empty.
* `RestForwardsEveryJobOnce` (`RestMeansForwardedOnce`), for any jobs, tasks, batch
  and channel sizes. Its invariant: a job that was read is in exactly one place of
  the process or on stdout (channel, task, result channel, batch, batch channel),
  no other id is anywhere, and the tasks end in the order in which their inputs
  close, so at rest only stdout is left.

`DataProofs`

* `MatchCorrect` (`MatchIsDocumented`): `topic_matches` decides the documented
  language for patterns and topics of any length over any alphabet (`MatchesAccept`
  is the lemma about the operators, `Grown` the invariant).
* `RecallsAreExact` (`RecallIsExact`), for any nodes, names and row ids. `IndexInv`:
  row ids are never given out twice, so the postings of a replaced row, which stay,
  are of no row that exists; and every row has its postings except between the
  schema and the seeding of an old shard, where there are none.
* `BundlesHangTogether` (`BundleHangsTogether`), for any limits: each list that was
  read holds what the timeline has of its kinds, or is full (`BundleInv`). It stays
  so while others append, because the timeline was read first.
* `ScansAreFound` (`ScannedIsFound`), for any files, texts, hashes and window: the
  path of a scan that was worked off, and that nobody edited, has a row with the
  fingerprint of its text (`ScanInv`), and a fingerprint is fully similar to itself.
* `RetrievalsAreSound` (`RetrievalIsSound`), for any graph, rankings, anchors and
  budgets: the walk has the shortest distances from the anchors seen so far, and
  the packer has taken no candidate before a better one that is left (`PackInv`).
  It uses nothing of the scores but their order.
* `LearnerAgrees` (`CheckAgreesWithLearning`), for any files, names, order and number
  of observations and any evidence threshold. `ConventionInv`: the counter of a
  style is the sum, over the files, of the names in that style times the number of
  observations. The lemmas say of these sums that they may be taken apart in any
  order (`TotalSteps`), are monotone and additive, and that the names of a file are
  the sum over the styles; a convention has four fifths of them, so the names that
  check reports, which are not of its style, are at most a fifth.
* `GraphAnswers` (`GraphAnswersAreExact`), for any graph, names, missing rows, limit and
  order of rows. What is exact is relative to the starts the `LIMIT` lets through.
  For blast, `BlastInv` (`Walked`): the queue is in order of distance and spans two
  levels at most, a visited node has its shortest distance, and a node that left
  the queue has all of its consumers visited unless it is at the depth. For
  detectCycles, `TarjanInv`: stack and frames are in the order in which nodes were met
  (`InOrder`); a frame reaches what is above it on the stack and is reached by what
  is below the next frame (`StackConnected`); its low link is met on the stack and
  no edge seen from its stretch leads further down (`LowIsLeast`); settled nodes lead
  to settled nodes only; and what was emitted are the components among them. So
  when a frame is done and its low link is its own number, what is above it on the
  stack is a component (`PoppedIsComponent`), and otherwise its stretch joins that
  of the frame below. For god nodes, a listed name ranks before every other match of
  itself, so no `LIMIT` cuts it.
* `MovesAlwaysImprove` (`MovesImprove`), for any weighted graph, resolution and order
  of the nodes. `ClusterInv`: while nodes move, the sum kept for a label is that of
  the strengths in its community (`Kept`), also after the sums were computed afresh
  and on the graph of a split. With it the gain that `local_move` computes from
  links and two sums is the sum of the terms of the node and the others of the
  community (`GainIsTerms`), and a move changes the double sum of the definition by
  twice the difference of two gains (`MoveChanges`).

Where a loop is a recursive function over numbers or finite sets (the sums of the
learner and of the clustering, the levels of `Ball`, the states of the reader of skill files), the proofs take the least counterexample
(`LeastNumber`, from the library's well-foundedness of < on Nat) in place of
induction.

Only model-checked, and why:

* All liveness (`EveryJobFinishes`, `ExitIsHandled`, `DrainsUnlessStuck`,
  `RepeatedStopExits`, `EveryBuildEnds`, `EvictedIsClosed`, `EveryCallEnds`): fairness
  is out of the prover's reach here.

## 6. Observations

Behaviour met while the modules were written that no run above singles out. Each
follows from the actions named.

* **Capacity.** `submit` compares `pending + in_flight` with `max_pending`; the
  job in the router's hand is in neither, so one more is admitted
  (NextPending, Submit, ReturnPending). `LoadBounded` states the bound that holds;
  the field's comment (`job_queue.rs:79`) states one less.
* **End of a dispatched build.** `build.rs` takes `pending = 0` and
  `in_flight = 0` for done; between NextPending and MarkAssigned this is so with a
  job still to run.
* **Dead pool.** ReturnPending puts a job that no worker took back to the front,
  and the next burst starts with it: jobs of other pools behind it wait until a
  worker of the first pool is back.
* **Failed respawn.** LoopSpawnFails logs the error; the child keeps the status
  Restarting and nothing tries again. `ExitIsHandled` therefore excepts
  children whose last respawn failed.
* **Stale pid.** Between KillReadsPid and KillFires the monitor may reap the
  process, and its id may belong to another one.
* **Start after stop.** LoopWakes reads the shutdown flag, then StopFlag,
  StopDrains and StopMarks run, then LoopSpawns starts the child.
* **Restart of a degraded child** signals nobody, since there is no pid, and is
  answered with "kill signalled; restart pending".
* **One Stop.** A single `notify_waiters` misses a loop that runs another branch
  (TaskWorks, MainNotifies, TaskReturnsToSelect), and the join waits for it; a
  Stop before MainSelects is not heard by `run` at all. `RepeatedStopExits` is the
  guarantee that remains.
* **Lock file.** After Remove a process that opened the file earlier may lock it
  while a third creates and locks a new one; hence `ExclusiveUntilRemoval`.
* **Lag counter.** SendOk, SendFull, LagReset and LagGrows of two publishers, or
  UpdatePatterns between them, leave the counter different from the number of
  consecutive failures.
* **SSE clients** never unregister: one that disconnects is found closed by the
  next matching event and goes through `evict`, which reports a slow consumer.
* **Writer that could not open.** Its sender stays in the map, so later writes to
  the shard fail until the process ends (WriterOpenFails, SendClosed).
* **Delete in the window.** A file removed and written again within the window is
  handled as deleted (Coalesce).
* **Overlapping jobs** for one file may both wipe before either inserts: edges
  twice. **Removed symbols** keep their nodes, since an upsert only inserts or
  replaces. `Indexed` states what does hold for spaced changes.
* **Lost statements.** A job of the watcher does not look at the answers of its
  writes and takes a failed query for an empty one, so a file stays wrong until it
  changes again, with nothing pending (`missed`). The comment at the wipe
  (`watcher.rs:393-395`) says nodes "self-heal" while edges are wiped; edges do not
  always: when the insert of a node is lost and that of its edge is not, or a
  deletion loses its query or an edge statement, the graph has edges of a node it
  does not list, and since the wipe goes through the listed nodes, it never meets
  them again (`orphaned`).

Install, rollback and receipts (`Install`, `Platforms`):

* The receipt is saved at the end of an install, while `receipts.rs` says it is
  written before any destructive write; a command that dies leaves its backups and
  no receipt (Dies). Two backups of one file in one second overwrite one another
  ("timestamped, never overwritten").
* A hook file that install creates is recorded with whatever backup an earlier file
  of that name left. Writers of kind "plain" (Windsurf, OpenCode, Gemini CLI, Kiro)
  replace a hook file without a backup, so what the user wrote there is gone.
* Aider's writer appends unless the entry is there already. A second install after the
  user edited the file changes nothing, makes no backup and yet notes the file in its
  receipt, with the newest backup there is and the hash of the edited file: the
  rollback of that receipt sees no drift and puts the old backup over the newer text.
* `rollback_mcp_entry` looks at the user scope whatever the receipt says. When the
  entry is taken out first, the file's hash has changed and the restore that
  follows is refused as drift (UndoRegistered, UndoModified).
* A second install followed by a rollback also strips the entry of the first;
  Zed's entry is under a key the strip does not look at; uninstall leaves hooks.

Build and client (`BuildPipeline`):

* A dispatched build stores nothing and sets no stamp: the parse worker answers
  and keeps no rows. The end of one is read off counters that miss the job in the
  router's hand (RouteJob, Poll).
* Responses to inserts are not looked at, and the stamp is set after failures and
  after a limit (Stamp). Edges are plain inserts: a build again duplicates them, and
  nodes that vanished stay. A rebuild is what gets rid of both (`RebuildIsExact`).
* A request that timed out may have been carried out. A rebuild killed after
  DropShards leaves the old stamp; DropFails leaves the earlier shards gone.
* With a daemon that answers Error, rebuild takes the answer for a success and ends
  without rebuilding. Graphify takes no lock.

Audit (`Audit`): the child's stderr is a pipe nobody reads, so enough panics block
both processes; repeated audits append their findings again.

Workers:

* Parse: a parse that failed is answered but never reported with its id; the tree
  is cached before the graph is extracted, so a retry after a failed extraction
  answers "unchanged"; results of two versions of a file may overtake one another.
* Scan: panics of a scanner are caught one by one (`scanners/src/worker.rs:73-94`), but
  the release profile has `panic = "abort"` (`Cargo.toml`), under which the
  first one ends the process: `RunOne` with panics is the unwinding build. A full tap
  loses the completion report, not the result. Parse and scan: on
  ctrl-c the drain waits for the end of stdin. With `MNEME_SCAN_WORKERS=0` there is no
  scan task: the jobs fill their channel and stay there.
* Brain: at the end of stdin `main` returns at once, so queued jobs are not worked
  off and the index is not flushed (MainReturns). The flush removes `index.bin`
  before it renames the new file; a kill between the two leaves none (`LostInGap`),
  while the comment there says "Atomic-ish replace". An index that cannot be read at
  the start is taken for an empty one with a warning (`embed_store.rs:81-88`), also
  when the cause passes, and the next flush puts the new vectors in its place. The
  index does not record which backend made a vector. The supervisor's embed job is
  not a job the brain can read; it is skipped and stays in flight.

Store (`StoreLifecycle`, `NodeSearch`): a writer goes on with a purged inode and
its rows are lost; rows written while a restore copies may be overwritten. Restore and
repair move and copy the `.db` alone, although shards are in WAL mode
(`builder.rs:225`, `query.rs:278`): while a connection is open, or after a kill, rows
may be in a `-wal` that stays under the old name, beside the copy that takes its
place. Repair ignores a rename that fails and copies over the shard
(`lifecycle.rs:246-247`). Nothing calls repair yet. The
full-text index keeps the words of replaced rows, although a comment in `schema.rs`
says that the triggers keep it in lock step; row ids are never given out twice,
which keeps the stale words harmless. A crash, or a writer, between the schema and
the seeding of an old shard leaves the old rows out of the index.

Queries and algorithms:

* Graph: blast takes at most ten of the rows its target matches
  (`LIMIT 10`), so of a file with more nodes the rest is not looked at, in no stated
  order; god nodes are joined with `nodes`, so an end of many edges that is no row, such
  as an unresolved name, is not listed. Edges are inserted without a file path, so the MCP server's dependency
  chain is empty; its blast search goes in the other direction than the command's
  and lists a node at several depths.
* Ledger: open questions are limited before the answered ones are filtered out; a
  failed insert into the full-text mirror is ignored.
* Clustering: the placeholder of `aggregate` is never filled, so the partition is
  the refined one; a community of a star need not be connected, while the header of
  `leiden.rs` promises well-connected ones; splitting drops members without an edge
  inside a community that is not connected.
* Retrieval: an anchor that another anchor reaches first keeps its distance from
  that one; the packer goes on after a hit that does not fit, where its comment says
  it stops.
* Conventions: a file observed twice counts twice; names of mixed style pass the
  check and weaken the convention.
* Federated: only rows of the same kind are compared, where the comment says kind
  or a close hash; every scan appends all files again, and queries look at the
  newest rows only.
* Prompt hook: the supervisor knows no command `inject`, so its part of the
  context is always empty. The hint for codewords comes last and with low
  confidence, and the hook shows one suggestion of at least medium confidence, so it is
  never shown. A comment, or an item at the margin, ends a list of triggers, and the
  items that follow are not read.

## 7. Not modelled

* Data types, paths and conversions of `common`; service registration and argument
  parsing; the text of HTTP, SQL and log messages: no state and no order of steps.
* Extraction by tree-sitter, regular expressions or external media tools, concepts,
  summaries, wiki pages, identity: text in, text out. Their result is any value
  in the models that use them.
* The numbers inside embeddings and BM25: arithmetic out of TLC's reach; rankings
  are any ranking.
* In parts that are modelled: a recovery of the job queue that fails, or skips rows it
  cannot decode (`lib.rs:115-119`, `job_queue_db.rs:299-320`), whose jobs stay in the
  table only; the health server's wait for the HTTP connections it is serving when it
  is stopped (`health.rs:142-144`), which is taken to end: a request is a short report;
  `compute_risk`, a table of thresholds; `archive`, which copies.
* The log ring: a queue under one mutex, of which a property would repeat the
  code.
* Hooks and commands that send one request or read one shard and print; rendering
  in the vision app and the editor; benchmarks and installers.

## 8. Plan

Done: every component of section 2 as a model with its run; proofs about the job
queue and its ledger, the child manager, the store's write path, the live bus, the
build lock and the watcher, audit, rebuild, install and rollback, the leases, answers,
index, lifecycle, scans and edits of the worker processes, topics, recall, resume
bundle, fingerprints, context pack, conventions, graph commands, moves of the clustering
and the prompt hook. Every safety invariant and action property of a passing run is proved.

Left, by importance:

1. `Shutdown`: `StopTypeOK`, and that a stop that was noted is acted upon once.
2. The liveness properties of section 5, should a prover for fairness become available.

# Litefuse: TLA+ models, TLC runs and TLAPS proofs

This directory is a verification development for the stateful core of Litefuse:
how trace data gets from the OTel endpoint, over Redis and BullMQ, into Doris
exactly once; how a project gets tables of its own; how rows are buffered and
shipped by the worker; how scores are merged from event files and deleted; how
evaluators score a trace; how prompts are versioned and cached; and how
background migrations are run by one of many workers. The modules are
translated from the code (paths below are relative to the repository root,
`shared` is `packages/shared/src`).

Run a model check with `tlc -config <run>.cfg <MC module>.tla`, a proof check
with `tlapm <module>_proofs.tla`. `PROJECT.json` names, for every definition,
the lines of code it stands for, for every property a small change of the model
that breaks it, and the hazards of the code with the properties that cover them.

## 1. Inventory

### 1.1 The exactly-once OTel path

| Part | State it keeps | Operations | Talks to |
|---|---|---|---|
| Registration (`shared/server/redis/otelPendingGroups.ts`) | pending list of a project lane, one registration key per file | `REGISTER_LUA` (SET NX + RPUSH), with the client's resends | web endpoint, grouper |
| Grouper (`worker/src/features/otelGrouper/index.ts`) | lease of the lane domain, lock stamp of each lane, staging hash, quarantine list; per process: rotation over lanes, set of ready lanes | `tick`: lease, recovery of staged groups, cut, publish, clear | Redis, ingestion queue, split-table snapshot |
| Group job (`worker/src/queues/otelGroupJobProcessor.ts`) | BullMQ job, completion ledger | retention gate, transform, labelled load of spans and of scalars, sessions, ledger | Doris, PostgreSQL, Redis |
| Doris client (`shared/server/doris/client.ts`) | labels in Doris | labelled stream load, "label already exists" handling, wait for publication | Doris |
| Redrive (`worker/src/services/dlq/otelDlqRedrive.ts`) | redrive count in the job, poison ledger | age guard, poison record, remove and add | ingestion queue |

What makes it hard: a lease can be lost by a live leader between two round
trips; a Lua script can be interrupted half-way (Redis does not roll back); a
command can take effect and its reply be lost; a load can commit after its
caller gave up; a job can be run by two workers at once after a stall; labels
are forgotten after some days while failed jobs can be run again.
What makes it correct: no acknowledged file is lost, a file is in one group, a
group is loaded once into each table, a ledger certifies a complete load, what
a user deleted stays deleted, every group ends in a ledger.

### 1.2 Tables of a project

| Part | State it keeps | Operations |
|---|---|---|
| Designation (`shared/server/doris/dorisProjectTableSplitControl.ts`) | control row: none, pending, live | create with its race, enqueue, delete |
| Provisioning (`splitProjectActivation.ts`, `provisionSplitTables.ts`, queue and processor) | base tables, time to live, materialized view, BullMQ job | inline with a timeout, fallback job, flip |
| Snapshot (`tableSplitCache.ts`) | per process copy of the rows | timer and broadcast refreshes that overlap |
| Readiness gate (grouper) | lanes seen ready, kept for ever | probe |
| Deletion (`queues/projectDelete.ts`, `features/doris-project-cleanup`, `features/batch-project-cleaner`) | tombstone | row, snapshot, tables, project row |

Hard: two provisioners at once (the timed out inline run goes on), statements
that are not idempotent, a provisioning id that swallows later enqueues,
deletion under a provisioner that has read the row.
Correct: a live row has its tables, a ready lane can be loaded, a designated
project goes live, nothing of a deleted project comes back, the time to live
follows the setting.

### 1.3 DorisWriter

`worker/src/services/DorisWriter/index.ts` keeps, per table, a queue of rows, a
byte count and a buffer of failed batches, and one pool of drain workers, one
retry timer and one list of blocked producers for all of them. It is called by
queue jobs (`addToQueue`), by timers and by `onShutdown`
(`worker/src/utils/shutdown.ts`). Hard: several loops of one event loop take
from the same buffers; a byte count that is adjusted in many places; one timer
armed and cancelled by everybody; wake-ups; a flush next to running workers.
Correct: a row is in one place until it is written, no producer and no retry is
forgotten, no table starves, shutdown leaves nothing behind it can help.

### 1.4 Scores

| Part | State it keeps | Operations |
|---|---|---|
| Upload (`shared/server/ingestion/processEventBatch.ts`) | event files in the bucket, jobs | store each event's file, then enqueue its job |
| Ingestion job (`queues/ingestionQueue.ts`) | log of stored files, cache of files seen, mark of a slow bucket, two queues | log, redirect, list and download all files of the score, skip if seen, merge |
| Merge (`services/IngestionService/index.ts`) | none | read the row there is, merge, hand the row to DorisWriter |
| Deletion (`queues/scoreDelete.ts`, `features/scores/processDorisScoreDelete.ts`, `ingestionFileDeletion.ts`) | soft deletions in the file log | find the files in the log, unlink them, mark them; delete the row; side by side |

Hard: every job merges all files it can list with the row it read, so jobs of
one score race and repair each other; the table keeps what was loaded last; a
deletion goes by a log that is itself loaded asynchronously, and does its two
halves at the same time.
Correct: what was accepted ends up in the row and is not hidden or taken back
by older data; what was deleted comes back neither as a file nor in the row.

### 1.5 Evaluations

| Part | State it keeps | Operations |
|---|---|---|
| Creator (`evalService.ts: createEvalJobs`) | rows of `job_executions`, the cache "this project has no configurations" | find configurations, read the trace, look for earlier rows, create, enqueue, cancel what no longer matches |
| Executor (`evalQueue.ts`, `evalService.ts: evaluate`) | status of a row, execution jobs | load the row, call the model, write the score, complete, retry later, fail, block the configuration |
| Retry (`features/utils/retry-handler.ts`) | delayed jobs | add the next attempt, mark the row |
| Configurations (`web/src/features/evals/server/router.ts`, `blockEvaluatorConfigs.ts`) | active or not, blocked or not | activate, deactivate, clear the cache |

Hard: nothing in the table stops two rows for one trace and configuration; a
row's status is written by several jobs without a condition; the retry is added
before the row says so; a cache that is written by one query and cleared by
another request.
Correct: a trace that matches is evaluated, once, and a completed evaluation
stays completed.

### 1.6 Prompts

| Part | State it keeps | Operations |
|---|---|---|
| Mutations (`createPrompt.ts`, `updatePrompts.ts`, `deletePrompt.ts`, `promptRouter.ts`) | versions with arrays of labels, dependencies | read, plan, one transaction (two statements without one in `deletePrompt`), rotate the epoch |
| Reads (`PromptService/index.ts`) | cache of resolved prompts under the epoch of the project | get epoch and entry, resolve with what is included, store |

Hard: a mutation plans from what it read before its transaction; the epoch is
rotated after the commit, and a read may overlap both.
Correct: a label belongs to one version, what is included resolves, the cache
is what the database says.

### 1.7 Background migrations

`worker/src/backgroundMigrations/backgroundMigrationManager.ts`: the rows of
`background_migrations` carry a lock that the loop takes, a heartbeat keeps
fresh and `close` releases; `migrationToRun`, `activeMigration` and the
heartbeat's timer are shared by these three strands of a process;
`worker/src/utils/shutdown.ts` awaits `close` before it flushes DorisWriter; an
administrator can retry a migration
(`web/src/features/background-migrations/server/background-migrations-router.ts`).
Hard: strands interleave at every await; a lock expires under a live process.
Correct: one migration runs at a time, in order; it is marked only when it ran;
all get done; locks are freed; a shutdown gets past `close`.

### 1.8 The rest

`PROJECT.json` lists every other part with the reason it is not modelled: the
reconciliation script, dead letter retry of the other queues, locks and periodic
runners, event propagation, batch exports and actions, integrations, trace
deletion and retention, webhooks, API keys, and the user interface, the query
builder, the schema and API definitions.

## 2. Modules

| Module | Models | Granularity |
|---|---|---|
| `OtelGrouper` | registration, lease, tick of one lane, by any number of workers | one action per Redis round trip, a Lua script is one action |
| `OtelPartition` | what the grouper promises: files are gathered into disjoint groups, decided once, then published | abstract specification, implemented by `OtelGrouper` |
| `OtelGroupJob` | one group's job, loads, ledgers and redrives | one action per call to PostgreSQL, Redis or Doris; load transactions have a life of their own |
| `SplitTables` | one project's control row, tables, view, snapshot, readiness, deletion | one action per call |
| `DorisWriter` | buffers, pool, retries, backpressure, shutdown | one action per stretch of code between two awaits |
| `DorisBuffer` | what the writer promises: an outbox with backpressure, whose batches are formed once, in order and within limits, and never split or merged | abstract specification, implemented by `DorisWriter` |
| `ScoreEvents` | files, jobs, merge, load and deletion of one score | one action per call to bucket, Redis or Doris |
| `EvalJobs` | creators, executors and configurations of one trace | one action per call to PostgreSQL, Redis, the queue or the model |
| `Prompts` | the versions of one prompt, one that includes it, mutations and cached reads | one action per call; a transaction is one |
| `BackgroundMigrations` | loop, heartbeat, close and shutdown of any number of processes | what a strand does up to its next await |
| `MC...` | constants for TLC | |
| `..._proofs` | theorems | |

### OtelGrouper and the code

`log`/`live` is the pending list (an append-only log and the positions still on
it, so that nothing is renumbered by LTRIM/LREM), `staging` the manifest hash,
`jobs` the groups ever added to the queue, `lease` and `laneLock` the two keys,
`held` the worker's belief about the lease. `Register`, `ForeignPush` and `Age`
are producers and time; `StartTick` ... `Cut...` follow `tick` and `tickLanes`;
`Scan` ... `Clear` the recovery and `publish`. A group is the set of its files,
as in the code, where its id is a hash of the sorted file keys.
A failed command (`error`) did or did not take effect; a script can stop after
any of its writes (`partial`, the cut and the reconciliation); a live leader can
lose its lease (`stall`); a worker can die anywhere (`crash`).

### OtelGroupJob and the code

`pc` walks through `otelGroupJobProcessor`: `Prepare` (project, transform),
`Load("spans")`, `Gate` (scalar gate), `Load("scalar")`, `Sessions`,
`WriteLedger`. `txn[t]` is the transaction under the label of table `t`; a
caller waits for it, is deduplicated by it, or gives up on it (`GiveUp`) while
it goes on. `ReadFailed` ... `AddAgain` are one redrive cycle. Time is an integer
clock that counts from the publication; it may pass at any point, so that jobs
wait and loads take as long as they like. `AgeLimit <= LabelKeep` is what
`worker/src/env.ts:127` asks for ("must mirror"; both are three days unless
configured). `outlived` is history: the tables whose label the database forgot
while the job was still under way (`Busy`: queued, running, loading, or decided
to be redriven). That does happen with the shipped values (section 5).

### SplitTables and the code

`row` is the control row, `pc` the two provisioners (the inline run in the web
server and the job), `cleaning` the two cleaners, `reads` snapshots read and not
yet swapped in. `past` is history and names what a property excludes:
`overlap` (the row was deleted under somebody who had read it), `ignored` (an
error kept it from being deleted), `unqueued` (an enqueue was lost), `overtaken`
(a change of the retention was lost, or met a provisioner that had read the old
one: the active job, which swallows the new one, `WillRead`, or an inline run
that goes on after its timeout, `InlineOutdated`).

### DorisWriter and the code

`loading` are the batches drain workers are loading, `loops` the workers between
two batches, `exits` the ones that returned and whose `finally` has not run;
together they are `activeWorkers`. `later` and `due` are the retry buffer before
and after the backoff, `timer` the retry timer. `sync` is not `"none"` while a
synchronous stretch with several iterations runs (`scheduleDrain`,
`flushRemaining`'s collection); only time passes then. Timers fire when no
microtask is pending (`Quiet`). A row that left may be added again: the stream
of rows never ends, which is what makes starvation possible at all.
Producers are gone when `shutdown` is called, because `onShutdown` has closed
the queue workers first.

### ScoreEvents and the code

A file is its number, in the order of the times of its events; a row of the
table is the set of files it was merged from, the one whose values it shows and
the time of the first. `client` follows `processEventBatch` (stored, accepted),
`waiting`, `tries` and `stalled` the jobs of each file in the two queues, `work`
the job a worker runs (`List`, `Download`, `Mark`, `Read`, `Write`), `buffer`
what the worker's DorisWriter holds: log entries and rows, loaded in any order
(`Log`, `Load`), lost with the process (`Crash`) or given up after its last
attempt (`Discard`). A job whose lock expires (`Stall`) goes on beside its
successor; one that stalls a second time fails for good (`Failed`), as does one
whose worker dies then. `erasure` has the two halves of
a deletion. `Settings` picks the deployment (file log on or off, cache of seen
files on or off), the files whose event does not validate, and the faults.
`kept` and `erased` are the promises: files leave `kept` when something happens
that the code cannot repair (a job that gave up or lost its buffer, an older
load after a newer one), and `erased` when a job that had read them was at work
when the deletion ran.

### EvalJobs and the code

`creator[j]` is one job of the creator queue with what it has read (`todo`
configurations, the trace as it was read, the rows it `seen`); `of` and
`status` are `job_executions`; `exec[e]` is one run of an execution job, which
may no longer own its lock; `noConfigs` is the cache, with the truth of what it
says. The configurations in `Always` have sampling 1; others may be sampled
out. `owed` names the configurations that must evaluate the trace, `once` those
that may do so at most once; a step that the code gives no promise about takes a
configuration out of them, and says so at the step (two creators that overlooked
each other's row, a run that is repeated after it answered, a lost lock, a
cancellation). `UpsertTries` is `LITEFUSE_TRACE_UPSERT_QUEUE_ATTEMPTS`.

### Prompts and the code

Rows have a version and a set of labels, and `dep` is what the other prompt
includes. A mutation reads (`Look...`), plans what to write (`Plan...`),
commits or is rolled back by the unique key of versions (`Commit`, `RollBack`),
deletes what it still has to (`Remove`), rotates (`Rotate`), and may end
half-way (`Fail`). An entry of the cache holds what it resolved to and what it
was asked for, because a label that is spelled like a number shares the key of
that version (`Key`; `Number` is 0 everywhere in the run). Entries of older
epochs are dropped: nobody can reach them. `raced` are entries written by a
read that a commit overtook.

### BackgroundMigrations and the code

`pc`, `target`, `quit` are the loop of `run`; `active`, `aborted`, `chain` the
fields and the timer it shares with the heartbeat and with `close`; `closing` and
`closes` the strand of `close`. A call to PostgreSQL takes effect when its reply
arrives; `Expire` is the passing of the 60 seconds of a lock. `past` names what
happened that a property excludes.

## 3. Runs

| Run | Checks | States | What it shows |
|---|---|---|---|
| `grouper_safety` | NoEntryLost, OneGroupPerFile, OneLateCutPerLostLease, RefinesPartition | 2.0 M | two workers, two files and an undecodable entry, one fault of each kind |
| `grouper_live` | FilesGetPublished, PoisonGetsQuarantined, StagingDrains | 68 k | files are published, poison is moved away, manifests are cleared |
| `job` | LoadedOnce, LedgerMeansLoaded, ErasedStaysErased, NoSilentLoss, Settled | 2.5 M | two slots, two overlapping redrive cycles, one fault or a crash with another; the age limit equals the label's retention |
| `split_safety` | FlipGate, ReadyMeansBuilt, NoResurrection, TtlFollows | 6.9 M | provisioning faults, a change of the retention among faults, or a deletion, with two requests |
| `split_live` | GoesLive, LaneGetsReady, CacheConverges | 0.1 M | an inline run that is given up and one of: a failed call, a crash, a lost enqueue, a cancelled view |
| `split_lost` | KickIsRecoverable, violated | | a lost enqueue leaves the project pending for ever |
| `writer_main` | HeldExactlyOnce, BytesAccountedFor, NoLostWakeup, DueIsServed, FlushIsThorough, RowsLeave, ImplementsBuffer | 0.12 M | two drain workers, two tables, two failures, a shutdown at any moment |
| `scores` | Reflected, NeverGoesBack, StaysErased | 7.2 M | two files of a score, jobs that overlap, one deletion with a retry, three deployments |
| `evals` | Evaluated, ScoredOnce, CompletedStays | 4.3 M | two upserts or backfills, two executors, two things that go wrong or change |
| `evals_cache` | CacheMeansNone, violated | | a backfill of an inactive configuration tells ingestion that the project has none |
| `prompts` | LabelsAreUnique, DependenciesResolve, CacheIsFresh | 1.1 M | two mutations that overlap, and reads through the cache |
| `migrations` | RunsAlone, FinishedMeansRan, ShutdownPassesClose, AllGetDone, LocksAreFreed | 0.16 M | two processes, two migrations, any two kinds of event |

`TypeOK` of each module is proved (section 4) and not run.

### Bounds

Every bound is a constant: budgets of faults (`MaxFaults`, `Budgets`,
`MaxFailures`, `MaxEvents`, `MaxFails`), cuts in a tick, attempts, redrives, the
horizon of the clock.

- Grouper: a hazard needs two workers (old and new leader), two files (a group
  and a second one that shares a member) and one entry that does not decode
  (at the head of the list). A file gets into two groups when all faults are
  allowed, by one partial script and one stall, so one of each kind is enough
  to meet it; the run excludes the pair by `Apart`, which lists the pairs of
  kinds of fault that do not occur in the same behaviour (`NotBoth`). The
  theorems show that a partial script is the only reason.
- Group job: a second slot gives the overlap of a stalled run with its
  successor, a second cycle a redrive that works on an old read. One attempt, one
  stall and one redrive repeat a job twice; a retry within an envelope repeats it
  the same way as a redrive. The unit of time is the label's retention, which is
  also the age limit, as in `env.ts`: a group is young (instant 0) or too old
  (instant 1), and a label of instant 0 may be forgotten in instant 1, also while
  the job is under way. A behaviour has one fault of any kind, or a crash and
  a lost reply or a failed call (`Separate`); the safety properties are proved
  for any number of faults.
- Split tables: `Budgets` is a set of event budgets, one is picked at the start:
  faults of provisioning; a change of the retention together with an inline
  timeout, a failed call, a crash and a lost enqueue; deletion with an error. For
  liveness an inline timeout with one failure more, and jobs of three attempts,
  which are more than the failures (a job that has used them up is `failed`, and
  its project waits for an operator).
- DorisWriter: table `a` has a row of one byte and one of two with a cap of two,
  so that it is at the cap with the large row alone or with both; a batch holds
  one row or both; table `b` competes for the rotation. Two failures give two
  parked batches with one timer, and a batch that is dropped at its second
  attempt. `MaxBatchBytes` fits both rows of `a`: a batch cut short by bytes
  does not occur in this run.
- Scores: an order needs two files, an overlap two workers; a job has two
  attempts, so that it can be repeated and can give up. Each of the settings has
  one thing switched on: the file log (deletions of files), the cache of seen
  files (with two faults, because a job must die after it marked and again be
  repeated), an event that does not validate.
- Evaluations: one configuration with full sampling and one that may be sampled
  out, of which the trace may match the first; two creators and two executors
  overlap; two rows are what it takes to evaluate twice. A run that is repeated
  needs one event, a run that is repeated while it goes on a second.
- Prompts: two mutations, because every race is between one that has read and
  one that commits; a version to move labels from and one to move them to; one
  of them may end half-way. The read asks for a label or for the prompt that
  includes this one.
- Migrations: one process takes over from another and goes on to the next
  migration; each behaviour draws any two kinds of event (error, stall, crash,
  termination, retry, invalid migration ...), each once, or one kind alone.

Symmetry is used in safety runs only. Deadlock is not checked where the system
may come to rest (all files published, the group in a ledger, no event left, all
processes gone); `DorisWriter` has an explicit `Exited` step instead and is
checked for deadlock.

### Fairness

- `OtelGrouper`: a live worker's timer fires again and its commands return or
  fail; entries age; the lease of a dead leader expires (it has a time to live).
- `OtelGroupJob`: BullMQ hands out waiting jobs and finds stalled ones, calls
  return, Doris ends its transactions, the redrive runs every ten minutes.
- `SplitTables`: requests and jobs that began go on, refresh timer and probe run
  for ever, Doris finishes a build unless it was cancelled.
- `DorisWriter`: the event loop does not idle; time passes; a load ends (a
  server side limit of ten minutes and a socket timeout) and timers fire:
  strongly fair, because they are disabled during every synchronous stretch and
  yet happen after it.
- `BackgroundMigrations`: a loop and a `close` that have begun get replies, a
  migration ends, and a lock without a heartbeat expires. Processes need not
  start.

Nothing is assumed of users, producers, shutdowns or the outcome of a call.
`ScoreEvents`, `EvalJobs` and `Prompts` have no fairness and no liveness
properties. What must have happened in the end is said there of the states in
which nothing is left to do (`Quiet` in `Reflected` and `Evaluated`): a lost
event or evaluation shows as a quiet state in which it is missing.

## 4. Theorems

All are checked by TLAPS for every value of the constants that satisfies the
module's named assumption (`GrouperAssumption`, `GroupJobAssumption`,
`SplitTablesAssumption`, `PoolAssumption` and `RowAssumption`,
`ScoreEventsAssumption`, `EvalJobsAssumption`, `PromptsAssumption`,
`BackgroundMigrationsAssumption`), which TLC evaluates on every run.

- `OtelGrouper_proofs`
  - `TypeCorrect`: `TypeOK`, with the strengthening that a worker about to cut
    has a cut left (the count never drops below zero).
  - `NothingIsLost`: `NoEntryLost`. The invariant says where an entry is at
    each point of cut, recovery and publication; the manifest is written before
    the list is trimmed and the job added before the manifest is cleared.
  - `FilesInOneGroup`: `OneGroupPerFile`, if scripts are not interrupted
    (`MaxFaults["partial"] = 0`), with any number of leaders at once. The
    invariant that carries it says that what is decided is no longer on the list
    and that no file stands on the list twice: each cut, as one step, then
    takes files that no group has.
  - `ImplementsPartition`: the refinement, under the same condition.
  - `LateCutsAreBounded`: `OneLateCutPerLostLease`. The invariant counts the
    workers that confirmed their lease, lost it and have not cut yet (`Owing`):
    a lost lease adds one of them, a confirmation none, a late cut takes one.
- `OtelGroupJob_proofs`
  - `TypeCorrect`.
  - `ExactlyOnce`: `LoadedOnce`, from `AgeLimit <= LabelKeep` alone, which holds
    with equality as shipped. Unless it is outlived, a label is forgotten only
    when the job is over and older than the age limit; nothing but a decision to
    redrive gets a job under way again (`BusyStep`), and none is taken at that
    age (`StaysOver`, `LabelInv`).
  - `LedgerCertifies`: `LedgerMeansLoaded`, without a condition. The invariant
    carries what a run and a load know: a run that stands behind its load of a
    table has seen that table committed, or its project is gone
    (`LedgerEarned`).
  - `DeletionsHold`: `ErasedStaysErased`: what was erased had been committed, so
    that a load which commits after the deletion would be the second of its
    table, whose label was then outlived (`ErasedInv`).
  - `LossesAreRecorded`: `NoSilentLoss`, without a condition. A worker that is
    done with the job, and a cycle about to discard it, has seen an entry of a
    ledger (`LossInv`).
- `SplitTables_proofs`
  - `TypeCorrect`.
  - `FlipGateHolds`: `FlipGate`, and `ReadinessHolds`: `ReadyMeansBuilt`. Both
    rest on two facts: a cleaner at work means a deleted project
    (`CleansDeleted`), so that tables of a living one stay; and a provisioner
    past the creation of a table has that table until a purge (`FlipsBuilt`).
  - `DeletionIsFinal`: `NoResurrection`. Once the row is gone without overlap,
    nobody holds it (`CreatedInv`, `RowInv`): no provisioner is between reading
    the row and using it, so that what the purge drops stays dropped
    (`TablesInv`).
  - `RetentionIsApplied`: `TtlFollows`. While no change waits to be queued and
    none was overtaken, every provisioner past its read has the project's
    retention (`InlineInv`, `WorkerInv`), what the job has altered stays so
    whatever the inline run does beside it (`AlteredInv`), and without a job all
    tables have it (`SettledInv`).
- `DorisWriter_proofs`
  - `NoWakeupIsLost`: `NoLostWakeup`. Inductive with the shape of the buffers
    (batches consist of rows, so their bytes are natural numbers) and with the
    statement extended to every synchronous stretch but the flush's collection,
    the one place that lowers bytes before it notifies.
  - `RetriesAreServed`: `DueIsServed`. While the callback of an expired timer
    runs it has the pool to itself, so that the retries it has taken over are
    served by the workers it starts (`DueInv`).
  - `FlushLeavesNothing`: `FlushIsThorough`. Every accepted row is buffered,
    collected or loading; what is so after the last pass of the flush is one of
    the excused rows (`FlushInv`).
  - `NoRowIsLostOrDoubled`: `HeldExactlyOnce`, and `BytesNeverDrift`:
    `BytesAccountedFor`, from one invariant (`PlaceInv`). Fresh rows and the two
    kinds of parked batches are what a table is charged for (`Charges`); loads,
    the wave and the tasks of a flush are away (`AwayInv`). No two places share a
    row, nor two batches of one place, and together they have the accepted rows.
    A row leaves one place for another in the step that changes the bytes; that
    the bytes of disjoint sets add up is part of `RowAssumption`.
  - `TypeCorrect`: `TypeOK`, with the limit of the pool: loads and loops of
    drain workers never exceed the slots (`PoolInv`).
  - `WriterIsAnOutbox`: the refinement `ImplementsBuffer`. Fresh rows are the
    queues, parked batches the retry buffer before and after the backoff, taken
    ones those of workers, wave and tasks. That a batch taken from a place is no
    longer there, and one whose load ended is nowhere, needs that places share
    no row (`PlaceInv`) and that a batch has one (`BatchInv`); the cap is the
    promise's because the bytes are exact (`Charges`). The passing of a backoff,
    the start of a wave and all of the timer and the loops are stutters.
  - `MemoryIsBounded`, for the doc comment of the class
    (`DorisWriter/index.ts:66`): if no row is larger than `n` bytes, drain
    workers load at most `Slots * LargestBatch(n)` bytes at any time, and what
    the process holds of a table is less than the cap, one row and that much.
    Batches are small because the outbox forms them so (`SmallBatches`, by the
    refinement); the bytes of the loads are bounded for every part of them
    (`FlightInv`), which survives the end of any load without an induction over
    sets; the bytes of a table grow only when a row is let in below the cap
    (`HeldBytes`). It is not run: the sizes that make it tight need many rows.
- `ScoreEvents_proofs`
  - `TypeCorrect`.
  - `DeletionLasts`: `StaysErased`. The invariant follows the erased files
    through the deletion: they were found in the log (`FoundInv`,
    `UnloggedInv`), they are no longer stored once unlinked (`UnstoredInv`), and
    no job or row in flight has them once both halves are over (`ClearInv`,
    `UnreadInv`).
  - `NoEventIsLost`: `Reflected`. An accepted event is shown by the row, is in a
    row or a job about to be merged, or awaits the delivery of a job that will
    find it; one that counts as seen is past the last of these (`ServedInv`).
  - `NoEventIsTakenBack`: `NeverGoesBack`. Once the row has an event, no job at
    work and no row in flight was computed without it (`LaterInv`).
- `EvalJobs_proofs`
  - `TypeCorrect`.
  - `CompletionLasts`: `CompletedStays`, and `OneScore`: `ScoredOnce`. A
    configuration still in `once` has at most one delivery of each row (alone in
    the queue or with one executor: `AloneInv`, `UnusedInv`, `RestingInv`) and
    at most one row that is alive, which every creator has seen (`SeenInv`).
    A score then belongs to the one run that can write it (`ScoreInv`).
  - `EvaluationsHappen`: `Evaluated`. What is owed is scored, failed visibly, has
    an open row that a job will run, or a creator still to consider it
    (`CareInv`); a cache that says there are no configurations does not say so
    of one that is owed (`CacheInv`), and a completed row was scored
    (`EarnedInv`).
- `Prompts_proofs`
  - `TypeCorrect`.
  - `CacheFresh`: `CacheIsFresh`. A read that was not overtaken holds what the
    database says (`FreshReads`), and a mutation that has deleted something is
    one that rotates (`DeletesWrite`).
  - `DependentsAreSafe`: `DependenciesResolve`. A mutation that nobody overtook
    still knows, at each of its steps, what it has read (`Knows`), and the rows
    it creates are fresh (`CreatedInv`).
  - `LabelsUnique`: `LabelsAreUnique`. Only "latest" is ever shared (`Distinct`),
    by rows about to be deleted and their heir, the highest of the rest
    (`Heirs`); what a mutation that nobody overtook is about to commit keeps
    this so (`Safe`).
- `BackgroundMigrations_proofs`
  - `TypeCorrect`.
  - `OneAtATime`: `RunsAlone`. Until one of the excluded events has happened,
    who works on a migration owns its fresh lock, and a lock is taken only for
    the first open migration (`LockInv`).
  - `MarksAreEarned`: `FinishedMeansRan`, without a condition: a run that has
    returned is in `done`, or was aborted by a `close` that has not released.
  - `CloseGetsThrough`: `ShutdownPassesClose`. As long as nothing excluded has
    happened, a `close` that is about to release finds the row it means, with a
    lock that its own process holds (`CloseInv`).

The inductive invariants are stated next to the theorems, as conjunctions of
named parts, each with a sentence of what it says.

Every safety invariant and every action property of the passing runs is a
theorem. Only model-checked: liveness, and everything about `ENABLED`, which the
prover does not reach (`AllGetDone`, `LocksAreFreed`, `RowsLeave`,
`FilesGetPublished`, `PoisonGetsQuarantined`, `StagingDrains`, `Settled`,
`GoesLive`, `LaneGetsReady`, `CacheConverges`).
No module declares a recursive operator.

## 5. Disagreements met

`evals_cache` and `split_lost` are runs of their own, quoted in `PROJECT.json`.
The others show as conditions in properties that hold, or were seen in the
code while it was modelled.

OTel path:

- With a partial script and a lost lease in one behaviour a file gets into two
  groups: the old leader's cut stops between its writes, and the new leader
  cuts again what is still on the list (`NotBoth`; `FilesInOneGroup` is proved
  without partial scripts).
- The fence of a late leader is stamped after its confirmation: a leader that is
  paused between its stamp and its cut passes the fence, so one late cut per
  lost lease remains possible (`OneLateCutPerLostLease`;
  `features/otelGrouper/index.ts:543`, `otelPendingGroups.ts:565`).
- The age guard of the redrive ("a blind replay would double-load",
  `env.ts:129-130`) compares the age when it decides; the attempts it allows
  come later, and may wait, fail and be repeated for hours. `env.ts:127-135` has
  the age limit equal to `label_keep_max_second` ("must mirror", three days each),
  which leaves no room for them: a redrive that is decided shortly before the
  limit, and in the same way any job that is still under way three days after its
  load committed, can find its label forgotten. The group is then loaded a second
  time, and rows of a trace that was deleted in between come back. The model does
  both; `LoadedOnce` and `ErasedStaysErased` exclude exactly these tables
  (`outlived`). A limit below the label's retention by the longest envelope would
  close the gap for redrives.

Tables of a project:

- A view whose build was cancelled after the flip is never created again: the
  grouper takes it for one that is being built (`otelGrouper/index.ts:413`). The
  runs have cancelled views; `LaneGetsReady` excuses one that stays cancelled.
- A change of the retention is dropped in two ways (`overtaken` in
  `TtlFollows`): the project's provisioning job is active and has already read
  the old value, so that its id swallows the new job
  (`web/src/features/projects/server/projectsRouter.ts:227`); or an inline run
  that was given up (`splitProjectActivation.ts:104-107`) read the old value and
  alters the tables back after the new job has altered them
  (`provisionSplitTables.ts:140-148`).
- A provisioner or an ingestion request that read the control row before a
  deletion creates row or tables again (`overlap` in `NoResurrection`;
  `worker/src/queues/projectDelete.ts:54`).
- An enqueue that is lost leaves the project pending: later requests return early
  because the row exists (`dorisProjectTableSplitControl.ts:164`), the grouper
  heals lanes of live rows only, and nothing reconciles pending rows, where the
  comments say that the kick is "RECOVERABLE" (`:97`) and that "the grouper
  self-heal re-drives it too" (`splitProjectActivation.ts:83-85`). The run
  `split_lost` shows it; `GoesLive` excuses an enqueue that was lost (`unqueued`).
  Only a later change of retention, plan or organization queues a job again. A
  web server that dies before the fallback has the same effect and is no event of
  the model.
- A database error while the row is deleted is taken for a row that is already
  gone (`ignored`).

DorisWriter:

- During shutdown the drain pool keeps running, so that up to twice
  `maxConcurrentLoads` loads are in flight, where the comment of
  `flushRemaining` (`DorisWriter/index.ts:767`) says that it is bounded by one
  time; and `shutdown` returns while a drain worker may still load.
- "Total worker memory is bounded by ~maxQueueSizeBytes" (`DorisWriter/index.ts:67`):
  the cap is one of each table, so that the bound holds for a table
  (`MemoryIsBounded`), and the buffers of all together may hold as many times
  the cap as there are tables.

Scores:

- When the file log is off (`env.ts` has it off unless configured), a deletion
  leaves the files, and a later event of the score revives the old data;
  `erased` then promises nothing. With the log on, a deletion unlinks only the
  files whose log entry the worker's DorisWriter has already loaded.
- `ingestionFileDeletion.ts` finds files by a query that ignores the mark
  `is_deleted`.
- `IngestionService/index.ts:797` says that an invalid score is rejected
  silently; when there is no row yet, the merge of nothing throws ("No records
  to merge") and the job fails all its attempts.
- `processEventBatch.ts` says that a batch that cannot be uploaded goes to the
  Redis queue as a whole; the code throws.
- The ingestion queue is not among those the dead letter retry serves; the queue
  of score deletions is. A row is read only if it is not older than the first
  listed event. The table keeps what was loaded last, whatever it was merged
  from (`NeverGoesBack` speaks of `kept`).

Evaluations:

- A query for one configuration (a backfill) that finds nothing sets the cache
  for the whole project: the run `evals_cache`.
- Nothing but a look at the table keeps two creators from making a row each
  (`once` loses the configuration in that step), and a dead row of an earlier
  trace counts as one that exists.
- The retry is added before its row says `DELAYED`, and a row that was rate
  limited for more than a day is set to `DELAYED` with no retry to come, where
  the diagram in `evalQueue.ts` has `ERROR`.
- Sampling is drawn anew at each upsert, so that the chance grows with them.

Prompts:

- A mutation reads before its transaction. `setLabels` and `deleteVersion` that
  overlap with another mutation can leave a label at two versions or drop it;
  `LabelsAreUnique` and `DependenciesResolve` name the overlap they exclude.
  `deletePrompt` is two statements without a transaction; the rotation in the
  router's `delete` is not awaited (`promptRouter.ts:552`); the check for
  prompts that include this one is skipped for a version without labels
  (`promptRouter.ts:617`).
- A label that is spelled like a version number shares the cache key of that
  version; the run takes labels that are not (`Number` is 0).

Background migrations:

- "Only one background migration can run at a time" (README of the feature) does
  not hold after the retry of an earlier migration while a later one runs, nor
  after a stall of more than 60 seconds (`past` in `RunsAlone`).
- A migration whose run ends between the abort and the release by `close` is
  marked as finished although it was aborted
  (`backgroundMigrationManager.ts:130`; `ended` in `FinishedMeansRan`).
- A process that found the lock taken ends its loop, so that the other worker
  that "will pick up" the migration must be one that starts later.
- If `close` rejects, `onShutdown` does not reach the flush of DorisWriter; a
  loop that was rejected leaves its heartbeat running, which keeps the lock
  fresh; after `close` the loop can take a lock again; a heartbeat that is
  rejected ends the process.

## 6. Not modelled, and why

- Contents of rows, transformation, table names, log lines, metrics.
- Grouper: rotation over lanes and the readiness gate inside the tick (the gate
  is in `SplitTables`), gauges. Other lanes are time that passes.
- Group job: the load semaphore, the eviction of failed jobs after seven days,
  the difference between the retention of a ledger (ten days) and of a label
  (three days), the retention setting that each attempt reads anew; one group at
  a time, since groups share neither labels nor jobs.
- Split tables: the negative cache, the cold start barrier, operators' DROPs. A
  crash and the requeue of its job are one step.
- Deletion of projects: media, stored files, scores and dataset runs; the
  cleaner's lock.
- DorisWriter: labels of `stableLabelTables`, which is an empty set; the order
  in which parked batches of one table are collected by a flush.
- Scores: traces and observations of this path are not written any more
  (`blobStorageLog.ts`: an OTel-only contract), so that only scores are merged;
  all events are of one name and one day; unsampled events and batches of
  several are left out; a deletion whose one half goes on after the other was
  rejected is not told from one that starts anew.
- Evaluations: dataset items and observations, the deletion of a configuration
  with its rows, the traces of the evaluator itself. The trace is visible to the
  creator that its upsert adds. The score an evaluator writes takes the path of
  `ScoreEvents`.
- Prompts: tags, commit messages, folders, protected labels, webhooks; chains of
  more than one inclusion.
- Background migrations: what each migration does.
- The components with status `not_modelled` in `PROJECT.json`, each with its
  reason: they are scripts, single writers of one status column, exporters to
  third parties, or have no state machine of their own. They are most of the
  repository's lines, so that the map covers a small share of them.

## 7. Continuations

None of the modules depends on these.

- The grouper's promise (`OtelPartition`) composed with group jobs: a file is
  loaded once, end to end. Groups share no state, so that the composition adds
  no interleaving to `OtelGroupJob`, but it would state the promise of the path
  in one place.
- `candidateLanes` and the rotation of `tickLanes`: is every lane served when
  there are more of them than cuts in a tick?
- Trace deletion in batches (`pending_deletions`), and the cursor of event
  propagation.

# Formal models of Wadjet's storage, catalog and coordination protocols

Wadjet is a distributed SQL analytics engine. Its tables are Parquet objects in
an object store, listed by *manifests* in a catalog KV (in memory, or NATS
JetStream). SQL statements, ingesters, compactors and sweeps rewrite the catalog
at the same time; a coordinator splits queries into stages of tasks, dispatches
them to workers, and cleans up after them; workers upload what their tasks
produce. This directory models the protocols between these actors, checks them
with TLC and proves their safety with TLAPS.

## The system and what is modelled

| Part | Code (`src/internal/` unless said) | Module |
|---|---|---|
| Manifest commits, INSERT, DELETE, UPDATE, MERGE, compaction, delete-marker GC | `storage/catalog/dml_commit.go`, `compaction_commit.go`, `storage/compaction`, `src/wadjet/dml.go` | `TableManifest`, implementing `TableRows` |
| Retirement of objects against registrations | `storage/catalog/retire.go` | `ObjectRetirement` |
| CREATE and DROP of tables, reclaim of dropped files | `storage/catalog/catalog.go` | `TableLifecycle` |
| Micro-batch ingester | `storage/ingest/ingest.go` | `Ingester` |
| Snapshot, retention, restore of the catalog | `storage/catalog/snapshot.go`, `coordinator/catalog_snapshot.go` | `CatalogSnapshot` |
| Task retry, liveness, reaping of workers | `coordinator/task_retry.go`, `workers.go`, `scheduler.go` | `TaskRetry` |
| Asynchronous queries and their clean-up | `coordinator/coordinator.go`, `query_tracker.go`, `cleanup.go` | `AsyncQuery` |
| Leader election | `coordinator/leader.go` | `LeaderElection` |
| Background uploads of stage outputs | `worker/upload_manager.go`, `worker.go` | `UploadManager` |
| Ledger of reserved memory | `engine/memory/tracker.go`, `acquire.go` | `MemoryTracker` |

`PROJECT.json` lists every component with its status, maps each definition to the
lines it translates, and lists the hazards with the properties that guard
against them.

How the parts meet. `TableManifest` retires a path in one step;
`ObjectRetirement` takes that step apart, and takes a manifest's
compare-and-swap for one step instead. `Ingester` takes the CREATE and DROP of
`TableLifecycle` for what its flushes race with; `CatalogSnapshot` does so for
its copies. `TaskRetry` and `UploadManager` are the two halves of a stage:
whether a task's result is taken once, and whether what it wrote is stored.

## The modules

**`TableRows`** says what a table promises. It is a set of row versions
`<<root, n>>`: `root` names a row for its whole life, `n` counts the UPDATEs
applied to it. A statement takes effect at most once and all at once. There are
no files, markers, revisions or compactors.

**`TableManifest`** is the protocol. A row is visible if a file of the manifest
holds it and no delete marker names its `(file, row)`.

| Variable | Code |
|---|---|
| `files`, `marks` | `PartitionManifest.Partitions[].Files`, `.DeleteMarkers` |
| `rev` | the KV revision of the manifest key |
| `stored`, `objects`, `minted` | what was written at each path, which paths hold bytes now, which UUID paths were ever minted |
| `pc`, `op`, `tries` | where each call is, its local variables, redos or groups so far |
| `pending` | `Compactor.pendingDeletes`, per process, in memory |
| `landed` | history: statements whose update was applied |

| Actions | Code |
|---|---|
| `executeInsert`, `deleteOnce`, `updateOnce`, `mergeOnce` | read the manifest, decide what to mark and what to write |
| `scanAndFlush` | scan the files, flush the replacement rows as a new object |
| `commitGet`, `commitUpdate`, `Mismatch`, `UpdateError` | the loop of `commitFilesAndMarkers`: read and validate; conditional update applied, with or without its reply; revision mismatch; error without effect |
| `CompactTable`, `RewriteTable`, `ForceCompactFile` | plan a group: two files or more, any group, one file with markers |
| `mergeAndWriteFiles`, `compactionGet`, `compactionUpdate` | merge and upload; validate; swap inputs and their markers for the output |
| `discardUnpublishedOutput`, `deleteFromStore`, `FlushDeferredDeletes` | what happens to the bytes of the loser, and of the replaced inputs |
| `Fails`, `Crash` | an error before the update; the death of a compactor's process |

The file of an INSERT is committed by `addFiles` (`catalog.go:902`), whose loop is
that of `commitFilesAndMarkers` without markers, so it takes the same actions.

What is abstracted: one partition; at most one object per statement; a predicate
matches any set of the rows it was shown; the position of a row in a file is the
row version itself; a deferred delete waits any time; retirement of one path is
one step (with one table, and paths that are never minted twice, nothing can
register the path meanwhile). A client that timed out on an update which is
applied later is an update applied late with its reply lost. A compaction pass
that replans is another group. `GCDeleteMarkers` also removes markers of missing
files; `MarkersApply` shows that there are none.

**`ObjectRetirement`**: one Catalog with its two maps.

| Variable | Code |
|---|---|
| `objects`, `now` | LastModified of the object at each path; the store's clock |
| `listed`, `manifest` | `meta.Tables`, the paths of each manifest |
| `registering`, `retiring` | the maps of the Catalog; a count is the set of its holders |
| `queue`, `abandoned` | `Compactor.pendingDeletes`; uploads of failed statements |
| `call`, `sweep` | local variables of registrations and of `RetireObjects` |

A registration is `beginRegistration`, then `addFiles`, `CommitCompaction` or
`putManifest` and `putMeta` (or `Fails`), then `endRegistration`. A sweep
(`FlushDeferredDeletes`, `reclaimPendingObjects`) is `markRetiring`,
`ListTables`, a `GetManifest` per table, `Preserve` or `Doom` and `Delete` per
path, `unmarkRetiring`. An update of a manifest may be applied and report an error
(`Applied`): a statement then retires uploads that a manifest names, and a compactor
does not queue its inputs. That the puts of a CREATE may be applied without an answer
too is in `TableLifecycle`.

**`TableLifecycle`**: a table is a name in `meta`, a `record` and a `manifest`,
each known by its incarnation. `createBegin` to `createMeta` and the two steps
of the roll back, `dropBegin` to `recordPendingDrop`, and `flushBegin` to
`flushDelete` are the KV operations of the three functions, one by one. A put
that reports an error may have been applied or not; `unanswered` (history) names
the tables that such a put has listed. A created table has one file,
other files are registered from existing objects (`AddFiles`); `raced` names
files registered in the window that the sweep's comment admits. The switch
that turns the reclaim on is taken as on. `overlapped` is history: two calls
have run at the same time.

**`Ingester`**: `ing.mu` lets one method run at a time (`op`); what interleaves
with it is the catalog (`CreateManifest`, `CreateTable`, `DropTable`,
`DropManifest`, `OtherCommit`). `Ingest`, `bindIncarnation` and `Buffer` accept a
batch; `FlushNext`, `Upload`, `GetManifest` and `UpdateManifest` write a
partition. `owner` and `landed` are history; a file in `landed` remembers whether
the update that registered it was answered or its reply lost. Deferred commits are the statements
of `TableManifest`.

**`CatalogSnapshot`**: `Snapshot`, a `Get` and a `Put` per key, `PutManifest`,
`PutLatest`; `gcList`, `gcLatest`, `gcDelete`; at a start `InitCatalog`,
`MaybeRestoreCatalog`, `readLatestTS`, `readManifest`, a `restoreKey` per key.
CREATE, DROP and commits run beside them, one key at a time. A snapshot is named
by the second it begins in, and the loop's and a statement's may begin in the same
one (`reused`, history). Puts that report an error, of a snapshot or of a restore, may
have been applied. `Crash` ends the coordinator and may take the bucket with it. No
snapshot takes as long as the 24 hours that retention spares. `torn` and `suspect`
are history: the snapshots that may hold a part of a listed table, and whether the
bucket holds a part of a snapshot or a torn one.

**`LeaderElection`**: the run loop of each instance over a bucket that expires
entries. As no revision is used twice, a recorded revision matters only by
whether it is still the key's (`current`). Each call of the store may fail,
before or after it was applied. `leader.go:53` says that no server mode is wired
to it yet.

**`TaskRetry`**: the goroutines that publish (`SendTaskDispatch`,
`noteInflight`), handle results (`noteTaskResult`, `Observe`), sweep for stuck
tasks (`StuckTasks`, `RetryStuck`, `ResetClocks`) and reap workers
(`ReapStale`), and workers that `Start`, `Finish`, `record`, `Die`. A worker's three
requests to publish a result may all fail (`PublishResultError`), and one that got
through without an answer is repeated; until the answer the task stays among those
that heartbeats name (`trackTaskEnd`). The grace before a reap is any delay; growing
memory estimates are left out.

**`AsyncQuery`**: one query. `SubmitSQL` is `Register` to `StartWatchdog`; the
subscription's callback is `RecordResult`, `StageFailed`, `Fail` or `Complete`,
`HandlerCleanup`, `SendDone`; the watchdog `WatchDone`, `WatchDeadline`,
`WatchCleanup`; the client `CancelRead` to `CancelCleanup` and
`GetQueryResults`; and the sweeps `CleanQuery`, `CleanStale`, `ReapCompleted`.

**`UploadManager`**: one root query on one worker. `StartTask` is `Queue` and
`StartJobs`; `CancelQuery`, `ReleaseQuery`, `Flush` and `Drain` are split where
they let go of a lock; a job is `acquireSlot` and `uploadOnce`, which repeats,
and settles the job in the end; `Publish` is `jobDone`. The handlers of the cancel
and of the complete broadcast (`worker.go:603`, `:653`) both call `CancelQuery` and
purge, in goroutines of their own: the later one finds no state and may purge first.
The open of the local file and the PUT of one attempt are one step; between them only
a purge could matter, which leaves an open file readable. The policy `off` and the
worker's exit after a drain timed out are left out.

**`MemoryTracker`**: a root and its children. An atomic addition with the test
of its own result is a step; roll backs, the parent's share, the load and the
CAS of a peak are further steps. `forced` is the census of bytes forced for a purpose,
which `ReserveOrForce` releases under that purpose; `unattributed` counts what the
cached store and the decode window (`Bare`) force without one and release as ordinary.
A refused caller may also give up (`Return`).

The `MC` modules hold the instances, the `...Proofs` modules the proofs.

## The runs

| Run | Instance | States | Shows |
|---|---|---|---|
| `statements` | UPDATE, MERGE and INSERT, one row, fair | 101,110 | `ReportsAreTrue`, `ConflictsAreReal`, `ImplementsTable`, `StatementsReport` |
| `compaction` | DELETE, two compactors, one of which crashes, two files, fair | 140,908 | `SingleCopy`, `NoDanglingFile`, `MarkersApply`, `ImplementsTable`, `InputsReclaimed` |
| `orphans` | UPDATE and DELETE, fair | violation | `RefusedOutputsReclaimed`, see below |
| `retirement` | 2 registrations, 2 sweeps, 2 tables, 2 paths | 118,992 | `RegisteredBytesStay`, `DeletesOnlyUnreferenced` |
| `lifecycle` | 4 calls on 2 names, 1 fault, 1 crash, 1 registration, fair | 290,643 | `ListedIsWhole`, `LiveFilesStay`, `OnlyDroppedGo`, `EveryDropIsDecided` |
| `ingest` | 3 batches, 2 partitions, 2 incarnations, 1 fault, fair | 329,490 | `LandsInItsTable`, `AcceptedIsKept`, `WrittenOnce`, `FlushedInTheEnd` |
| `snapshots` | loop and statement, 3 seconds, 1 fault, 1 crash that may lose the bucket, fair | 917,389 | `LatestRestores`, `ServesWhole`, `ServesAgain` |
| `retries` | 2 tasks, 2 workers, 3 attempts, 1 fault, which may persist, fair | 352,649 | `CompleteMeansAll`, `OutcomeIsEarned`, `ResultIsFinal`, `Recovers` |
| `async` | 2 tasks, 2 failures, 1 repeat and loss, fair | 353,191 | `CompletedIsReported`, `EveryQueryEnds`, `ScratchIsReclaimed` |
| `uploads` | 3 jobs of 2 tasks, 2 slots, 4 failed PUTs, fair | 348,916 | `DurableIsStored`, `SettlesOnce`, `JobsEnd` |
| `election` | 3 instances, 2 faults, 2 stalls, 1 stop, fair | 73,451 | `LeaderIsCurrent`, `SplitNeedsStall`, `LeaseMovesByExpiry`, `DisplacedStandsDown`, `SomeoneLeads` |
| `ledger` | 3 operators, one of which forces without a purpose, 2 children, 3 requests of 1, 2 or 4 with budget 3 | 1,535,220 | `LedgerIsExact`, `AdmittedFits`, `PeakCovers` |

There is one run per question. Safety and liveness of a module share an instance
where it is small enough; the instances may be small because the safety properties
of every module are also proved for every instance.

Bounds. Every bound is a constant of its module and a guard. In `TableManifest`
the code's `dmlCommitAttempts` of 5 and `maxRetries` of 10 are 2, so that giving
up, redoing and retrying all happen. On the one
row of `statements` the UPDATE and the MERGE conflict, and the INSERT moves the
revision under both; two rows in two files are the fewest that a compaction can
merge while a DELETE marks one of them; there is a path for every upload. In
`ObjectRetirement` two sweeps may hold the same path, so that one finishes while
the other is about to delete; two registrations take the path out of one table and
put it into another meanwhile.
`TableLifecycle` needs a name that is dropped and created again while its first
file waits for the sweep, and three calls that overlap (`MaxOverlap`; the proofs
have any number); with two drops the queue of two entries is filled but
evicts nothing. `Ingester` has two partitions so that one can fail after the
other was written, and two incarnations. In `TaskRetry` three attempts, as in the
code, let a retry be lost and be recovered in its turn; two tasks let the stage be
complete by counting one of them twice. Which of two equal workers dies makes no
difference, so `Flaky` names the one that may, and `Troubled` the task that may meet a
fault; the other one ends before the next heartbeat. A fault that persists (a task
that fails on every attempt, a network that loses a result and then a retry) counts
once, so that one fault can use up all attempts. Two snapshots are one to be current
and one for retention to delete, and they may share a second or overlap. In `uploads`
two handlers are the two broadcasts that end a query (one that comes again does what
the second does), and four failed PUTs are two jobs given up, as many as there are
slots. In `ledger` a request of 4 never fits and is forced, one of 1 and one of
2 just fit together. Faults are bounded because one or two of them at any step
reach each error path.

Most runs check no deadlock: a system whose statements, calls or tasks have all
ended has nothing left to do. `election` checks it. Symmetry is used in
`retirement` only, which checks no liveness.

Each property of a passing run has a mutant in `PROJECT.json`: a bug in one
definition (a dropped half of a validation, a lost reply treated as a refusal, a
mark released for everyone, a CAS replaced by a store) that makes TLC report the
property violated.

**Fairness.** `TableManifest`, `TaskRetry`, `AsyncQuery` and `UploadManager` take the
steps that their goroutines owe together (`Advance`): as long as one of them is
possible, some one is taken. Nothing is asked of their order, and it is as good as
fairness of each: none of these steps can be repeated for ever, so none is put off
for ever. In the other modules each actor is weakly fair.

* `TableManifest` (`FairSpec`): a statement that runs keeps running and a redo is
  redone (`retryConflicted` is a plain loop). A compactor that has swapped goes on
  to `deleteFromStore` in the same call, and the sweep's ticker keeps flushing.
  Nobody is obliged to start a statement or a compaction.
* `TableLifecycle`: a call that was begun goes on; the background sweep comes
  round. Faults are bounded: a KV that fails for ever is excluded.
* `Ingester`: the method that holds the lock goes on; the ticker of `Start` ticks.
* `CatalogSnapshot`: a coordinator that ended is started again (by its operator
  or supervisor) and its start runs.
* `LeaderElection`: tickers tick, calls return, the listener reads its channel,
  and the store expires what nobody refreshes.
* `TaskRetry`: the goroutines and tickers of the coordinator run, workers that are
  alive get to their tasks, a dead one is reaped. `Recovers` excludes two cases by
  its premise, `NotedLate` and `Unheard`.
* `AsyncQuery`: goroutines go on, the timer of the query's context fires and the
  periodic sweeps run. Tasks and clients are not obliged to anything.
* `UploadManager`: goroutines go on. Nothing is asked of the order in which
  `acquireSlot` serves those who wait: every job that gets a slot gives it back.

## A disagreement of code and comment

`orphans` is expected to end in a violation. The comment at
`dml_commit.go:62` says that the objects of refused attempts remain unreferenced
"until orphan reclaim", and the one at `compactor.go:598` counts on an orphan sweep;
`RefusedOutputsReclaimed` states that they leave the store in the end, and TLC
shows that they do not. Nothing in the program reclaims them: ADR-0030
(line 141) says "there is no such sweep", and leaves it to the operator.

## What the properties do not promise

Several properties hold under a premise, because the code gives no more. The
premise is part of the formula or a bound of the module, never a constraint of a
run.

* `ListedIsWhole`, `EveryDropIsDecided`: but for a name whose CREATE was told that
  the put of the list had failed when it was applied. The roll back then takes the
  record and the manifest of a listed table, which no later CREATE of the name can
  replace, and every sweep stops at it. The comment at `catalog.go:434` takes an orphan
  manifest for the worst that a failed CREATE leaves, and the one at `:1432` a failed
  DROP for a no-op: both hold of puts that were not applied.
* `ListedIsWhole`, `LiveFilesStay`, `EveryDropIsDecided`: until two calls of
  CREATE or DROP overlap. The list, the record and the manifest of a table are
  three keys without a transaction, and the list is put without a revision check
  (`catalog.go:492`, `:1437`), so overlapping calls can undo parts of each other.
  `OnlyDroppedGo` needs no such premise: whatever calls overlap, an object leaves
  the store only for a DROP that went through.
* `WrittenOnce`: if no reply of an update was lost. A flush whose update was
  applied without an answer keeps its rows and writes them again. `AcceptedIsKept`
  and `LandsInItsTable` need no such premise.
* `LatestRestores` promises the recorded hashes, and `ServesAgain` the restore, of a
  second in which one snapshot began, since the second is its name (`snapshot.go:54`):
  two that share it write over each other's copies, and the test of a hash then stops
  every restore of it. That the copies are there holds of any.
* `ServesWhole`: but for two cases. A restore that is cut off after it has put the
  list leaves a bucket which the next start takes for a catalog of its own
  (`catalog_snapshot.go:62`). A snapshot lists the keys once and reads them one by one,
  so one that began before a CREATE was done may copy the list with the new table and
  not its other keys.
* `Recovers`: unless a dispatch is noted only after its worker was reaped or its
  attempt was over, or an attempt ends unheard of when no clock runs for its task;
  the query's timeout ends those.
* `OutcomeIsEarned`: an exhausted task had all its dispatches and a failure, not as many
  failures as dispatches. `Observe` does not look at a result's attempt, so that a
  failure which is notified twice uses up an attempt.
* `CompletedIsReported` says that every task has reported, not that each
  succeeded: `StageFailed` fails a query only if all tasks of the stage failed. A
  query that was cancelled may still be marked completed or failed by a callback
  that was past its test, and `CleanQuery` may run before a client reads the
  stored result.
* `SplitNeedsStall`: two instances answer that they lead only after a lease ran
  out under its holder; `DisplacedStandsDown` says that this ends. The comment at
  `leader.go:50` (CAS updates prevent split-brain) and
  `docs/internals/leader-lease-refresh-reconciliation.md:18` (split-brain is impossible)
  are true of the key, and of what holders believe only if none stalls.
* `FlushedInTheEnd`: errors are bounded. A partition that fails ends the timer's round
  for those after it (`ingest.go:451`); that one which fails for ever does not starve
  the others rests on the random order in which Go walks a map.
* `SettlesOnce`: a lazy job that `StartTask` queues on a state which `CancelQuery`
  has detached is never settled, and `JobsEnd` is about jobs that were started. As the
  handler of one broadcast may purge before that of the other has cancelled the PUTs, a
  job can fail for want of its file instead of being cancelled.
* `AdmittedFits` bounds what is admitted; a request that fits may be refused while
  another one that is being refused is still in the sum.
* `LedgerIsExact` is exact for the bytes forced for a purpose. The comment at
  `forced.go:14` pairs every forced charge with a release under its purpose; the cached
  store (`cached_store.go:76`) and the decode window (`decode_ahead.go:605`) force without
  one and call `Release`, so that the census of those only grows.

## The proofs

For any values of the constants that satisfy the named assumptions:

| Module | Theorems |
|---|---|
| `TableManifestProofs` | `Invariance`, `TypeCorrect`, `NoDuplicateRows`, `FilesExist`, `MarkersNameLiveFiles`, `Reports`, `NoFalseConflicts`; `Refinement`: `TableManifest` implements `TableRows`; and what follows for the rows: `RowsAreUnique`, `RemovedForGood` |
| `ObjectRetirementProofs` | `Inductive`, `Stays`, `Unreferenced`; of `UploadManager`: `UploadInductive`, `DurableObjectsExist`, `JobsSettleOnce`, `UploadsFitGate` |
| `IngesterProofs` | `Inductive`, `Lands`, `Accepted`, `Once` |
| `TableLifecycleProofs` | `LifecycleInductive`, `ListedTablesAreWhole`, `LiveTablesKeepFiles`, `OnlyDroppedFilesGo` |
| `CatalogSnapshotProofs` | `SnapshotsInductive`, `LatestIsRestorable`, `RestoredIsWhole` |
| `TaskRetryProofs` | `Inductive`, `Complete`, `Earned`, `Final` |
| `AsyncQueryProofs` | `Inductive`, `Reported`; of `LeaderElection`: `ElectionInductive`, `RefreshSucceeds`, `OneLeaderUnlessStalled`, `LeaseExpiresFirst` |
| `MemoryTrackerProofs` | `MemoryInductive`, `LedgerExact`, `AdmittedInBudget`, `PeakIsHigh` |

`ObjectRetirementProofs` and `AsyncQueryProofs` hold the proofs of two components
each, which share no state. Every safety property that a run checks is the subject
of one of these theorems.

*Manifest.* Assumed: the initial files partition the loaded rows
(`SeedAssumption`), actors are named apart (`ActorAssumption`), retry bounds are
positive (`BoundAssumption`). `SingleCopy` at a statement's update needs to know
that what it marks is still live and unmarked, which `ValidatedAtBase` gives: a
writer whose revision is still the manifest's still passes the validation it made
at that revision. It also needs what the uploaded object holds
(`OutputsHoldPlan`, `StatementPlans`, `CompactionPlans`), and that nobody else
touches that object (`OutputsPrivate`, from `PathsMinted`). `NoDanglingFile` needs
`RemovedStaysRemoved`: what is queued for deletion never returns to the manifest.
`RootsAccounted` keeps the row an INSERT adds new. `IInv` is their conjunction,
with a lemma per action. In `Refinement` the step that applies a statement's
update is the whole statement; every other step changes no row. `RowsAreUnique`
and `RemovedForGood` are shown for `TableRows`, whose own `IInv`
needs that statements and loaded rows are named apart, and hold of the manifest
through that refinement. `RemovedForGood` is about `GoneStaysGone`, which no run
lists: it follows from `ImplementsTable`, which `statements` and `compaction` check.

*Retirement.* `Exclusion`: no path is held by a registration and a sweep at once.
`CallsHold` and `SweepsHold` say which paths a call or a sweep holds at each of
its steps. `Observed` is the heart: what a sweep has found unreferenced in the
tables it has read is still unreferenced there, because nothing that it holds can
be registered. `OneCreate` and `UnlistedIsPut` deal with the table that is put
before it is listed. `Vouched` ties the history to the objects.

*Ingester.* `Snapshot`: if the manifest's revision is still the one a flush read,
so is its incarnation; so an update that succeeds lands where it was validated.
`OwnedByBound`: what is buffered belongs to the bound incarnation. `Kept`
strengthens `AcceptedIsKept` over the steps of a batch that is being buffered;
`Fresh`: a batch that is not buffered yet is in no buffer and in no file. `Once`
is inductive together with these.

*Task retry.* `Counted`: `terminal` is the number of tasks whose outcome is not
open. `Numbered`: an attempt has a phase exactly if it was counted. `Told`: a
notification under way says how its attempt ended, and an attempt that ended does not
end again (`Stands`), so that a task which is terminal has a result that makes it so.

*Asynchronous queries.* `Counted`: the counters of the stage add up to the tasks
it has seen, and the callback acts on a complete stage only if it has seen all.

*Table lifecycle.* `ListedIsWhole` and `LiveFilesStay` are about calls that have not
overlapped, and neither is inductive. `CallKnows` says what a call that runs alone
knows at each of its steps: the list it read is still the list, what it has put is there,
and the incarnation it minted is in no queued drop. A name in `unanswered` is excepted
where a failed CREATE rolls back. `Minted`: no manifest, call or drop
names an incarnation above the last one minted, so a new one is in none of them.
`SweepKnows` is the heart of `LiveFilesStay`: while the sweep reads the list a
second time, a listed table is still to be read, or each of its files that the entry
at hand names was seen live, or was registered in the window (`raced`). The queue of
drops is a sequence that the sweep splits by a recursive function (`Recorded`). That
it returns entries of the queue is shown for every queue by a least counterexample
(`LeastNat`, from the well-foundedness of the naturals), since the library's
induction rules cannot be instantiated here. `OnlyDroppedGo` holds of overlapping
calls as well. It is inductive with `DropInv`, that every drop which is queued or
being swept is of a `DropTable` that has returned; a step of the sweep adds no drop
and deletes only for one it has (`Reclaims`).

*Snapshots.* `CallTakes`: while a snapshot is being taken its prefix is younger than
`MinAge`, and holds what was copied so far, or what another snapshot of the same second
wrote over it, so that the manifest it ends with describes what is there; and what the
collector has doomed is older than `MinAge` and not the latest. `OwnPrefix`: two calls
write under one timestamp only if they began in the same second. For `RestoredIsWhole`,
`BucketWhole`: CREATE and DROP write the keys of a table in an order in which a listed
one has them all. `CallWhole`: a snapshot that no CREATE has torn copies the list, and
has copied or still copies the keys of what it lists. `Starts`: what a start has
restored is in the bucket. That `None` is no copy of a bucket is assumed (`SnapshotAssumption`).

*Uploads.* `QueuedOnce`: a queued job is in exactly one of the queue and the sets
that a release and a drain have taken from it, which makes `SettlesOnce` hold.
`CompletedStored` and `DurableCompleted` split `DurableIsStored` at the job.
`GateCounts`: the counter of the gate is the number of running uploads; with it
`UploadsFitGate` bounds them by the slots. Finitely many jobs are assumed
(`UploadAssumption`).

*Leader election.* `CurrentHolds`: only the holder knows the revision of the lease,
so that no late write of another can succeed. `FlagIsPlace`: `IsLeader` answers yes
exactly in the leader's loop. `LeadersHold`: without a stall, whoever leads holds the
lease.

*Memory.* The properties are about sums over sets of operators. `SumOf` is a
recursive function over the subsets of `Operator`; that it has a value, that any
operator may be split off, and that it grows with its terms is shown for every
finite set by a smallest counterexample. `Accounts`: at each of its steps an operator
owes its bytes to the child, to the root, to both or to none, and the usage and the
census of a tracker are the sums of that; of bytes forced without a purpose the census
is at least the sum (`BareInv`). `Fits`: what is admitted is part of what is
owed, so that the addition whose own result is within the budget keeps it within.
`Covered` is the heart of `PeakCovers`: a child's charge that waits for its parent may
yet be rolled back, so for every way in which the open charges may end (`Outcomes`)
the peak covers what would then be held, or some operator that would hold a part has
seen at least that much and has still to raise the peak. `Sound`: a compare and swap
only raises a peak. That there are finitely many operators is assumed
(`TrackerAssumption`).

Only model-checked: all liveness, which is beyond this prover.

Each leaf of a proof is for one prover: Zenon (`USE ZenonT(60)` at the head of each
proof module), or the SMT solver where the leaf cites `SMTT(30)`.

## Not modelled

* The SQL parser, planner and optimizer, the vectorised engine and its
  expressions, and the readers and writers of Parquet, CSV and JSON: sequential
  computation over unbounded terms and data, most of the code base. The
  repository tests them against PostgreSQL.
* The stage DAG executor and eager feeds, the table of peer locations and the
  worker's stage cache: their state is spread over closures and caches. What a
  stage's tasks and uploads do is in `TaskRetry` and `UploadManager`; which copy a
  consumer reads is not.
* The lock manager, which no server mode uses, and the circuit breaker and caches
  of the object store: they decide whether a call fails, and any call may fail in
  the models.
* The memory reservoir's arbitration between queries, and spilling.
* Synchronous execution, the protocol front ends, authentication, configuration,
  telemetry, alerts, statistics, Iceberg discovery and the command line: they
  share no state with the protocols above that another actor changes.
* ALTER TABLE, views, user functions and spaces: read-modify-writes of one key,
  exposed to lost updates as the table list is.
* Registrations by another process during a sweep: `retire.go:77` says that the
  marks do not cover them. A forced restore of a chosen snapshot, which is a
  manual procedure and leaves the keys of newer tables.
* Time itself: leases, graces and thresholds are delays of any length, with a
  bound on how often one runs out while its holder works.

----------------------------- MODULE UploadManager -----------------------------
(***************************************************************************)
(* A worker's background uploads of stage outputs, for one root query.     *)
(* Tasks hand their files over with StartTask; the broadcasts of the       *)
(* coordinator call CancelQuery and ReleaseQuery from goroutines of their  *)
(* own; a drain calls Flush and then Drain; and every upload is a          *)
(* goroutine.  They share the root's queryUploadState, under two locks     *)
(* that none of them holds for a whole call.                               *)
(*                                                                         *)
(* Abstractions.  The foreground gates and the pacer delay a job and do    *)
(* not change what becomes of it: they are the steps a job waits for.      *)
(* The byte counters of the ledger are left out.                           *)
(***************************************************************************)
EXTENDS Integers, FiniteSets

CONSTANTS
  Task, Job,
  Handlers,               \* how many broadcasts end the query: its cancel, its complete
  Owner,                  \* the task of each job
  Lazy,                   \* tasks with the policy lazy; the others are eager
  Slots,                  \* width of the upload gate
  uploadRetryAttempts,
  MaxFaults,              \* bound: PUTs that fail
  MaxReleases             \* bound: release broadcasts

ASSUME UploadAssumption ==
  /\ IsFiniteSet(Job) /\ Owner \in [Job -> Task] /\ Lazy \subseteq Task
  /\ {Slots, uploadRetryAttempts} \subseteq Nat \ {0}
  /\ {Handlers, MaxFaults, MaxReleases} \subseteq Nat

VARIABLES
  known,       \* m.queries has the root
  tombstone,   \* m.cancelledRoots has the root
  ctx,         \* the context of the state: live, or cancelled
  released,    \* qs.released
  pending,     \* qs.pending
  start,       \* the next step of each task's StartTask
  cancelling,  \* the next step of the handler of each broadcast that ends the query
  releasing,   \* the next step of ReleaseQuery, and the jobs it took
  draining,    \* the next step of Worker.Drain, and the jobs Flush took
  job,         \* what became of each job
  attempt,     \* failed attempts of each job
  slots,       \* m.slots
  purged,      \* the local copies are gone
  stored,      \* jobs whose object exists
  published,   \* the UploadComplete of each task
  faults, releases

scope == <<known, tombstone, ctx, released, pending>>
calls == <<start, cancelling, releasing, draining>>
files == <<purged, stored, published>>
bounds == <<faults, releases>>
uploadVars == <<scope, calls, job, attempt, slots, files, bounds>>

Settled == {"completed", "cancelled", "failed", "elided"}

JobsOf(t) == {j \in Job : Owner[j] = t}

\* Jobs that have a goroutine: qs.inflight.
Inflight == {j \in Job : job[j] \in {"waiting", "running"}}

Become(J, new) == job' = [j \in Job |-> IF j \in J THEN new ELSE job[j]]

UploadInit ==
  /\ known = FALSE /\ tombstone = FALSE /\ ctx = "live" /\ released = FALSE
  /\ pending = {}
  /\ start = [t \in Task |-> "idle"]
  /\ cancelling = [b \in 1..Handlers |-> "idle"]
  /\ releasing = [pc |-> "idle", jobs |-> {}]
  /\ draining = [pc |-> "idle", jobs |-> {}]
  /\ job = [j \in Job |-> "none"] /\ attempt = [j \in Job |-> 0]
  /\ slots = 0
  /\ purged = FALSE /\ stored = {} /\ published = [t \in Task |-> "none"]
  /\ faults = 0 /\ releases = 0

-----------------------------------------------------------------------------
\* StartTask.  queryState makes the state of the root, or refuses a root that has
\* a tombstone.

queryState(t) ==
  /\ start[t] = "idle" /\ draining.pc = "idle"
  /\ IF tombstone
     THEN /\ Become(JobsOf(t), "cancelled")
          /\ start' = [start EXCEPT ![t] = "done"]
          /\ UNCHANGED known
     ELSE /\ known' = TRUE
          /\ start' = [start EXCEPT ![t] = IF t \in Lazy THEN "queue" ELSE "start"]
          /\ UNCHANGED job
  /\ UNCHANGED <<tombstone, ctx, released, pending, cancelling, releasing, draining,
                 attempt, slots, files, bounds>>

Queue(t) ==
  /\ start[t] = "queue"
  /\ IF released
     THEN /\ start' = [start EXCEPT ![t] = "start"]
          /\ UNCHANGED <<pending, job>>
     ELSE /\ pending' = pending \cup JobsOf(t)
          /\ Become(JobsOf(t), "queued")
          /\ start' = [start EXCEPT ![t] = "done"]
  /\ UNCHANGED <<known, tombstone, ctx, released, cancelling, releasing, draining,
                 attempt, slots, files, bounds>>

StartJobs(t) ==
  /\ start[t] = "start"
  /\ Become(JobsOf(t), "waiting")
  /\ start' = [start EXCEPT ![t] = "done"]
  /\ UNCHANGED <<scope, cancelling, releasing, draining, attempt, slots, files, bounds>>

-----------------------------------------------------------------------------
\* CancelQuery, and the purge of the local copies: the handlers of both broadcasts do
\* the same, each in a goroutine of its own, and are numbered in the order in which
\* they begin.  The second finds no state, and may purge before the first has cancelled.

Then(b, pc) == cancelling' = [cancelling EXCEPT ![b] = pc]

CancelQuery(b) ==
  /\ cancelling[b] = "idle" /\ \A c \in 1..(b - 1) : cancelling[c] # "idle"
  /\ tombstone' = TRUE
  /\ known' = FALSE
  /\ Then(b, IF known THEN "cancel" ELSE "purge")
  /\ UNCHANGED <<ctx, released, pending, start, releasing, draining, job, attempt,
                 slots, files, bounds>>

CancelCtx(b) ==
  /\ cancelling[b] = "cancel"
  /\ ctx' = "cancelled"
  /\ Then(b, "elide")
  /\ UNCHANGED <<known, tombstone, released, pending, start, releasing, draining, job,
                 attempt, slots, files, bounds>>

elidePending(b) ==
  /\ cancelling[b] = "elide"
  /\ Become(pending, "elided")
  /\ pending' = {}
  /\ Then(b, "purge")
  /\ UNCHANGED <<known, tombstone, ctx, released, start, releasing, draining, attempt,
                 slots, files, bounds>>

Purge(b) ==
  /\ cancelling[b] = "purge"
  /\ purged' = TRUE
  /\ Then(b, "done")
  /\ UNCHANGED <<scope, start, releasing, draining, job, attempt, slots, stored,
                 published, bounds>>

-----------------------------------------------------------------------------
\* ReleaseQuery.  The state that it finds may be detached before it goes on.

ReleaseQuery ==
  /\ releasing.pc = "idle" /\ releases < MaxReleases
  /\ releases' = releases + 1
  /\ releasing' = [pc |-> IF known THEN "release" ELSE "idle", jobs |-> {}]
  /\ UNCHANGED <<scope, start, cancelling, draining, job, attempt, slots, files, faults>>

\* Mutant: the jobs that are started stay queued.
TakePendingKeeps == released' = TRUE /\ UNCHANGED pending

\* releasePending, under the lock of the state.
TakePending == released' = TRUE /\ pending' = {}

releasePending ==
  /\ releasing.pc = "release"
  /\ TakePending
  /\ releasing' = [pc |-> "start", jobs |-> pending]
  /\ UNCHANGED <<known, tombstone, ctx, start, cancelling, draining, job, attempt,
                 slots, files, bounds>>

releaseStart ==
  /\ releasing.pc = "start"
  /\ Become(releasing.jobs, "waiting")
  /\ releasing' = [pc |-> "idle", jobs |-> {}]
  /\ UNCHANGED <<scope, start, cancelling, draining, attempt, slots, files, bounds>>

-----------------------------------------------------------------------------
\* Worker.Drain: when the tasks have ended, Flush; then Drain, which is a cancel.

BeginDrain ==
  /\ draining.pc = "idle"
  /\ \A t \in Task : start[t] \in {"idle", "done"}
  /\ draining' = [pc |-> IF known THEN "release" ELSE "flushed", jobs |-> {}]
  /\ UNCHANGED <<scope, start, cancelling, releasing, job, attempt, slots, files, bounds>>

flushPending ==
  /\ draining.pc = "release"
  /\ TakePending
  /\ draining' = [pc |-> "start", jobs |-> pending]
  /\ UNCHANGED <<known, tombstone, ctx, start, cancelling, releasing, job, attempt,
                 slots, files, bounds>>

flushStart ==
  /\ draining.pc = "start"
  /\ Become(draining.jobs, "waiting")
  /\ draining' = [pc |-> "wait", jobs |-> {}]
  /\ UNCHANGED <<scope, start, cancelling, releasing, attempt, slots, files, bounds>>

\* inflight.Wait, or the end of DrainTimeout.
flushWait ==
  /\ draining.pc = "wait"
  /\ \/ Inflight = {} /\ draining' = [draining EXCEPT !.pc = "flushed"]
     \/ draining' = [draining EXCEPT !.pc = "expired"]
  /\ UNCHANGED <<scope, start, cancelling, releasing, job, attempt, slots, files, bounds>>

\* Drain.  A state that CancelQuery has detached is left to it.
Drain ==
  /\ draining.pc \in {"flushed", "expired"}
  /\ known' = FALSE
  /\ draining' = [draining EXCEPT !.pc = IF known THEN "cancel" ELSE "stopped"]
  /\ UNCHANGED <<tombstone, ctx, released, pending, start, cancelling, releasing, job,
                 attempt, slots, files, bounds>>

drainCancel ==
  /\ draining.pc = "cancel"
  /\ ctx' = "cancelled"
  /\ draining' = [draining EXCEPT !.pc = "elide"]
  /\ UNCHANGED <<known, tombstone, released, pending, start, cancelling, releasing, job,
                 attempt, slots, files, bounds>>

drainElide ==
  /\ draining.pc = "elide"
  /\ Become(pending, "elided")
  /\ pending' = {}
  /\ draining' = [draining EXCEPT !.pc = "stopped"]
  /\ UNCHANGED <<known, tombstone, ctx, released, start, cancelling, releasing, attempt,
                 slots, files, bounds>>

-----------------------------------------------------------------------------
\* runJob.

\* Mutant: a task is reported durable whatever became of its uploads.
PublishAlways(t, end) ==
  [published EXCEPT ![t] =
     IF \A k \in JobsOf(t) : end[k] \in Settled \ {"elided"} THEN "durable" ELSE published[t]]

\* jobDone: the last job of a task publishes, unless one of them was cancelled.
Publish(t, end) ==
  [published EXCEPT ![t] =
     IF \E k \in JobsOf(t) : end[k] \notin {"completed", "failed"} THEN published[t]
     ELSE IF \E k \in JobsOf(t) : end[k] = "failed" THEN "failed"
     ELSE "durable"]

\* The job ends, and with it its goroutine.
Settle(j, end) ==
  /\ Become({j}, end)
  /\ published' = Publish(Owner[j], job')

acquireSlot(j) ==
  /\ job[j] = "waiting"
  /\ \/ /\ slots < Slots
        /\ slots' = slots + 1
        /\ Become({j}, "running")
        /\ UNCHANGED published
     \/ ctx = "cancelled" /\ Settle(j, "cancelled") /\ UNCHANGED slots
  /\ UNCHANGED <<scope, calls, attempt, purged, stored, bounds>>

\* Mutant: the slot of an upload that is given up is not released.
releaseSlotKept(j) == slots' = IF job'[j] = "failed" THEN slots ELSE slots - 1

releaseSlot(j) == slots' = slots - 1

\* One attempt of uploadOnce.  A PUT may land although the context ends under it.
uploadOnce(j) ==
  /\ job[j] = "running"
  /\ \/ /\ ctx = "cancelled"
        /\ Settle(j, "cancelled") /\ releaseSlot(j)
        /\ stored' \in {stored, stored \cup {j}}
        /\ UNCHANGED <<attempt, faults>>
     \/ /\ ~ purged
        /\ Settle(j, "completed") /\ releaseSlot(j)
        /\ stored' = stored \cup {j}
        /\ UNCHANGED <<attempt, faults>>
     \/ /\ ctx = "live" /\ faults < MaxFaults
        /\ faults' = faults + 1
        /\ attempt' = [attempt EXCEPT ![j] = attempt[j] + 1]
        /\ IF attempt[j] + 1 < uploadRetryAttempts
           THEN UNCHANGED <<job, published, slots>>
           ELSE Settle(j, "failed") /\ releaseSlot(j)
        /\ UNCHANGED stored
     \/ /\ ctx = "live" /\ purged
        /\ Settle(j, "failed") /\ releaseSlot(j)
        /\ UNCHANGED <<attempt, faults, stored>>
  /\ UNCHANGED <<scope, calls, purged, releases>>

-----------------------------------------------------------------------------

TaskStep(t) == queryState(t) \/ Queue(t) \/ StartJobs(t)

CancelStep(b) == CancelCtx(b) \/ elidePending(b) \/ Purge(b)

ReleaseStep == releasePending \/ releaseStart

DrainStep == flushPending \/ flushStart \/ flushWait \/ Drain \/ drainCancel
             \/ drainElide

JobStep(j) == acquireSlot(j) \/ uploadOnce(j)

UploadNext ==
  \/ \E t \in Task : TaskStep(t)
  \/ \E b \in 1..Handlers : CancelQuery(b) \/ CancelStep(b)
  \/ ReleaseQuery \/ ReleaseStep
  \/ BeginDrain \/ DrainStep
  \/ \E j \in Job : JobStep(j)

UploadSpec == UploadInit /\ [][UploadNext]_uploadVars

\* Goroutines go on, in whatever order: the steps of all of them together are
\* weakly fair.  Nothing more is asked of acquireSlot, whose waiters are not served
\* in turn.
Advance ==
  \/ \E t \in Task : Queue(t) \/ StartJobs(t)
  \/ \E b \in 1..Handlers : CancelStep(b)
  \/ ReleaseStep \/ DrainStep
  \/ \E j \in Job : acquireSlot(j) \/ uploadOnce(j)

UploadFairness == WF_uploadVars(Advance)

LiveUploadSpec == UploadSpec /\ UploadFairness

-----------------------------------------------------------------------------
\* Properties.

\* An UploadComplete that is not Failed names keys whose objects all exist: the
\* coordinator takes it for the durability of every one of them.
DurableIsStored ==
  \A t \in Task : published[t] = "durable" => JobsOf(t) \subseteq stored

\* A job is uploaded by one goroutine and counted once in the ledger, whichever of
\* CancelQuery, ReleaseQuery, Flush and Drain finds it first.
SettlesOnce ==
  [][\A j \in Job : job[j] \in Settled => job'[j] = job[j]]_uploadVars

\* Every job that StartTask, ReleaseQuery or Flush starts comes to an end, however
\* few slots there are.
JobsEnd == \A j \in Job : (job[j] = "waiting") ~> (job[j] \in Settled)

=============================================================================

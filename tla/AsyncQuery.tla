------------------------------ MODULE AsyncQuery ------------------------------
(***************************************************************************)
(* The life of one query that was submitted asynchronously: SubmitSQL, the *)
(* subscription that handles the results of its tasks, the watchdog, a     *)
(* client that cancels it and asks for its results, and the goroutines     *)
(* that clean up after it.  Each takes the tracker's lock for one call at  *)
(* a time, so their calls interleave.                                      *)
(*                                                                         *)
(* Abstractions.  The query has the one stage "pipeline-0" that SubmitSQL  *)
(* builds.  A result is inline in its notification, stored as an object,   *)
(* or a failure.  The purge of NATS KV, hints and caches is one with the   *)
(* broadcast that cleanupQuery sends.                                      *)
(***************************************************************************)
EXTENDS Naturals, FiniteSets

CONSTANTS
  Task,             \* the tasks of the stage; more than one if probe-split
  MaxDuplicates,    \* bound: notifications that are delivered once more
  MaxFailures,      \* bound: tasks that fail
  MaxLosses,        \* bound: tasks whose worker dies or drops them
  PublishFails      \* whether Subscribe and PublishTasks may fail

ASSUME AsyncAssumption ==
  /\ Task # {} /\ IsFiniteSet(Task)
  /\ {MaxDuplicates, MaxFailures, MaxLosses} \subseteq Nat
  /\ PublishFails \in BOOLEAN

VARIABLES
  state,        \* QueryInfo.State; "none" before Register, "gone" once reaped
  submit,       \* the next step of SubmitSQL
  context,      \* asyncCtx
  subscribed,   \* the subscription delivers
  resultSub,    \* c.resultSubs has the query
  task,         \* what became of each task
  reports,      \* notifications under way
  recorded,     \* StageInfo.Results, by task; "none" if SeenTasks has it not
  doneTasks, failedTasks,   \* counters of StageInfo
  handler,      \* the next step of the callback
  doneCh,       \* doneCh holds a value
  watchdog,     \* the watchdog goroutine
  canceller,    \* the next step of CancelQuery
  objects,      \* tasks whose stored result exists
  cleaners,     \* CleanQuery goroutines that have not run
  cleaned,      \* cleanupQuery ran
  answer,       \* what GetQueryResults returned last
  duplicates, failures, losses

stage == <<recorded, doneTasks, failedTasks>>
tracker == <<state, stage>>
ctl == <<submit, context, subscribed, resultSub, doneCh, watchdog>>
work == <<task, reports, duplicates, failures, losses>>
rest == <<objects, cleaners, cleaned>>
vars == <<tracker, ctl, work, handler, canceller, rest, answer>>

\* What a task reports.
Kind == {"inline", "stored", "error"}

Terminal == {"completed", "failed", "cancelled"}

Known == state \notin {"none", "gone"}

Active == state \in {"pending", "running"}

Seen == {t \in Task : recorded[t] # "none"}

Done == {t \in Task : recorded[t] \in {"inline", "stored"}}

\* The stage, and with it the query, is complete.
IsComplete == doneTasks + failedTasks >= Cardinality(Task)

Init ==
  /\ state = "none"
  /\ recorded = [t \in Task |-> "none"] /\ doneTasks = 0 /\ failedTasks = 0
  /\ submit = "register"
  /\ context = "live" /\ subscribed = FALSE /\ resultSub = FALSE
  /\ doneCh = FALSE /\ watchdog = "none"
  /\ task = [t \in Task |-> "unsent"]
  /\ reports = {}
  /\ duplicates = 0 /\ failures = 0 /\ losses = 0
  /\ handler = "idle" /\ canceller = "idle"
  /\ objects = {} /\ cleaners = 0 /\ cleaned = FALSE
  /\ answer = "none"

\* Fail, Complete, Cancel and Start write the state of a query that is known,
\* whatever it was.
Mark(new) == state' = IF Known THEN new ELSE state

-----------------------------------------------------------------------------
\* SubmitSQL, from Register on.

Register ==
  /\ submit = "register"
  /\ state' = "pending"
  /\ submit' = "start"
  /\ UNCHANGED <<stage, context, subscribed, resultSub, doneCh, watchdog, work,
                 handler, canceller, rest, answer>>

Start ==
  /\ submit = "start"
  /\ Mark("running")
  /\ submit' = "subscribe"
  /\ UNCHANGED <<stage, context, subscribed, resultSub, doneCh, watchdog, work,
                 handler, canceller, rest, answer>>

\* If Subscribe fails that is logged, and the query goes on without it.
subscribeResults ==
  /\ submit = "subscribe"
  /\ \/ subscribed' = TRUE /\ resultSub' = TRUE
     \/ PublishFails /\ UNCHANGED <<subscribed, resultSub>>
  /\ submit' = "publish"
  /\ UNCHANGED <<tracker, context, doneCh, watchdog, work, handler, canceller, rest,
                 answer>>

\* PublishTasks dispatches the tasks one by one, and may fail after some.
Publish ==
  /\ submit = "publish"
  /\ \/ /\ task' = [t \in Task |-> "sent"]
        /\ submit' = "watch"
        /\ UNCHANGED <<state, context>>
     \/ /\ PublishFails
        /\ \E sent \in SUBSET Task :
             /\ sent # Task
             /\ task' = [t \in Task |-> IF t \in sent THEN "sent" ELSE "over"]
        /\ context' = IF context = "live" THEN "cancelled" ELSE context
        /\ Mark("failed")
        /\ submit' = "returned"
  /\ UNCHANGED <<stage, subscribed, resultSub, doneCh, watchdog, reports,
                 duplicates, failures, losses, handler, canceller, rest, answer>>

StartWatchdog ==
  /\ submit = "watch"
  /\ submit' = "returned"
  /\ watchdog' = "waits"
  /\ UNCHANGED <<tracker, context, subscribed, resultSub, doneCh, work, handler,
                 canceller, rest, answer>>

\* QueryTimeout passes.
Deadline ==
  /\ submit \in {"subscribe", "publish", "watch", "returned"}
  /\ context = "live"
  /\ context' = "expired"
  /\ UNCHANGED <<tracker, submit, subscribed, resultSub, doneCh, watchdog, work,
                 handler, canceller, rest, answer>>

\* The goroutine of subscribeResults ends the subscription once its context, a
\* child of asyncCtx that cleanupQuery and CancelQuery cancel, is done.
Unsubscribe ==
  /\ subscribed /\ (context # "live" \/ ~ resultSub)
  /\ subscribed' = FALSE
  /\ UNCHANGED <<tracker, submit, context, resultSub, doneCh, watchdog, work, handler,
                 canceller, rest, answer>>

-----------------------------------------------------------------------------
\* cleanupQuery: the subscription is cancelled, the workers are told, and a
\* goroutine deletes the objects of the query.
cleanupQuery ==
  /\ resultSub' = FALSE
  /\ cleaned' = TRUE
  /\ cleaners' = cleaners + 1

CleanQuery ==
  /\ cleaners > 0
  /\ cleaners' = cleaners - 1
  /\ objects' = {}
  /\ UNCHANGED <<tracker, ctl, work, handler, canceller, cleaned, answer>>

\* Mutant: only the objects of queries that are known to have ended go.
CleanStaleEnded ==
  /\ objects # {}
  /\ state \in Terminal
  /\ objects' = {}
  /\ UNCHANGED <<tracker, ctl, work, handler, canceller, cleaners, cleaned, answer>>

\* CleanStale: objects older than the TTL go, unless their query is active.
CleanStale ==
  /\ objects # {}
  /\ ~ Active
  /\ objects' = {}
  /\ UNCHANGED <<tracker, ctl, work, handler, canceller, cleaners, cleaned, answer>>

\* ReapCompleted.
ReapCompleted ==
  /\ state \in Terminal
  /\ state' = "gone"
  /\ UNCHANGED <<stage, ctl, work, handler, canceller, rest, answer>>

-----------------------------------------------------------------------------
\* Workers.  A result that is stored is uploaded before it is reported.

Finish(t, kind) ==
  /\ task[t] = "sent"
  /\ kind = "error" => failures < MaxFailures
  /\ failures' = IF kind = "error" THEN failures + 1 ELSE failures
  /\ task' = [task EXCEPT ![t] = "over"]
  /\ objects' = IF kind = "stored" THEN objects \cup {t} ELSE objects
  /\ reports' = IF subscribed THEN reports \cup {<<t, kind>>} ELSE reports
  /\ UNCHANGED <<tracker, ctl, duplicates, losses, handler, canceller, cleaners,
                 cleaned, answer>>

\* The worker dies, or drops the task because the query is not active any more.
Lose(t) ==
  /\ task[t] = "sent"
  /\ Active => losses < MaxLosses
  /\ losses' = IF Active THEN losses + 1 ELSE losses
  /\ task' = [task EXCEPT ![t] = "over"]
  /\ UNCHANGED <<tracker, ctl, reports, duplicates, failures, handler, canceller,
                 rest, answer>>

-----------------------------------------------------------------------------
\* The callback of the subscription.

Receive(r) ==
  \/ reports' = reports \ {r} /\ UNCHANGED duplicates
  \/ /\ duplicates < MaxDuplicates
     /\ duplicates' = duplicates + 1
     /\ UNCHANGED reports

\* The counters and the results of the stage, with one more result.
Count(r) ==
  /\ recorded' = [recorded EXCEPT ![r[1]] = r[2]]
  /\ doneTasks' = IF r[2] = "error" THEN doneTasks ELSE doneTasks + 1
  /\ failedTasks' = IF r[2] = "error" THEN failedTasks + 1 ELSE failedTasks
  /\ handler' = IF IsComplete' THEN "failed?" ELSE "idle"

\* Mutant: a result that is delivered twice counts twice.
RecordResultTwice(r) ==
  /\ handler = "idle" /\ subscribed
  /\ r \in reports
  /\ Receive(r)
  /\ IF Known THEN Count(r) ELSE UNCHANGED <<stage, handler>>
  /\ UNCHANGED <<state, ctl, task, failures, losses, canceller, rest, answer>>

\* RecordResult: the first result of a task counts; true if it was the last one.
RecordResult(r) ==
  /\ handler = "idle" /\ subscribed
  /\ r \in reports
  /\ Receive(r)
  /\ IF Known /\ recorded[r[1]] = "none"
     THEN Count(r)
     ELSE UNCHANGED <<stage, handler>>
  /\ UNCHANGED <<state, ctl, task, failures, losses, canceller, rest, answer>>

\* StageFailed: every task of the stage failed.  IsComplete otherwise.
StageFailed ==
  /\ handler = "failed?"
  /\ handler' = IF ~ Known THEN "idle"
                ELSE IF doneTasks = 0 THEN "fail" ELSE "complete"
  /\ UNCHANGED <<tracker, ctl, work, canceller, rest, answer>>

Fail ==
  /\ handler = "fail"
  /\ Mark("failed")
  /\ handler' = "clean"
  /\ UNCHANGED <<stage, ctl, work, canceller, rest, answer>>

Complete ==
  /\ handler = "complete"
  /\ Mark("completed")
  /\ handler' = "clean"
  /\ UNCHANGED <<stage, ctl, work, canceller, rest, answer>>

HandlerCleanup ==
  /\ handler = "clean"
  /\ cleanupQuery
  /\ handler' = "done"
  /\ UNCHANGED <<tracker, submit, context, subscribed, doneCh, watchdog, work,
                 canceller, objects, answer>>

SendDone ==
  /\ handler = "done"
  /\ doneCh' = TRUE
  /\ handler' = "idle"
  /\ UNCHANGED <<tracker, submit, context, subscribed, resultSub, watchdog, work,
                 canceller, rest, answer>>

-----------------------------------------------------------------------------
\* The watchdog.

WatchDone ==
  /\ watchdog = "waits" /\ doneCh
  /\ doneCh' = FALSE
  /\ context' = IF context = "live" THEN "cancelled" ELSE context
  /\ watchdog' = "ended"
  /\ UNCHANGED <<tracker, submit, subscribed, resultSub, work, handler, canceller,
                 rest, answer>>

\* Mutant: the watchdog leaves a query that timed out to the reaper.
WatchDeadlineOnly ==
  /\ watchdog = "waits" /\ context = "expired"
  /\ watchdog' = "clean"
  /\ UNCHANGED <<tracker, submit, context, subscribed, resultSub, doneCh, work,
                 handler, canceller, rest, answer>>

WatchDeadline ==
  /\ watchdog = "waits" /\ context = "expired"
  /\ Mark("failed")
  /\ watchdog' = "clean"
  /\ UNCHANGED <<stage, submit, context, subscribed, resultSub, doneCh, work,
                 handler, canceller, rest, answer>>

WatchCleanup ==
  /\ watchdog = "clean"
  /\ cleanupQuery
  /\ watchdog' = "ended"
  /\ UNCHANGED <<tracker, submit, context, subscribed, doneCh, work, handler,
                 canceller, objects, answer>>

-----------------------------------------------------------------------------
\* CancelQuery: the state is read, the subscription ended, the state written, and
\* the query cleaned up.

CancelRead ==
  /\ canceller = "idle"
  /\ Active
  /\ canceller' = "sub"
  /\ UNCHANGED <<tracker, ctl, work, handler, rest, answer>>

CancelSub ==
  /\ canceller = "sub"
  /\ resultSub' = FALSE
  /\ canceller' = "mark"
  /\ UNCHANGED <<tracker, submit, context, subscribed, doneCh, watchdog, work,
                 handler, rest, answer>>

Cancel ==
  /\ canceller = "mark"
  /\ Mark("cancelled")
  /\ canceller' = "clean"
  /\ UNCHANGED <<stage, ctl, work, handler, rest, answer>>

CancelCleanup ==
  /\ canceller = "clean"
  /\ cleanupQuery
  /\ canceller' = "ended"
  /\ UNCHANGED <<tracker, submit, context, subscribed, doneCh, watchdog, work,
                 handler, objects, answer>>

\* GetQueryResults and readFinalResults: the results of tasks that failed are
\* skipped.  With several tasks the stored parts are fetched for the merge, and
\* one that cannot be fetched makes the answer an error; with one, the answer
\* names the object, and the client reads it.
GetQueryResults ==
  /\ Known /\ submit = "returned"
  /\ answer' = IF state # "completed" THEN "error"
               ELSE IF \E t \in Done : recorded[t] = "stored" /\ t \notin objects
               THEN "unreadable" ELSE "rows"
  /\ UNCHANGED <<tracker, ctl, work, handler, canceller, rest>>

-----------------------------------------------------------------------------

SubmitStep == Register \/ Start \/ subscribeResults \/ Publish \/ StartWatchdog

HandlerStep == (\E r \in reports : RecordResult(r)) \/ StageFailed \/ Fail \/ Complete
               \/ HandlerCleanup \/ SendDone

WatchStep == WatchDone \/ WatchDeadline \/ WatchCleanup

CancelStep == CancelSub \/ Cancel \/ CancelCleanup

Next ==
  \/ SubmitStep \/ HandlerStep \/ WatchStep \/ CancelStep
  \/ Deadline \/ Unsubscribe \/ CancelRead
  \/ CleanQuery \/ CleanStale \/ ReapCompleted
  \/ \E t \in Task :
       \/ \E kind \in Kind : Finish(t, kind)
       \/ Lose(t)
  \/ GetQueryResults

Spec == Init /\ [][Next]_vars

\* Goroutines go on, the timer of asyncCtx fires, and the periodic sweeps run.
\* Weak fairness of the whole is as good as weak fairness of each disjunct: a query
\* takes only so many of these steps, so none can be put off for ever.
Advance ==
  \/ SubmitStep \/ HandlerStep \/ WatchStep \/ CancelStep
  \/ Deadline \/ Unsubscribe
  \/ CleanQuery \/ CleanStale \/ ReapCompleted

Fairness == WF_vars(Advance)

LiveSpec == Spec /\ Fairness

-----------------------------------------------------------------------------
\* Properties.

\* The type invariant.
TypeOK ==
  /\ state \in {"none", "pending", "running", "gone"} \cup Terminal
  /\ recorded \in [Task -> Kind \cup {"none"}]
  /\ doneTasks \in Nat /\ failedTasks \in Nat
  /\ submit \in {"register", "start", "subscribe", "publish", "watch", "returned"}
  /\ context \in {"live", "cancelled", "expired"}
  /\ subscribed \in BOOLEAN /\ resultSub \in BOOLEAN /\ doneCh \in BOOLEAN
  /\ task \in [Task -> {"unsent", "sent", "over"}]
  /\ reports \subseteq Task \X Kind
  /\ handler \in {"idle", "failed?", "fail", "complete", "clean", "done"}
  /\ watchdog \in {"none", "waits", "clean", "ended"}
  /\ canceller \in {"idle", "sub", "mark", "clean", "ended"}
  /\ objects \subseteq Task /\ cleaners \in Nat /\ cleaned \in BOOLEAN
  /\ answer \in {"none", "error", "unreadable", "rows"}
  /\ duplicates \in Nat /\ failures \in Nat /\ losses \in Nat

\* The counters of a stage agree with the results it holds, and the callback
\* marks a query only when no result is missing.
Counted ==
  /\ doneTasks + failedTasks = Cardinality(Seen)
  /\ handler \in {"failed?", "fail", "complete"} => Seen = Task

\* A query is completed only when every task has reported, however often its
\* result was delivered.
CompletedIsReported ==
  state = "completed" => Seen = Task

\* Every query that was registered ends and leaves the tracker, whatever happens
\* to its tasks, its subscription and its watchdog.
EveryQueryEnds == (state # "none") ~> (state = "gone")

\* The objects of a query are deleted in the end, those included that a late
\* task stores after CleanQuery ran.
ScratchIsReclaimed == []<>(objects = {})

=============================================================================

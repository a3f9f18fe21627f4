------------------------------ MODULE TaskRetry -------------------------------
(***************************************************************************)
(* The tasks of one stage, from their dispatch to the last result: the     *)
(* retrier that counts attempts, the liveness table that notices tasks of  *)
(* silent workers, and the registry that reaps the workers.                *)
(*                                                                         *)
(* Four goroutines of the coordinator interleave: the one that publishes   *)
(* an attempt, the one that handles results, the sweep for stuck tasks and *)
(* the reaper of the registry.  Workers may die, stall, answer late, send  *)
(* an answer more than once, and give up sending it.                       *)
(*                                                                         *)
(* Abstractions.  Dispatch is by gRPC to one worker.  A task's clock is    *)
(* absent, fresh, or older than stuckTaskThreshold.  What a result carries *)
(* is the number of the attempt that made it.                              *)
(***************************************************************************)
EXTENDS Naturals, FiniteSets

CONSTANTS
  Task,            \* the tasks of the stage
  Worker,          \* workers
  NoWorker,        \* none of them
  MaxAttempts,     \* maxTaskAttempts (3 in the code)
  RetryEnabled,    \* FALSE for gather-fused stages
  Flaky,           \* bound: the workers that may die or stall
  Troubled,        \* bound: the tasks that may meet a fault; others end before the
                   \* next heartbeat
  MaxFaults        \* bound: deaths, stalls, failures, lost and repeated messages

ASSUME RetryAssumption ==
  /\ IsFiniteSet(Task)
  /\ NoWorker \notin Worker
  /\ MaxAttempts \in Nat \ {0}
  /\ RetryEnabled \in BOOLEAN
  /\ Flaky \subseteq Worker /\ Troubled \subseteq Task
  /\ MaxFaults \in Nat

VARIABLES
  attempts,   \* taskAttemptState.attempts
  outcome,    \* "open", or the terminal state of a task
  files,      \* the attempt whose files were taken, 0 if none
  terminal,   \* taskRetrier.terminal
  complete,   \* Observe reported that all tasks are terminal
  exec,       \* what became of each attempt of each task
  target,     \* the worker that has an attempt, until it has told its result
  assigning,  \* dispatches that were sent and are not yet noted
  results,    \* notifications under way
  handling,   \* the notification that was noted and is not yet observed
  clock,      \* TaskLiveness.tasks
  assigned,   \* TaskLiveness.assigned
  registry,   \* the workers that are registered
  alive,      \* the workers that run
  sweep,      \* the local variables of reapStuckOnce
  faults

vars == <<attempts, outcome, files, terminal, complete, exec, target, assigning,
          results, handling, clock, assigned, registry, alive, sweep, faults>>

retrier == <<attempts, outcome, files, terminal, complete>>
liveness == <<clock, assigned>>
workers == <<registry, alive>>

Attempt == 1..MaxAttempts

\* How an attempt ended,
Kind == {"ok", "error", "fatal"}

\* or what else became of it: "lost" if nobody will hear of it.
Phase == {"none", "publishing", "queued", "running", "lost"} \cup Kind

Result == [task : Task, attempt : Attempt, kind : Kind]

Nothing == {}

NoSweep == [pc |-> "idle", todo |-> {}, redone |-> {}, ended |-> {}]

Init ==
  /\ attempts = [t \in Task |-> 1]
  /\ outcome = [t \in Task |-> "open"]
  /\ files = [t \in Task |-> 0]
  /\ terminal = 0
  /\ complete = FALSE
  /\ exec = [t \in Task |-> [a \in Attempt |-> IF a = 1 THEN "publishing"
                                               ELSE "none"]]
  /\ target = [t \in Task |-> [a \in Attempt |-> NoWorker]]
  /\ assigning = {}
  /\ results = {}
  /\ handling = Nothing
  /\ clock = [t \in Task |-> "none"]
  /\ assigned = [t \in Task |-> NoWorker]
  /\ registry = Worker
  /\ alive = Worker
  /\ sweep = NoSweep
  /\ faults = 0

\* Some attempt of t has come to phase.
Met(t, phase) == \E a \in Attempt : exec[t][a] = phase

\* A step that is one more fault exactly if wrong is TRUE.  What keeps going wrong is
\* one fault: a task that fails on every attempt, a network on which a worker is lost
\* and retries are not published.
Fault(wrong) ==
  /\ wrong => faults < MaxFaults
  /\ faults' = IF wrong THEN faults + 1 ELSE faults

-----------------------------------------------------------------------------
\* PublishTasks: a task is sent to a worker, and then noted as assigned to it.  The tasks
\* of a stage are sent one after another, a retry by a goroutine of its own.
\* Workers that are registered come first, but the paths for a worker that just
\* dropped its connection, and for a registry that knows none, take any worker
\* that is connected.

SendTaskDispatch(t, a, w) ==
  /\ exec[t][a] = "publishing"
  /\ a = 1 => \A x \in assigning : x.attempt # 1
  /\ w \in Flaky => t \in Troubled
  /\ exec' = [exec EXCEPT ![t][a] = "queued"]
  /\ target' = [target EXCEPT ![t][a] = w]
  /\ assigning' = assigning \cup {[task |-> t, attempt |-> a, worker |-> w]}
  /\ UNCHANGED <<retrier, results, handling, liveness, workers, sweep, faults>>

\* A retry that finds no worker is logged, and that is all.
PublishError(t, a) ==
  /\ exec[t][a] = "publishing" /\ a > 1
  /\ Fault(alive = Worker /\ ~ Met(t, "lost"))
  /\ exec' = [exec EXCEPT ![t][a] = "lost"]
  /\ UNCHANGED <<retrier, target, assigning, results, handling, liveness, workers,
                 sweep>>

noteInflight(x) ==
  /\ x \in assigning
  /\ assigning' = assigning \ {x}
  /\ assigned' = [assigned EXCEPT ![x.task] = x.worker]
  /\ UNCHANGED <<retrier, exec, target, results, handling, clock, workers, sweep,
                 faults>>

-----------------------------------------------------------------------------
\* Workers.

Start(t, a) ==
  /\ exec[t][a] = "queued" /\ target[t][a] \in alive
  /\ exec' = [exec EXCEPT ![t][a] = "running"]
  /\ UNCHANGED <<retrier, target, assigning, results, handling, liveness, workers,
                 sweep, faults>>

\* The task ends, and its result is sent.
Finish(t, a, kind) ==
  /\ exec[t][a] = "running" /\ target[t][a] \in alive
  /\ kind # "ok" => t \in Troubled
  /\ Fault(kind # "ok" /\ ~ Met(t, kind))
  /\ exec' = [exec EXCEPT ![t][a] = kind]
  /\ results' = results \cup {[task |-> t, attempt |-> a, kind |-> kind]}
  /\ UNCHANGED <<retrier, target, assigning, handling, liveness, workers, sweep>>

\* None of the three requests that publish a result gets through.
PublishResultError(t, a) ==
  /\ exec[t][a] = "running" /\ target[t][a] \in alive
  /\ t \in Troubled
  /\ Fault(~ Met(t, "lost"))
  /\ exec' = [exec EXCEPT ![t][a] = "lost"]
  /\ target' = [target EXCEPT ![t][a] = NoWorker]
  /\ UNCHANGED <<retrier, assigning, results, handling, liveness, workers, sweep>>

\* The request was answered.
trackTaskEnd(t, a) ==
  /\ exec[t][a] \in Kind /\ target[t][a] \in alive
  /\ [task |-> t, attempt |-> a, kind |-> exec[t][a]] \notin results
  /\ target' = [target EXCEPT ![t][a] = NoWorker]
  /\ UNCHANGED <<retrier, exec, assigning, results, handling, liveness, workers,
                 sweep, faults>>

\* An attempt of t that w runs, or whose result it is sending.
Active(t, w) ==
  t \in Troubled /\ \E a \in Attempt : exec[t][a] \in {"running"} \cup Kind /\ target[t][a] = w

\* A heartbeat registers its worker, and names the tasks that are active there.
record(w) ==
  /\ w \in alive
  /\ registry' = registry \cup {w}
  /\ clock' = [t \in Task |-> IF Active(t, w) THEN "fresh" ELSE clock[t]]
  /\ UNCHANGED <<retrier, exec, target, assigning, results, handling, assigned,
                 alive, sweep, faults>>

Die(w) ==
  /\ w \in alive \cap Flaky
  /\ Fault(TRUE)
  /\ alive' = alive \ {w}
  /\ UNCHANGED <<retrier, exec, target, assigning, results, handling, liveness,
                 registry, sweep>>

\* A live worker has the task, or a dispatch or a result of it is under way.
UnderWay(t) ==
  \/ \E a \in Attempt : exec[t][a] = "publishing" \/ target[t][a] \in alive
  \/ \E r \in results \cup handling : r.task = t

\* stuckTaskThreshold passes without a sign of the task, which is a fault if it is under
\* way.  The threshold is longer than the registry waits for a worker: one that is dead
\* was reaped before.
Age(t) ==
  /\ clock[t] = "fresh"
  /\ assigned[t] \in registry => assigned[t] \in alive
  /\ Fault(UnderWay(t))
  /\ clock' = [clock EXCEPT ![t] = "old"]
  /\ UNCHANGED <<retrier, exec, target, assigning, results, handling, assigned,
                 workers, sweep>>

\* ReapStale with ExpireWorker.  A worker that only stalled may be reaped too.
ReapStale(w) ==
  /\ w \in registry
  /\ w \in alive => w \in Flaky
  /\ Fault(w \in alive)
  /\ registry' = registry \ {w}
  /\ clock' = [t \in Task |-> IF assigned[t] = w THEN "old" ELSE clock[t]]
  /\ UNCHANGED <<retrier, exec, target, assigning, results, handling, assigned,
                 alive, sweep>>

-----------------------------------------------------------------------------
\* The handler of results.

\* noteTaskResult.  If the worker does not get the answer, the notification comes again.
noteTaskResult(r) ==
  /\ handling = Nothing
  /\ r \in results
  /\ \/ results' = results \ {r} /\ Fault(FALSE)
     \/ /\ r.task \in Troubled /\ target[r.task][r.attempt] \in alive
        /\ Fault(TRUE)
        /\ UNCHANGED results
  /\ handling' = {r}
  /\ clock' = [clock EXCEPT ![r.task] = "none"]
  /\ assigned' = [assigned EXCEPT ![r.task] = NoWorker]
  /\ UNCHANGED <<retrier, exec, target, assigning, workers, sweep>>

\* One more attempt of t is handed to a goroutine that publishes it.
Republish(t) ==
  /\ attempts' = [attempts EXCEPT ![t] = attempts[t] + 1]
  /\ exec' = [exec EXCEPT ![t][attempts[t] + 1] = "publishing"]

CanRetry(t) == RetryEnabled /\ attempts[t] < MaxAttempts

Terminate(t, how, from) ==
  /\ outcome' = [outcome EXCEPT ![t] = how]
  /\ files' = [files EXCEPT ![t] = from]
  /\ terminal' = terminal + 1
  /\ complete' = (terminal + 1 >= Cardinality(Task))

\* Mutant: results after the terminal one are counted like the first.
ObserveAll ==
  \E r \in handling :
    /\ handling' = Nothing
    /\ \/ /\ r.kind = "ok"
          /\ Terminate(r.task, "done", r.attempt)
          /\ UNCHANGED <<attempts, exec>>
       \/ /\ r.kind = "error" /\ CanRetry(r.task)
          /\ Republish(r.task)
          /\ UNCHANGED <<outcome, files, terminal, complete>>
       \/ /\ r.kind = "error" => ~ CanRetry(r.task)
          /\ r.kind # "ok"
          /\ Terminate(r.task, IF r.kind = "fatal" THEN "fatal" ELSE "exhausted", 0)
          /\ UNCHANGED <<attempts, exec>>
    /\ UNCHANGED <<target, assigning, results, liveness, workers, sweep,
                   faults>>

\* Observe.
Observe ==
  \E r \in handling :
    /\ handling' = Nothing
    /\ \/ /\ outcome[r.task] # "open"
          /\ UNCHANGED <<retrier, exec>>
       \/ /\ outcome[r.task] = "open" /\ r.kind = "ok"
          /\ Terminate(r.task, "done", r.attempt)
          /\ UNCHANGED <<attempts, exec>>
       \/ /\ outcome[r.task] = "open" /\ r.kind = "error" /\ CanRetry(r.task)
          /\ Republish(r.task)
          /\ UNCHANGED <<outcome, files, terminal, complete>>
       \/ /\ outcome[r.task] = "open"
          /\ r.kind = "error" => ~ CanRetry(r.task)
          /\ r.kind # "ok"
          /\ Terminate(r.task, IF r.kind = "fatal" THEN "fatal" ELSE "exhausted", 0)
          /\ UNCHANGED <<attempts, exec>>
    /\ UNCHANGED <<target, assigning, results, liveness, workers, sweep,
                   faults>>

-----------------------------------------------------------------------------
\* reapStuckOnce: the stuck tasks are listed, retried one by one, and then their
\* clocks are set.

StuckTasks ==
  LET stuck == {t \in Task : clock[t] = "old"} IN
  /\ sweep.pc = "idle" /\ ~ complete
  /\ stuck # {}
  /\ sweep' = [NoSweep EXCEPT !.pc = "retry", !.todo = stuck]
  /\ UNCHANGED <<retrier, exec, target, assigning, results, handling, liveness,
                 workers, faults>>

\* Mutant: a task that is terminal is dispatched again.
RetryStuckBlind(t) ==
  /\ sweep.pc = "retry" /\ t \in sweep.todo
  /\ \/ CanRetry(t) /\ Republish(t)
     \/ ~ CanRetry(t) /\ UNCHANGED <<attempts, exec>>
  /\ sweep' = [sweep EXCEPT !.todo = sweep.todo \ {t},
                            !.redone = IF CanRetry(t) THEN @ \cup {t} ELSE @]
  /\ UNCHANGED <<outcome, files, terminal, complete, target, assigning, results,
                 handling, liveness, workers, faults>>

\* Mutant: a stuck task that has no attempt left fails.
RetryStuckFails(t) ==
  /\ sweep.pc = "retry" /\ t \in sweep.todo
  /\ \/ outcome[t] # "open" /\ UNCHANGED <<retrier, exec>>
     \/ /\ outcome[t] = "open" /\ CanRetry(t)
        /\ Republish(t)
        /\ UNCHANGED <<outcome, files, terminal, complete>>
     \/ /\ outcome[t] = "open" /\ ~ CanRetry(t)
        /\ Terminate(t, "exhausted", 0)
        /\ UNCHANGED <<attempts, exec>>
  /\ sweep' = [sweep EXCEPT !.todo = sweep.todo \ {t}]
  /\ UNCHANGED <<target, assigning, results, handling, liveness, workers, faults>>

RetryStuck(t) ==
  /\ sweep.pc = "retry" /\ t \in sweep.todo
  /\ \/ /\ outcome[t] # "open"
        /\ sweep' = [sweep EXCEPT !.todo = sweep.todo \ {t},
                                  !.ended = sweep.ended \cup {t}]
        /\ UNCHANGED <<attempts, exec>>
     \/ /\ outcome[t] = "open" /\ CanRetry(t)
        /\ Republish(t)
        /\ sweep' = [sweep EXCEPT !.todo = sweep.todo \ {t},
                                  !.redone = sweep.redone \cup {t}]
     \/ /\ outcome[t] = "open" /\ ~ CanRetry(t)
        /\ sweep' = [sweep EXCEPT !.todo = sweep.todo \ {t}]
        /\ UNCHANGED <<attempts, exec>>
  /\ UNCHANGED <<outcome, files, terminal, complete, target, assigning, results,
                 handling, liveness, workers, faults>>

\* Mutant: a task that was dispatched again leaves the table.
ResetClocksRemove ==
  /\ sweep.pc = "retry" /\ sweep.todo = {}
  /\ clock' = [t \in Task |-> IF t \in sweep.ended \cup sweep.redone THEN "none"
                              ELSE clock[t]]
  /\ assigned' = [t \in Task |-> IF t \in sweep.ended \cup sweep.redone THEN NoWorker
                                 ELSE assigned[t]]
  /\ sweep' = NoSweep
  /\ UNCHANGED <<retrier, exec, target, assigning, results, handling, workers,
                 faults>>

ResetClocks ==
  /\ sweep.pc = "retry" /\ sweep.todo = {}
  /\ clock' = [t \in Task |-> IF t \in sweep.ended THEN "none"
                              ELSE IF t \in sweep.redone THEN "fresh"
                              ELSE clock[t]]
  /\ assigned' = [t \in Task |-> IF t \in sweep.ended THEN NoWorker
                                 ELSE assigned[t]]
  /\ sweep' = NoSweep
  /\ UNCHANGED <<retrier, exec, target, assigning, results, handling, workers,
                 faults>>

SweepStep == StuckTasks \/ (\E t \in Task : RetryStuck(t)) \/ ResetClocks

-----------------------------------------------------------------------------

Next ==
  \/ \E t \in Task, a \in Attempt :
       \/ \E w \in Worker : SendTaskDispatch(t, a, w)
       \/ PublishError(t, a)
       \/ Start(t, a)
       \/ \E kind \in Kind : Finish(t, a, kind)
       \/ PublishResultError(t, a)
       \/ trackTaskEnd(t, a)
  \/ \E x \in assigning : noteInflight(x)
  \/ \E w \in Worker : record(w) \/ Die(w) \/ ReapStale(w)
  \/ \E t \in Task : Age(t)
  \/ \E r \in results : noteTaskResult(r)
  \/ Observe
  \/ SweepStep

Spec == Init /\ [][Next]_vars

\* The steps that a stage takes only so often: goroutines go on, workers that run
\* get to their tasks, and one that is dead is reaped.
Advance ==
  \/ \E t \in Task, a \in Attempt :
       \/ \E w \in Worker : SendTaskDispatch(t, a, w)
       \/ Start(t, a)
       \/ \E kind \in Kind : Finish(t, a, kind)
       \/ PublishResultError(t, a)
       \/ trackTaskEnd(t, a)
  \/ \E x \in assigning : noteInflight(x)
  \/ \E w \in Worker \ alive : ReapStale(w)
  \/ \E r \in results : noteTaskResult(r)
  \/ Observe
  \/ \E t \in Task : Age(t)

\* Tickers tick.  Weak fairness of Advance is as good as weak fairness of each of
\* its disjuncts: none can be taken for ever, so none can be put off for ever.
Fairness ==
  /\ WF_vars(Advance)
  /\ WF_vars(SweepStep)

LiveSpec == Spec /\ Fairness

-----------------------------------------------------------------------------
\* Properties.

\* A stage is complete when every task is terminal, and not before: results
\* that are repeated, or that come after another attempt's, count once.
CompleteMeansAll ==
  /\ terminal = Cardinality({t \in Task : outcome[t] # "open"})
  /\ complete => \A t \in Task : outcome[t] # "open"

\* What a task produced is fixed by the first terminal result: a late result of another
\* attempt neither replaces the files nor turns the task into a failure, and neither it
\* nor a sweep that listed the task before dispatches it once more.
ResultIsFinal ==
  [][\A t \in Task : outcome[t] # "open" =>
       /\ outcome'[t] = outcome[t] /\ files'[t] = files[t]
       /\ attempts'[t] = attempts[t]]_vars

\* The attempts that a task may have.
Cap == IF RetryEnabled THEN MaxAttempts ELSE 1

\* A task ends only as one of its attempts did: its files are those of an attempt that
\* succeeded, and it fails because of one that failed, after the last permitted dispatch
\* unless no retry can help.  Silence alone ends no task.
OutcomeIsEarned ==
  \A t \in Task :
    /\ outcome[t] = "done" => files[t] \in Attempt /\ exec[t][files[t]] = "ok"
    /\ outcome[t] = "fatal" => \E a \in Attempt : exec[t][a] = "fatal"
    /\ outcome[t] = "exhausted" =>
         attempts[t] = Cap /\ \E a \in Attempt : exec[t][a] = "error"

\* No clock runs for the task, and a dispatch of it is noted late: its worker was
\* reaped, its attempt is over, or another attempt followed.
NotedLate ==
  \E x \in assigning : /\ clock[x.task] = "none"
                       /\ \/ x.worker \notin registry
                          \/ exec[x.task][x.attempt] \in {"lost"} \cup Kind
                          \/ x.attempt < attempts[x.task]

\* No clock runs for the task, and its last attempt was not published or its result
\* did not arrive.
Unheard ==
  \E t \in Task : /\ clock[t] = "none" /\ exec[t][attempts[t]] = "lost"
                  /\ \A r \in handling : r.task # t

\* The attempt is lost, or with a worker that is dead.
Gone(t, a) ==
  \/ exec[t][a] = "lost"
  \/ exec[t][a] \in {"queued", "running"} /\ target[t][a] \notin alive

\* A task that a dead worker took with it, or whose result or retry was lost, is
\* dispatched again, also when what took its place is lost as well, until it is terminal
\* or the last permitted attempt is lost, provided that a clock or a binding to a
\* registered worker was there when it happened.
Recovers ==
  []~ (NotedLate \/ Unheard)
    => <>(\A t \in Task : outcome[t] # "open" \/ (attempts[t] = Cap /\ Gone(t, Cap)))

=============================================================================

--------------------------- MODULE TaskRetryProofs ----------------------------
(***************************************************************************)
(* The accounting of taskRetrier, for any tasks, workers and bounds: the   *)
(* counter of terminal tasks is exact, and a task's outcome is that of one *)
(* of its attempts, and final.                                             *)
(***************************************************************************)
EXTENDS TaskRetry, FiniteSetTheorems, TLAPS

\* A leaf is Zenon's unless it names the SMT solver.
USE ZenonT(60)

Outcome == {"open", "done", "fatal", "exhausted"}

Sweep == [pc : {"idle", "retry"}, todo : SUBSET Task, redone : SUBSET Task,
          ended : SUBSET Task]

Ended == {t \in Task : outcome[t] # "open"}

\* The parts of the state that the proofs read have their types.
TypeOK ==
  /\ attempts \in [Task -> Attempt]
  /\ outcome \in [Task -> Outcome]
  /\ files \in [Task -> Nat]
  /\ exec \in [Task -> [Attempt -> Phase]]
  /\ results \subseteq Result
  /\ handling \subseteq Result
  /\ sweep \in Sweep
  /\ \A x \in assigning : x.task \in Task

Counted == terminal = Cardinality(Ended)

\* An attempt was handed out exactly if its number is no more than the count.
Numbered ==
  \A t \in Task : \A a \in Attempt : exec[t][a] # "none" <=> a <= attempts[t]

IInv == TypeOK /\ Counted /\ Numbered /\ (complete => terminal >= Cardinality(Task))

LEMMA EndedFinite == IsFiniteSet(Ended) /\ Cardinality(Ended) \in Nat
<1>1. IsFiniteSet(Task)
  BY RetryAssumption
<1>2. Ended \subseteq Task
  BY DEF Ended
<1> QED
  BY <1>1, <1>2, FS_Subset, FS_CardinalityType

\* Steps that leave the retrier and the phases of the attempts alone.
LEMMA Quiet ==
  ASSUME IInv, UNCHANGED <<retrier, exec>>,
         results' \subseteq Result, handling' \subseteq Result,
         sweep' \in Sweep, \A x \in assigning' : x.task \in Task
  PROVE  IInv'
<1>1. Ended' = Ended
  BY DEF Ended, retrier
<1> QED
  BY <1>1 DEF IInv, TypeOK, Counted, Numbered, retrier

\* A worker moves an attempt that was handed out to a phase other than "none".
LEMMA Moves ==
  ASSUME IInv, NEW t \in Task, NEW a \in Attempt, NEW p \in Phase,
         exec[t][a] # "none", p # "none",
         exec' = [exec EXCEPT ![t][a] = p], UNCHANGED retrier,
         results' \subseteq Result, handling' \subseteq Result,
         sweep' \in Sweep, \A x \in assigning' : x.task \in Task
  PROVE  IInv'
<1>1. Ended' = Ended
  BY DEF Ended, retrier
<1>2. exec' \in [Task -> [Attempt -> Phase]]
  BY DEF IInv, TypeOK
<1>3. Numbered'
  BY DEF IInv, TypeOK, Numbered, retrier
<1> QED
  BY <1>1, <1>2, <1>3 DEF IInv, TypeOK, Counted, retrier

\* Republish hands out the next number.
LEMMA Republishes ==
  ASSUME IInv, NEW t \in Task, CanRetry(t), Republish(t),
         UNCHANGED <<outcome, files, terminal, complete>>,
         results' \subseteq Result, handling' \subseteq Result,
         sweep' \in Sweep, \A x \in assigning' : x.task \in Task
  PROVE  IInv'
<1>1. Ended' = Ended
  BY DEF Ended
<1>2. attempts[t] + 1 \in Attempt
  BY RetryAssumption, SMTT(30) DEF IInv, TypeOK, CanRetry, Attempt
<1>3. attempts' \in [Task -> Attempt]
  BY <1>2 DEF IInv, TypeOK, Republish
<1>4. exec' \in [Task -> [Attempt -> Phase]]
  BY <1>2 DEF IInv, TypeOK, Republish, Phase
<1>5. Numbered'
  <2> SUFFICES ASSUME NEW u \in Task, NEW a \in Attempt
               PROVE  (exec'[u][a] # "none") <=> (a <= attempts'[u])
    BY DEF Numbered
  <2>1. (exec[u][a] # "none") <=> (a <= attempts[u])
    BY DEF IInv, Numbered
  <2>2. a \in Nat /\ attempts[u] \in Nat
    BY SMTT(30) DEF IInv, TypeOK, Attempt
  <2>3. CASE u # t
    BY <2>1, <2>3 DEF Republish, IInv, TypeOK
  <2>4. CASE u = t /\ a = attempts[t] + 1
    BY <2>2, <2>4, <1>2, SMTT(30) DEF Republish, IInv, TypeOK
  <2>5. CASE u = t /\ a # attempts[t] + 1
    <3>1. exec'[u][a] = exec[u][a] /\ attempts'[u] = attempts[u] + 1
      BY <2>5, <1>2 DEF Republish, IInv, TypeOK
    <3> QED
      BY <3>1, <2>1, <2>2, <2>5, SMTT(30)
  <2> QED
    BY <2>3, <2>4, <2>5
<1> QED
  BY <1>1, <1>3, <1>4, <1>5 DEF IInv, TypeOK, Counted

\* Terminate counts a task that was open.
LEMMA Terminates ==
  ASSUME IInv, NEW t \in Task, outcome[t] = "open",
         NEW how \in Outcome \ {"open"}, NEW from \in Nat,
         Terminate(t, how, from), UNCHANGED <<attempts, exec>>,
         results' \subseteq Result, handling' \subseteq Result,
         sweep' \in Sweep, \A x \in assigning' : x.task \in Task
  PROVE  IInv'
<1>1. outcome' \in [Task -> Outcome] /\ files' \in [Task -> Nat]
  BY DEF IInv, TypeOK, Terminate
<1>2. Ended' = Ended \cup {t} /\ t \notin Ended
  BY DEF IInv, TypeOK, Terminate, Ended
<1>3. Cardinality(Ended') = Cardinality(Ended) + 1
  BY <1>2, EndedFinite, FS_AddElement
<1>4. terminal' = Cardinality(Ended') /\ (complete' => terminal' >= Cardinality(Task))
  BY <1>3 DEF IInv, Counted, Terminate
<1>5. Numbered'
  BY DEF IInv, Numbered
<1> QED
  BY <1>1, <1>4, <1>5 DEF IInv, TypeOK, Counted

LEMMA Initially == Init => IInv
<1> SUFFICES ASSUME Init PROVE IInv
  OBVIOUS
<1>1. Ended = {}
  BY DEF Init, Ended
<1>2. 1 \in Attempt
  BY RetryAssumption, SMTT(30) DEF Attempt
<1>3. TypeOK
  BY <1>2 DEF Init, TypeOK, Outcome, Phase, Nothing, NoSweep, Sweep
<1>4. Numbered
  BY <1>2, SMTT(30) DEF Init, Numbered, Attempt
<1> QED
  BY <1>1, <1>3, <1>4, FS_EmptySet DEF Init, IInv, Counted

LEMMA Preserves == IInv /\ [Next]_vars => IInv'
<1> SUFFICES ASSUME IInv, [Next]_vars PROVE IInv'
  OBVIOUS
<1> USE DEF Nothing
<1>0. /\ results \subseteq Result /\ handling \subseteq Result
      /\ sweep \in Sweep /\ \A x \in assigning : x.task \in Task
  BY DEF IInv, TypeOK
<1>1. ASSUME NEW t \in Task, NEW a \in Attempt, NEW w \in Worker,
             SendTaskDispatch(t, a, w)
      PROVE  IInv'
  <2>1. \A x \in assigning' : x.task \in Task
    BY <1>0, <1>1, SMTT(30) DEF SendTaskDispatch
  <2>2. UNCHANGED <<retrier, results, handling, sweep>>
    BY <1>1 DEF SendTaskDispatch
  <2>3. exec[t][a] # "none" /\ exec' = [exec EXCEPT ![t][a] = "queued"]
    BY <1>1 DEF SendTaskDispatch
  <2> QED
    BY <1>0, <2>1, <2>2, <2>3, Moves DEF Phase
<1>2. ASSUME NEW t \in Task, NEW a \in Attempt, Start(t, a)
      PROVE  IInv'
  <2>1. UNCHANGED <<retrier, results, handling, sweep, assigning>>
    BY <1>2 DEF Start
  <2>2. exec[t][a] # "none" /\ exec' = [exec EXCEPT ![t][a] = "running"]
    BY <1>2 DEF Start
  <2> QED
    BY <1>0, <2>1, <2>2, Moves DEF Phase
<1>3. ASSUME NEW t \in Task, NEW a \in Attempt, NEW kind \in Kind, Finish(t, a, kind)
      PROVE  IInv'
  <2>1. UNCHANGED <<retrier, handling, sweep, assigning>>
    BY <1>3 DEF Finish
  <2>2. exec[t][a] # "none" /\ exec' = [exec EXCEPT ![t][a] = kind]
    BY <1>3 DEF Finish
  <2>3. results' \subseteq Result
    BY <1>0, <1>3, SMTT(30) DEF Finish, Result
  <2> QED
    BY <1>0, <2>1, <2>2, <2>3, Moves DEF Phase, Kind
<1>4. ASSUME NEW x \in assigning, noteInflight(x)
      PROVE  IInv'
  <2>1. UNCHANGED <<retrier, exec, results, handling, sweep>>
    BY <1>4 DEF noteInflight
  <2>2. assigning' \subseteq assigning
    BY <1>4 DEF noteInflight
  <2> QED
    BY <1>0, <2>1, <2>2, Quiet
<1>5. ASSUME NEW w \in Worker, record(w) \/ Die(w) \/ ReapStale(w)
      PROVE  IInv'
  <2>1. UNCHANGED <<retrier, exec, results, handling, sweep, assigning>>
    BY <1>5 DEF record, Die, ReapStale
  <2> QED
    BY <1>0, <2>1, Quiet
<1>6. ASSUME NEW t \in Task, Age(t)
      PROVE  IInv'
  <2>1. UNCHANGED <<retrier, exec, results, handling, sweep, assigning>>
    BY <1>6 DEF Age
  <2> QED
    BY <1>0, <2>1, Quiet
<1>7. ASSUME NEW r \in results, noteTaskResult(r)
      PROVE  IInv'
  <2>1. UNCHANGED <<retrier, exec, sweep, assigning>>
    BY <1>7 DEF noteTaskResult
  <2>2. results' \subseteq results /\ handling' \subseteq results
    BY <1>7 DEF noteTaskResult
  <2> QED
    BY <1>0, <2>1, <2>2, Quiet
<1>8. CASE Observe
  <2>1. PICK r \in handling :
          /\ handling' = {}
          /\ \/ /\ outcome[r.task] # "open"
                /\ UNCHANGED <<retrier, exec>>
             \/ /\ outcome[r.task] = "open" /\ r.kind = "ok"
                /\ Terminate(r.task, "done", r.attempt)
                /\ UNCHANGED <<attempts, exec>>
             \/ /\ outcome[r.task] = "open" /\ r.kind = "error" /\ CanRetry(r.task)
                /\ Republish(r.task)
                /\ UNCHANGED <<outcome, files, terminal, complete>>
             \/ /\ outcome[r.task] = "open"
                /\ Terminate(r.task, IF r.kind = "fatal" THEN "fatal"
                                     ELSE "exhausted", 0)
                /\ UNCHANGED <<attempts, exec>>
          /\ UNCHANGED <<assigning, results, sweep>>
    BY <1>8 DEF Observe
  <2>2. r.task \in Task /\ r.attempt \in Nat
    BY <1>0, <2>1, SMTT(30) DEF Result, Attempt
  <2>3. /\ results' \subseteq Result /\ handling' \subseteq Result
        /\ sweep' \in Sweep /\ \A x \in assigning' : x.task \in Task
    BY <1>0, <2>1
  <2>4. CASE UNCHANGED <<retrier, exec>>
    BY <2>3, <2>4, Quiet
  <2>5. CASE /\ outcome[r.task] = "open"
             /\ Terminate(r.task, "done", r.attempt)
             /\ UNCHANGED <<attempts, exec>>
    BY <2>2, <2>3, <2>5, Terminates DEF Outcome
  <2>6. CASE /\ CanRetry(r.task) /\ Republish(r.task)
             /\ UNCHANGED <<outcome, files, terminal, complete>>
    BY <2>2, <2>3, <2>6, Republishes
  <2>7. CASE /\ outcome[r.task] = "open"
             /\ Terminate(r.task, IF r.kind = "fatal" THEN "fatal"
                                  ELSE "exhausted", 0)
             /\ UNCHANGED <<attempts, exec>>
    <3> DEFINE how == IF r.kind = "fatal" THEN "fatal" ELSE "exhausted"
    <3>1. how \in Outcome \ {"open"}
      BY DEF Outcome
    <3>2. Terminate(r.task, how, 0)
      BY <2>7
    <3> HIDE DEF how
    <3> QED
      BY <2>2, <2>3, <2>7, <3>1, <3>2, Terminates
  <2> QED
    BY <2>1, <2>4, <2>5, <2>6, <2>7
<1>9. CASE StuckTasks
  <2>1. UNCHANGED <<retrier, exec, results, handling, assigning>>
    BY <1>9 DEF StuckTasks
  <2>2. sweep' \in Sweep
    BY <1>9 DEF StuckTasks, NoSweep, Sweep
  <2> QED
    BY <1>0, <2>1, <2>2, Quiet
<1>10. ASSUME NEW t \in Task, RetryStuck(t)
       PROVE  IInv'
  <2>1. UNCHANGED <<outcome, files, terminal, complete, results, handling, assigning>>
    BY <1>10 DEF RetryStuck
  <2>2. sweep' \in Sweep
    <3>1. [sweep EXCEPT !.todo = sweep.todo \ {t}, !.ended = sweep.ended \cup {t}]
            \in Sweep
      BY <1>0 DEF Sweep
    <3>2. [sweep EXCEPT !.todo = sweep.todo \ {t}, !.redone = sweep.redone \cup {t}]
            \in Sweep
      BY <1>0 DEF Sweep
    <3>3. [sweep EXCEPT !.todo = sweep.todo \ {t}] \in Sweep
      BY <1>0 DEF Sweep
    <3> QED
      BY <1>10, <3>1, <3>2, <3>3 DEF RetryStuck
  <2>3. CASE UNCHANGED <<attempts, exec>>
    BY <1>0, <2>1, <2>2, <2>3, Quiet DEF retrier
  <2>4. CASE CanRetry(t) /\ Republish(t)
    BY <1>0, <2>1, <2>2, <2>4, Republishes
  <2> QED
    BY <1>10, <2>3, <2>4 DEF RetryStuck
<1>11. CASE ResetClocks
  <2>1. UNCHANGED <<retrier, exec, results, handling, assigning>>
    BY <1>11 DEF ResetClocks
  <2>2. sweep' \in Sweep
    BY <1>11 DEF ResetClocks, NoSweep, Sweep
  <2> QED
    BY <1>0, <2>1, <2>2, Quiet
<1>12. ASSUME NEW t \in Task, NEW a \in Attempt, PublishError(t, a)
       PROVE  IInv'
  <2>1. UNCHANGED <<retrier, results, handling, sweep, assigning>>
    BY <1>12 DEF PublishError
  <2>2. exec[t][a] # "none" /\ exec' = [exec EXCEPT ![t][a] = "lost"]
    BY <1>12 DEF PublishError
  <2> QED
    BY <1>0, <2>1, <2>2, Moves DEF Phase
<1>13. CASE UNCHANGED vars
  <2>1. UNCHANGED <<retrier, exec, results, handling, sweep, assigning>>
    BY <1>13 DEF vars, retrier
  <2> QED
    BY <1>0, <2>1, Quiet
<1>14. ASSUME NEW t \in Task, NEW a \in Attempt, PublishResultError(t, a)
       PROVE  IInv'
  <2>1. UNCHANGED <<retrier, results, handling, sweep, assigning>>
    BY <1>14 DEF PublishResultError
  <2>2. exec[t][a] # "none" /\ exec' = [exec EXCEPT ![t][a] = "lost"]
    BY <1>14 DEF PublishResultError
  <2> QED
    BY <1>0, <2>1, <2>2, Moves DEF Phase
<1>15. ASSUME NEW t \in Task, NEW a \in Attempt, trackTaskEnd(t, a)
       PROVE  IInv'
  <2>1. UNCHANGED <<retrier, exec, results, handling, sweep, assigning>>
    BY <1>15 DEF trackTaskEnd
  <2> QED
    BY <1>0, <2>1, Quiet
<1> QED
  BY <1>1, <1>2, <1>3, <1>4, <1>5, <1>6, <1>7, <1>8, <1>9, <1>10, <1>11, <1>12,
     <1>13, <1>14, <1>15
  DEF Next, SweepStep

\* The accounting invariant holds throughout.
THEOREM Inductive == Spec => []IInv
<1> QED
  BY Initially, Preserves, PTL DEF Spec

\* Observe reports a stage complete only when all of its tasks are terminal.
THEOREM Complete == Spec => []CompleteMeansAll
<1>1. IInv => CompleteMeansAll
  <2> SUFFICES ASSUME IInv PROVE CompleteMeansAll
    OBVIOUS
  <2>1. terminal = Cardinality({t \in Task : outcome[t] # "open"})
    BY DEF IInv, Counted, Ended
  <2>2. ASSUME complete PROVE \A t \in Task : outcome[t] # "open"
    <3>1. IsFiniteSet(Task) /\ Ended \subseteq Task
      BY RetryAssumption DEF Ended
    <3>2. Cardinality(Ended) >= Cardinality(Task)
      BY <2>2 DEF IInv, Counted
    <3>3. Cardinality(Ended) \in Nat /\ Cardinality(Task) \in Nat
      BY <3>1, EndedFinite, FS_CardinalityType
    <3>4. /\ Cardinality(Ended) <= Cardinality(Task)
          /\ Cardinality(Ended) = Cardinality(Task) => Ended = Task
      BY <3>1, FS_Subset
    <3>5. Ended = Task
      BY <3>2, <3>3, <3>4, SMTT(30)
    <3> QED
      BY <3>5 DEF Ended
  <2> QED
    BY <2>1, <2>2 DEF CompleteMeansAll
<1> QED
  BY <1>1, Inductive, PTL

-----------------------------------------------------------------------------
\* What a task's outcome rests on.

\* A notification under way says how its attempt ended, and without retries there is
\* one attempt.
Told ==
  /\ \A r \in results \cup handling : exec[r.task][r.attempt] = r.kind
  /\ ~ RetryEnabled => \A t \in Task : attempts[t] = 1
  /\ OutcomeIsEarned

\* An attempt that ended does not end again.
Stands ==
  \A t \in Task : \A a \in Attempt : exec[t][a] \in Kind => exec'[t][a] = exec[t][a]

\* A step that ends no task, and dispatches none that has ended.
LEMMA Goes ==
  ASSUME Told, Stands, UNCHANGED <<outcome, files>>,
         \A t \in Task : attempts'[t] = attempts[t] \/ (outcome[t] = "open" /\ RetryEnabled),
         \A r \in results' \cup handling' : exec'[r.task][r.attempt] = r.kind
  PROVE  Told'
<1>1. ASSUME ~ RetryEnabled, NEW t \in Task
      PROVE  attempts'[t] = 1
  <2>1. attempts[t] = 1
    BY <1>1 DEF Told
  <2>2. attempts'[t] = attempts[t]
    BY <1>1
  <2> QED
    BY <2>1, <2>2
<1>2. ASSUME NEW t \in Task, NEW a \in Attempt, NEW kind \in Kind, exec[t][a] = kind
      PROVE  exec'[t][a] = kind
  BY <1>2 DEF Stands
<1>3. ASSUME NEW t \in Task, outcome'[t] = "done"
      PROVE  files'[t] \in Attempt /\ exec'[t][files'[t]] = "ok"
  BY <1>2, <1>3 DEF Told, OutcomeIsEarned, Kind
<1>4. ASSUME NEW t \in Task, outcome'[t] = "fatal"
      PROVE  \E a \in Attempt : exec'[t][a] = "fatal"
  BY <1>2, <1>4 DEF Told, OutcomeIsEarned, Kind
<1>5. ASSUME NEW t \in Task, outcome'[t] = "exhausted"
      PROVE  attempts'[t] = Cap /\ \E a \in Attempt : exec'[t][a] = "error"
  <2>1. attempts[t] = Cap /\ attempts'[t] = attempts[t]
    BY <1>5 DEF Told, OutcomeIsEarned
  <2>2. PICK a \in Attempt : exec[t][a] = "error"
    BY <1>5 DEF Told, OutcomeIsEarned
  <2>3. exec'[t][a] = "error"
    BY <1>2, <2>2 DEF Kind
  <2> QED
    BY <2>1, <2>3
<1> QED
  BY <1>1, <1>3, <1>4, <1>5 DEF Told, OutcomeIsEarned, Cap, Attempt

\* A step that moves an attempt which has not ended.
LEMMA MovesOn ==
  ASSUME IInv, Told, NEW t \in Task, NEW a \in Attempt, NEW p,
         exec[t][a] \notin Kind, exec' = [exec EXCEPT ![t][a] = p],
         UNCHANGED retrier,
         \A r \in results' \cup handling' :
           r \in results \cup handling \/ r = [task |-> t, attempt |-> a, kind |-> p]
  PROVE  Told'
<1>1. exec \in [Task -> [Attempt -> Phase]]
  BY DEF IInv, TypeOK
<1>2. \A u \in Task : \A b \in Attempt :
        exec'[u][b] = IF u = t /\ b = a THEN p ELSE exec[u][b]
  BY <1>1
<1>3. Stands
  <2> SUFFICES ASSUME NEW u \in Task, NEW b \in Attempt, exec[u][b] \in Kind
               PROVE  exec'[u][b] = exec[u][b]
    BY DEF Stands
  <2>1. ~ (u = t /\ b = a)
    OBVIOUS
  <2> QED
    BY <1>2, <2>1
<1>4. ASSUME NEW r \in results' \cup handling'
      PROVE  exec'[r.task][r.attempt] = r.kind
  <2>1. CASE r = [task |-> t, attempt |-> a, kind |-> p]
    BY <1>2, <2>1
  <2>2. CASE r \in results \cup handling
    <3>1. r.task \in Task /\ r.attempt \in Attempt /\ r.kind \in Kind
      BY <2>2, SMTT(30) DEF IInv, TypeOK, Result
    <3>2. exec[r.task][r.attempt] = r.kind
      BY <2>2 DEF Told
    <3> QED
      BY <1>3, <3>1, <3>2 DEF Stands
  <2> QED
    BY <2>1, <2>2
<1> QED
  BY <1>3, <1>4, Goes DEF retrier

\* A step of which the attempts know nothing.
LEMMA Rests ==
  ASSUME Told, UNCHANGED <<retrier, exec>>,
         results' \cup handling' \subseteq results \cup handling
  PROVE  Told'
<1>1. Stands
  BY DEF Stands
<1>2. \A r \in results' \cup handling' : exec'[r.task][r.attempt] = r.kind
  BY DEF Told
<1> QED
  BY <1>1, <1>2, Goes DEF retrier

\* Republish, for a task that is open.
LEMMA GoesAgain ==
  ASSUME IInv, Told, NEW t \in Task, outcome[t] = "open", CanRetry(t), Republish(t),
         UNCHANGED <<outcome, files>>,
         results' \cup handling' \subseteq results \cup handling
  PROVE  Told'
<1> DEFINE b == attempts[t] + 1
<1>1. b \in Attempt /\ ~ (b <= attempts[t])
  BY RetryAssumption, SMTT(30) DEF IInv, TypeOK, CanRetry, Attempt
<1>2. exec[t][b] = "none"
  BY <1>1 DEF IInv, Numbered
<1>3. exec' = [exec EXCEPT ![t][b] = "publishing"]
  BY DEF Republish
<1> HIDE DEF b
<1>4. exec \in [Task -> [Attempt -> Phase]]
  BY DEF IInv, TypeOK
<1>5. Stands
  BY <1>1, <1>2, <1>3, <1>4 DEF Stands, Kind
<1>6. ASSUME NEW r \in results \cup handling
      PROVE  exec'[r.task][r.attempt] = r.kind
  <2>1. r.task \in Task /\ r.attempt \in Attempt /\ r.kind \in Kind
    BY SMTT(30) DEF IInv, TypeOK, Result
  <2>2. exec[r.task][r.attempt] = r.kind
    BY DEF Told
  <2> QED
    BY <1>5, <2>1, <2>2 DEF Stands
<1>7. \A u \in Task : attempts'[u] = attempts[u] \/ (outcome[u] = "open" /\ RetryEnabled)
  BY DEF IInv, TypeOK, Republish, CanRetry
<1> QED
  BY <1>5, <1>6, <1>7, Goes

\* Terminate, upon a notification of an attempt that ended so.
LEMMA EndsSo ==
  ASSUME IInv, Told, NEW t \in Task, NEW how, NEW from, Terminate(t, how, from),
         UNCHANGED <<attempts, exec>>,
         results' \cup handling' \subseteq results \cup handling,
         how = "done" => from \in Attempt /\ exec[t][from] = "ok",
         how = "fatal" => \E a \in Attempt : exec[t][a] = "fatal",
         how = "exhausted" => attempts[t] = Cap /\ \E a \in Attempt : exec[t][a] = "error"
  PROVE  Told'
<1>1. \A u \in Task : u # t => outcome'[u] = outcome[u] /\ files'[u] = files[u]
  BY DEF IInv, TypeOK, Terminate
<1>2. outcome'[t] = how /\ files'[t] = from
  BY DEF IInv, TypeOK, Terminate
<1>3. OutcomeIsEarned'
  <2> SUFFICES ASSUME NEW u \in Task
      PROVE /\ outcome'[u] = "done" => files'[u] \in Attempt /\ exec'[u][files'[u]] = "ok"
            /\ outcome'[u] = "fatal" => \E a \in Attempt : exec'[u][a] = "fatal"
            /\ outcome'[u] = "exhausted" =>
                 attempts'[u] = Cap /\ \E a \in Attempt : exec'[u][a] = "error"
    BY DEF OutcomeIsEarned, Cap, Attempt
  <2>1. CASE u = t
    BY <1>2, <2>1
  <2>2. CASE u # t
    BY <1>1, <2>2 DEF Told, OutcomeIsEarned
  <2> QED
    BY <2>1, <2>2
<1> QED
  BY <1>3 DEF Told

LEMMA ToldInit == Init => Told
<1> SUFFICES ASSUME Init PROVE Told
  OBVIOUS
<1>1. results = {} /\ handling = {}
  BY DEF Init, Nothing
<1>2. \A t \in Task : attempts[t] = 1 /\ outcome[t] = "open"
  BY DEF Init
<1> QED
  BY <1>1, <1>2 DEF Told, OutcomeIsEarned

\* Observe, by the kind of the notification.
LEMMA ToldObserve == IInv /\ Told /\ Observe => Told'
<1> SUFFICES ASSUME IInv, Told, Observe PROVE Told'
  OBVIOUS
<1>1. PICK r \in handling :
        /\ handling' = {}
        /\ \/ UNCHANGED <<retrier, exec>>
           \/ /\ r.kind = "ok"
              /\ Terminate(r.task, "done", r.attempt) /\ UNCHANGED <<attempts, exec>>
           \/ /\ outcome[r.task] = "open" /\ CanRetry(r.task) /\ Republish(r.task)
              /\ UNCHANGED <<outcome, files>>
           \/ /\ r.kind = "error" => ~ CanRetry(r.task)
              /\ r.kind # "ok"
              /\ Terminate(r.task, IF r.kind = "fatal" THEN "fatal" ELSE "exhausted", 0)
              /\ UNCHANGED <<attempts, exec>>
        /\ UNCHANGED results
  BY DEF Observe, Nothing
<1>2. results' \cup handling' \subseteq results \cup handling
  BY <1>1
<1>3. r.task \in Task /\ r.attempt \in Attempt /\ r.kind \in Kind
  BY SMTT(30) DEF IInv, TypeOK, Result
<1>4. exec[r.task][r.attempt] = r.kind
  BY DEF Told
<1>5. CASE UNCHANGED <<retrier, exec>>
  BY <1>2, <1>5, Rests
<1>6. CASE /\ r.kind = "ok"
           /\ Terminate(r.task, "done", r.attempt) /\ UNCHANGED <<attempts, exec>>
  <2>1. r.attempt \in Attempt /\ exec[r.task][r.attempt] = "ok"
    BY <1>3, <1>4, <1>6
  <2>2. Terminate(r.task, "done", r.attempt)
    BY <1>6
  <2>3. UNCHANGED <<attempts, exec>>
    BY <1>6
  <2> QED
    BY <1>2, <1>3, <2>1, <2>2, <2>3, EndsSo, SMTT(30)
<1>7. CASE /\ outcome[r.task] = "open" /\ CanRetry(r.task) /\ Republish(r.task)
           /\ UNCHANGED <<outcome, files>>
  BY <1>2, <1>3, <1>7, GoesAgain
<1>8. CASE /\ r.kind = "error" => ~ CanRetry(r.task)
           /\ r.kind # "ok"
           /\ Terminate(r.task, IF r.kind = "fatal" THEN "fatal" ELSE "exhausted", 0)
           /\ UNCHANGED <<attempts, exec>>
  <2>1. CASE r.kind = "fatal"
    <3>1. Terminate(r.task, "fatal", 0)
      BY <1>8, <2>1
    <3> QED
      BY <1>2, <1>3, <1>4, <1>8, <2>1, <3>1, EndsSo
  <2>2. CASE r.kind = "error"
    <3>1. Terminate(r.task, "exhausted", 0)
      BY <1>8, <2>2
    <3>2. attempts[r.task] = Cap
      <4>1. CASE RetryEnabled
        <5>1. ~ (attempts[r.task] < MaxAttempts)
          BY <1>8, <2>2, <4>1 DEF CanRetry
        <5>2. attempts[r.task] \in 1..MaxAttempts
          BY <1>3 DEF IInv, TypeOK, Attempt
        <5>3. attempts[r.task] = MaxAttempts
          BY <5>1, <5>2, RetryAssumption, SMTT(30)
        <5> QED
          BY <4>1, <5>3 DEF Cap
      <4>2. CASE ~ RetryEnabled
        BY <1>3, <4>2 DEF Told, Cap
      <4> QED
        BY <4>1, <4>2
    <3> QED
      BY <1>2, <1>3, <1>4, <1>8, <2>2, <3>1, <3>2, EndsSo
  <2> QED
    BY <1>3, <1>8, <2>1, <2>2 DEF Kind
<1> QED
  BY <1>1, <1>5, <1>6, <1>7, <1>8

LEMMA ToldNext == IInv /\ Told /\ [Next]_vars => Told'
<1> SUFFICES ASSUME IInv, Told, [Next]_vars PROVE Told'
  OBVIOUS
<1>1. ASSUME NEW t \in Task, NEW a \in Attempt, NEW w \in Worker,
             SendTaskDispatch(t, a, w)
      PROVE  Told'
  <2>1. UNCHANGED <<retrier, results, handling>>
    BY <1>1 DEF SendTaskDispatch
  <2>2. exec[t][a] \notin Kind /\ exec' = [exec EXCEPT ![t][a] = "queued"]
    BY <1>1 DEF SendTaskDispatch, Kind
  <2> QED
    BY <2>1, <2>2, MovesOn
<1>2. ASSUME NEW t \in Task, NEW a \in Attempt, Start(t, a)
      PROVE  Told'
  <2>1. UNCHANGED <<retrier, results, handling>>
    BY <1>2 DEF Start
  <2>2. exec[t][a] \notin Kind /\ exec' = [exec EXCEPT ![t][a] = "running"]
    BY <1>2 DEF Start, Kind
  <2> QED
    BY <2>1, <2>2, MovesOn
<1>3. ASSUME NEW t \in Task, NEW a \in Attempt,
             PublishError(t, a) \/ PublishResultError(t, a)
      PROVE  Told'
  <2>1. UNCHANGED <<retrier, results, handling>>
    BY <1>3 DEF PublishError, PublishResultError
  <2>2. exec[t][a] \notin Kind /\ exec' = [exec EXCEPT ![t][a] = "lost"]
    BY <1>3 DEF PublishError, PublishResultError, Kind
  <2> QED
    BY <2>1, <2>2, MovesOn
<1>4. ASSUME NEW t \in Task, NEW a \in Attempt, NEW kind \in Kind, Finish(t, a, kind)
      PROVE  Told'
  <2>1. UNCHANGED <<retrier, handling>>
    BY <1>4 DEF Finish
  <2>2. exec[t][a] \notin Kind /\ exec' = [exec EXCEPT ![t][a] = kind]
    BY <1>4 DEF Finish, Kind
  <2>3. results' = results \cup {[task |-> t, attempt |-> a, kind |-> kind]}
    BY <1>4 DEF Finish
  <2> QED
    BY <2>1, <2>2, <2>3, MovesOn
<1>5. ASSUME \/ \E x \in assigning : noteInflight(x)
             \/ \E w \in Worker : record(w) \/ Die(w) \/ ReapStale(w)
             \/ \E t \in Task : Age(t)
             \/ \E t \in Task, a \in Attempt : trackTaskEnd(t, a)
             \/ StuckTasks \/ ResetClocks
      PROVE  UNCHANGED <<retrier, exec, results, handling>>
  BY <1>5 DEF noteInflight, record, Die, ReapStale, Age, trackTaskEnd, StuckTasks, ResetClocks
<1>6. CASE UNCHANGED <<retrier, exec, results, handling>>
  BY <1>6, Rests
<1>7. ASSUME NEW r \in results, noteTaskResult(r)
      PROVE  Told'
  <2>1. UNCHANGED <<retrier, exec>>
    BY <1>7 DEF noteTaskResult
  <2>2. results' \subseteq results /\ handling' \subseteq results
    BY <1>7 DEF noteTaskResult
  <2> QED
    BY <2>1, <2>2, Rests
<1>8. ASSUME NEW t \in Task, RetryStuck(t)
      PROVE  Told'
  <2>1. UNCHANGED <<outcome, files, terminal, complete, results, handling>>
    BY <1>8 DEF RetryStuck
  <2>2. CASE UNCHANGED <<attempts, exec>>
    BY <2>1, <2>2, Rests DEF retrier
  <2>3. CASE outcome[t] = "open" /\ CanRetry(t) /\ Republish(t)
    BY <2>1, <2>3, GoesAgain
  <2> QED
    BY <1>8, <2>2, <2>3 DEF RetryStuck
<1>9. CASE UNCHANGED vars
  BY <1>6, <1>9 DEF vars, retrier
<1> QED
  BY <1>1, <1>2, <1>3, <1>4, <1>5, <1>6, <1>7, <1>8, <1>9, ToldObserve DEF Next, SweepStep

\* A task succeeds with the files of an attempt that did, fails for an attempt that failed,
\* and for one that could be repeated only after the last dispatch that Observe and
\* RetryStuck permit.
THEOREM Earned == Spec => []OutcomeIsEarned
<1>1. Told => OutcomeIsEarned
  BY DEF Told
<1> QED
  BY <1>1, Inductive, ToldInit, ToldNext, PTL DEF Spec

\* Once a task is terminal its outcome and its files stay, and neither Observe nor
\* RetryStuck dispatches it.
THEOREM Final == Spec => ResultIsFinal
<1> DEFINE Step == \A t \in Task : outcome[t] # "open" =>
                     /\ outcome'[t] = outcome[t] /\ files'[t] = files[t]
                     /\ attempts'[t] = attempts[t]
<1>1. IInv /\ [Next]_vars => [Step]_vars
  <2> SUFFICES ASSUME IInv, Next PROVE Step
    OBVIOUS
  <2>1. CASE UNCHANGED <<outcome, files, attempts>>
    BY <2>1
  <2>2. ASSUME NEW t \in Task, outcome[t] = "open", NEW how, NEW from,
               Terminate(t, how, from), UNCHANGED attempts
        PROVE  Step
    BY <2>2 DEF Terminate, IInv, TypeOK
  <2>3. ASSUME NEW t \in Task, outcome[t] = "open", Republish(t),
               UNCHANGED <<outcome, files>>
        PROVE  Step
    BY <2>3 DEF Republish, IInv, TypeOK
  <2>4. CASE Observe
    <3>1. PICK r \in handling :
            \/ UNCHANGED retrier
            \/ /\ outcome[r.task] = "open"
               /\ \E how, from : Terminate(r.task, how, from)
               /\ UNCHANGED attempts
            \/ outcome[r.task] = "open" /\ Republish(r.task) /\ UNCHANGED <<outcome, files>>
      BY <2>4 DEF Observe
    <3>2. r.task \in Task
      BY SMTT(30) DEF IInv, TypeOK, Result
    <3> QED
      BY <3>1, <3>2, <2>1, <2>2, <2>3 DEF retrier
  <2>5. ASSUME NEW t \in Task, RetryStuck(t)
        PROVE  Step
    <3>1. /\ UNCHANGED <<outcome, files>>
          /\ UNCHANGED attempts \/ (outcome[t] = "open" /\ Republish(t))
      BY <2>5 DEF RetryStuck
    <3> QED
      BY <3>1, <2>1, <2>3
  <2>6. ASSUME NEW t \in Task, NEW a \in Attempt
        PROVE  /\ \A w \in Worker : SendTaskDispatch(t, a, w) => UNCHANGED retrier
               /\ PublishError(t, a) \/ Start(t, a) => UNCHANGED retrier
               /\ \A kind \in Kind : Finish(t, a, kind) => UNCHANGED retrier
               /\ PublishResultError(t, a) \/ trackTaskEnd(t, a) => UNCHANGED retrier
    BY DEF SendTaskDispatch, PublishError, Start, Finish, PublishResultError, trackTaskEnd
  <2>7. ASSUME NEW w \in Worker, record(w) \/ Die(w) \/ ReapStale(w)
        PROVE  UNCHANGED retrier
    BY <2>7 DEF record, Die, ReapStale
  <2>8. /\ \A t \in Task : Age(t) => UNCHANGED retrier
        /\ \A x \in assigning : noteInflight(x) => UNCHANGED retrier
        /\ \A r \in results : noteTaskResult(r) => UNCHANGED retrier
        /\ StuckTasks \/ ResetClocks => UNCHANGED retrier
    BY DEF Age, noteInflight, noteTaskResult, StuckTasks, ResetClocks
  <2>9. CASE UNCHANGED retrier
    BY <2>1, <2>9 DEF retrier
  <2> QED
    BY <2>4, <2>5, <2>6, <2>7, <2>8, <2>9 DEF Next, SweepStep
<1> QED
  BY <1>1, Inductive, PTL DEF Spec, ResultIsFinal

=============================================================================

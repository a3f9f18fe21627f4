--------------------------- MODULE AsyncQueryProofs ----------------------------
(***************************************************************************)
(* A completed query has heard from every task, for any set of tasks and   *)
(* any number of duplicates, failures and losses.  CompletedIsReported is  *)
(* not inductive: Complete writes the state without looking at the         *)
(* results, on the word of a counter that RecordResult compared two steps  *)
(* before.  The strengthening, Counted, says that the counters count the   *)
(* tasks seen and that the callback keeps its word.  And the election of   *)
(* the coordinator that runs the queries (LeaderElection).                 *)
(***************************************************************************)
EXTENDS AsyncQuery, LeaderElection, FiniteSetTheorems, TLAPS

\* A leaf is Zenon's unless it names the SMT solver.
USE ZenonT(60)

\* The inductive invariant.
IInv == TypeOK /\ Counted /\ CompletedIsReported

\* Nothing but RecordResult moves the counters, and nothing but Complete
\* completes: a step that does neither keeps the invariant.
LEMMA Frame ==
  ASSUME IInv, TypeOK',
         UNCHANGED stage,
         state' # state => state' # "completed",
         handler' \in {"failed?", "fail", "complete"}
           => handler \in {"failed?", "fail", "complete"}
  PROVE  IInv'
<1>1. Seen' = Seen
  BY DEF stage, Seen
<1>2. Counted'
  BY <1>1 DEF IInv, Counted, stage
<1>3. CompletedIsReported'
  BY <1>1 DEF IInv, CompletedIsReported
<1> QED
  BY <1>2, <1>3 DEF IInv

\* What RecordResult makes of the stage when the task is new to it: one task more
\* is seen, the sum of the counters is one higher, and it reaches the number of
\* tasks only if every task is seen.
LEMMA CountOne ==
  ASSUME IInv, NEW r \in Task \X Kind, recorded[r[1]] = "none", Count(r)
  PROVE  /\ recorded' \in [Task -> Kind \cup {"none"}]
         /\ doneTasks' \in Nat /\ failedTasks' \in Nat
         /\ Seen' = Seen \cup {r[1]}
         /\ Counted'
<1> DEFINE t == r[1]
           k == r[2]
<1>1. t \in Task /\ k \in Kind /\ k # "none"
  BY DEF Kind
<1>2. recorded \in [Task -> Kind \cup {"none"}] /\ doneTasks \in Nat /\ failedTasks \in Nat
  BY DEF IInv, TypeOK
<1>3. recorded' = [recorded EXCEPT ![t] = k]
  BY DEF Count
<1>4. recorded' \in [Task -> Kind \cup {"none"}]
  BY <1>1, <1>2, <1>3
<1>5. doneTasks' \in Nat /\ failedTasks' \in Nat
      /\ doneTasks' + failedTasks' = doneTasks + failedTasks + 1
  BY <1>2, SMTT(30) DEF Count
<1>6. Seen' = Seen \cup {t}
  BY <1>1, <1>2, <1>3 DEF Seen
<1>7. t \notin Seen
  BY DEF Seen
<1>8. IsFiniteSet(Task) /\ Seen \subseteq Task /\ Seen' \subseteq Task
  BY AsyncAssumption DEF Seen
<1>9. IsFiniteSet(Seen) /\ IsFiniteSet(Seen')
  BY <1>8, FS_Subset
<1>10. Cardinality(Seen') = Cardinality(Seen) + 1
  BY <1>6, <1>7, <1>9, FS_AddElement
<1>11. doneTasks' + failedTasks' = Cardinality(Seen')
  BY <1>5, <1>10 DEF IInv, Counted
<1>12. Cardinality(Seen') \in Nat /\ Cardinality(Task) \in Nat
       /\ Cardinality(Seen') <= Cardinality(Task)
       /\ (Cardinality(Seen') = Cardinality(Task) => Seen' = Task)
  BY <1>8, <1>9, FS_Subset, FS_CardinalityType
<1>13. ASSUME handler' # "idle" PROVE Seen' = Task
  <2>1. doneTasks' + failedTasks' >= Cardinality(Task)
    BY <1>13 DEF Count, IsComplete
  <2> QED
    BY <2>1, <1>11, <1>12, SMTT(30)
<1> QED
  BY <1>4, <1>5, <1>6, <1>11, <1>13 DEF Counted

LEMMA InitIInv == Init => IInv
<1> SUFFICES ASSUME Init PROVE IInv
  OBVIOUS
<1>1. TypeOK
  BY DEF Init, TypeOK, Kind, Terminal
<1>2. Seen = {}
  BY DEF Init, Seen
<1>3. Counted
  BY <1>2, FS_EmptySet, SMTT(30) DEF Init, Counted
<1> QED
  BY <1>1, <1>3 DEF Init, IInv, CompletedIsReported

LEMMA SubmitKeeps == IInv /\ SubmitStep => IInv'
<1> SUFFICES ASSUME IInv, SubmitStep PROVE IInv'
  OBVIOUS
<1> USE DEF ctl, work, rest
<1>1. CASE Register
  <2>1. TypeOK'
    BY <1>1, SMTT(30) DEF Register, IInv, TypeOK, stage, Terminal
  <2> QED
    BY <1>1, <2>1, Frame DEF Register, stage, Terminal
<1>2. CASE Start
  <2>1. TypeOK'
    BY <1>2, SMTT(30) DEF Start, Mark, Known, IInv, TypeOK, stage, Terminal
  <2> QED
    BY <1>2, <2>1, Frame DEF Start, Mark, Known, stage, Terminal
<1>3. CASE subscribeResults
  <2>1. subscribed' \in BOOLEAN /\ resultSub' \in BOOLEAN
    <3>1. subscribed \in BOOLEAN /\ resultSub \in BOOLEAN
      BY DEF IInv, TypeOK
    <3> QED  BY <1>3, <3>1 DEF subscribeResults
  <2>2. UNCHANGED <<tracker, context, doneCh, watchdog, work, handler, canceller,
                    rest, answer>> /\ submit' = "publish"
    BY <1>3 DEF subscribeResults
  <2>t. TypeOK'
    BY <2>1, <2>2, SMTT(30) DEF IInv, TypeOK, stage, tracker, work, rest
  <2> QED
    BY <2>1, <2>2, <2>t, Frame DEF stage, tracker, work, rest
<1>4. CASE Publish
  <2>1. task' \in [Task -> {"unsent", "sent", "over"}]
    BY <1>4 DEF Publish
  <2>2. state' # state => state' = "failed"
    BY <1>4 DEF Publish, Mark
  <2>3. UNCHANGED stage /\ UNCHANGED handler
    BY <1>4 DEF Publish
  <2>4. TypeOK'
    BY <1>4, <2>1, <2>2, <2>3, SMTT(30) DEF Publish, IInv, TypeOK, stage, Terminal
  <2> QED
    BY <2>2, <2>3, <2>4, Frame
<1>5. CASE StartWatchdog
  <2>1. TypeOK'
    BY <1>5, SMTT(30) DEF StartWatchdog, IInv, TypeOK, stage, tracker
  <2> QED
    BY <1>5, <2>1, Frame DEF StartWatchdog, stage, tracker
<1> QED
  BY <1>1, <1>2, <1>3, <1>4, <1>5 DEF SubmitStep

LEMMA HandlerKeeps == IInv /\ HandlerStep => IInv'
<1> SUFFICES ASSUME IInv, HandlerStep PROVE IInv'
  OBVIOUS
<1> USE DEF ctl, work, rest
<1>1. ASSUME NEW r \in reports, RecordResult(r) PROVE IInv'
  <2>1. r \in Task \X Kind
    BY DEF IInv, TypeOK
  <2>2. reports' \subseteq Task \X Kind /\ duplicates' \in Nat
    BY <1>1, SMTT(30) DEF RecordResult, Receive, IInv, TypeOK
  <2>3. CASE Known /\ recorded[r[1]] = "none"
    <3>1. Count(r)
      BY <1>1, <2>3 DEF RecordResult
    <3>2. /\ recorded' \in [Task -> Kind \cup {"none"}]
          /\ doneTasks' \in Nat /\ failedTasks' \in Nat
          /\ Seen' = Seen \cup {r[1]}
          /\ Counted'
      BY <2>1, <2>3, <3>1, CountOne
    <3>3. handler' \in {"failed?", "idle"}
      BY <3>1 DEF Count
    <3>4. TypeOK'
      BY <1>1, <2>2, <3>2, <3>3, SMTT(30) DEF RecordResult, IInv, TypeOK
    <3>5. CompletedIsReported'
      <4>1. state' = state /\ r[1] \in Task
        BY <1>1, <2>1 DEF RecordResult
      <4> QED
        BY <4>1, <3>2 DEF IInv, CompletedIsReported
    <3> QED
      BY <3>2, <3>4, <3>5 DEF IInv
  <2>4. CASE ~ (Known /\ recorded[r[1]] = "none")
    <3>1. UNCHANGED <<stage, handler>>
      BY <1>1, <2>4 DEF RecordResult
    <3>t. TypeOK'
      BY <1>1, <2>2, <3>1, SMTT(30) DEF RecordResult, IInv, TypeOK, stage
    <3> QED
      BY <1>1, <2>2, <3>1, <3>t, Frame DEF RecordResult, stage
  <2> QED
    BY <2>3, <2>4
<1>2. CASE StageFailed
  <2>1. TypeOK'
    BY <1>2, SMTT(30) DEF StageFailed, IInv, TypeOK, tracker, stage
  <2> QED
    BY <1>2, <2>1, Frame DEF StageFailed, tracker, stage
<1>3. CASE Fail
  <2>1. TypeOK'
    BY <1>3, SMTT(30) DEF Fail, Mark, IInv, TypeOK, stage, Terminal
  <2> QED
    BY <1>3, <2>1, Frame DEF Fail, Mark, stage, Terminal
<1>4. CASE Complete
  <2>1. Seen = Task /\ Seen' = Seen
    BY <1>4 DEF Complete, IInv, Counted, Seen, stage
  <2>2. TypeOK'
    BY <1>4, SMTT(30) DEF Complete, Mark, IInv, TypeOK, stage, Terminal
  <2> QED
    BY <1>4, <2>1, <2>2 DEF Complete, IInv, Counted, CompletedIsReported, stage
<1>5. CASE HandlerCleanup
  <2>1. resultSub' \in BOOLEAN /\ cleaned' \in BOOLEAN
    BY <1>5 DEF HandlerCleanup, cleanupQuery
  <2>2. cleaners' \in Nat
    BY <1>5, SMTT(30) DEF HandlerCleanup, cleanupQuery, IInv, TypeOK
  <2>t. TypeOK'
    BY <1>5, <2>1, <2>2, SMTT(30) DEF HandlerCleanup, IInv, TypeOK, tracker, stage
  <2> QED
    BY <1>5, <2>1, <2>2, <2>t, Frame DEF HandlerCleanup, tracker, stage
<1>6. CASE SendDone
  <2>1. TypeOK'
    BY <1>6, SMTT(30) DEF SendDone, IInv, TypeOK, tracker, stage
  <2> QED
    BY <1>6, <2>1, Frame DEF SendDone, tracker, stage
<1> QED
  BY <1>1, <1>2, <1>3, <1>4, <1>5, <1>6 DEF HandlerStep

LEMMA WatchKeeps == IInv /\ (WatchStep \/ Deadline \/ Unsubscribe) => IInv'
<1> SUFFICES ASSUME IInv, WatchStep \/ Deadline \/ Unsubscribe PROVE IInv'
  OBVIOUS
<1> USE DEF ctl, work, rest
<1>1. CASE WatchDone
  <2>1. doneCh' \in BOOLEAN
    BY <1>1 DEF WatchDone
  <2>t. TypeOK'
    BY <1>1, <2>1, SMTT(30) DEF WatchDone, IInv, TypeOK, tracker, stage
  <2> QED
    BY <1>1, <2>1, <2>t, Frame DEF WatchDone, tracker, stage
<1>2. CASE WatchDeadline
  <2>1. TypeOK'
    BY <1>2, SMTT(30) DEF WatchDeadline, Mark, IInv, TypeOK, stage, Terminal
  <2> QED
    BY <1>2, <2>1, Frame DEF WatchDeadline, Mark, stage, Terminal
<1>3. CASE WatchCleanup
  <2>1. resultSub' \in BOOLEAN /\ cleaned' \in BOOLEAN
    BY <1>3 DEF WatchCleanup, cleanupQuery
  <2>2. cleaners' \in Nat
    BY <1>3, SMTT(30) DEF WatchCleanup, cleanupQuery, IInv, TypeOK
  <2>t. TypeOK'
    BY <1>3, <2>1, <2>2, SMTT(30) DEF WatchCleanup, IInv, TypeOK, tracker, stage
  <2> QED
    BY <1>3, <2>1, <2>2, <2>t, Frame DEF WatchCleanup, tracker, stage
<1>4. CASE Deadline
  <2>1. TypeOK'
    BY <1>4, SMTT(30) DEF Deadline, IInv, TypeOK, tracker, stage
  <2> QED
    BY <1>4, <2>1, Frame DEF Deadline, tracker, stage
<1>5. CASE Unsubscribe
  <2>1. subscribed' \in BOOLEAN
    BY <1>5 DEF Unsubscribe
  <2>t. TypeOK'
    BY <1>5, <2>1, SMTT(30) DEF Unsubscribe, IInv, TypeOK, tracker, stage
  <2> QED
    BY <1>5, <2>1, <2>t, Frame DEF Unsubscribe, tracker, stage
<1> QED
  BY <1>1, <1>2, <1>3, <1>4, <1>5 DEF WatchStep

LEMMA ClientKeeps == IInv /\ (CancelStep \/ CancelRead \/ GetQueryResults) => IInv'
<1> SUFFICES ASSUME IInv, CancelStep \/ CancelRead \/ GetQueryResults PROVE IInv'
  OBVIOUS
<1> USE DEF ctl, work, rest
<1>1. CASE CancelSub
  <2>1. resultSub' \in BOOLEAN
    BY <1>1 DEF CancelSub
  <2>t. TypeOK'
    BY <1>1, <2>1, SMTT(30) DEF CancelSub, IInv, TypeOK, tracker, stage
  <2> QED
    BY <1>1, <2>1, <2>t, Frame DEF CancelSub, tracker, stage
<1>2. CASE Cancel
  <2>1. TypeOK'
    BY <1>2, SMTT(30) DEF Cancel, Mark, IInv, TypeOK, stage, Terminal
  <2> QED
    BY <1>2, <2>1, Frame DEF Cancel, Mark, stage, Terminal
<1>3. CASE CancelCleanup
  <2>1. resultSub' \in BOOLEAN /\ cleaned' \in BOOLEAN
    BY <1>3 DEF CancelCleanup, cleanupQuery
  <2>2. cleaners' \in Nat
    BY <1>3, SMTT(30) DEF CancelCleanup, cleanupQuery, IInv, TypeOK
  <2>t. TypeOK'
    BY <1>3, <2>1, <2>2, SMTT(30) DEF CancelCleanup, IInv, TypeOK, tracker, stage
  <2> QED
    BY <1>3, <2>1, <2>2, <2>t, Frame DEF CancelCleanup, tracker, stage
<1>4. CASE CancelRead
  <2>1. TypeOK'
    BY <1>4, SMTT(30) DEF CancelRead, IInv, TypeOK, tracker, stage
  <2> QED
    BY <1>4, <2>1, Frame DEF CancelRead, tracker, stage
<1>5. CASE GetQueryResults
  <2>1. TypeOK'
    BY <1>5, SMTT(30) DEF GetQueryResults, IInv, TypeOK, tracker, stage
  <2> QED
    BY <1>5, <2>1, Frame DEF GetQueryResults, tracker, stage
<1> QED
  BY <1>1, <1>2, <1>3, <1>4, <1>5 DEF CancelStep

LEMMA SweepKeeps == IInv /\ (CleanQuery \/ CleanStale \/ ReapCompleted) => IInv'
<1> SUFFICES ASSUME IInv, CleanQuery \/ CleanStale \/ ReapCompleted PROVE IInv'
  OBVIOUS
<1> USE DEF ctl, work, rest
<1>1. CASE CleanQuery
  <2>1. TypeOK'
    BY <1>1, SMTT(30) DEF CleanQuery, IInv, TypeOK, tracker, stage
  <2> QED
    BY <1>1, <2>1, Frame DEF CleanQuery, tracker, stage
<1>2. CASE CleanStale
  <2>1. TypeOK'
    BY <1>2, SMTT(30) DEF CleanStale, IInv, TypeOK, tracker, stage
  <2> QED
    BY <1>2, <2>1, Frame DEF CleanStale, tracker, stage
<1>3. CASE ReapCompleted
  <2>1. TypeOK'
    BY <1>3, SMTT(30) DEF ReapCompleted, IInv, TypeOK, stage
  <2> QED
    BY <1>3, <2>1, Frame DEF ReapCompleted, stage
<1> QED
  BY <1>1, <1>2, <1>3

LEMMA WorkerKeeps ==
  ASSUME IInv, NEW t \in Task, (\E kind \in Kind : Finish(t, kind)) \/ Lose(t)
  PROVE  IInv'
<1> USE DEF ctl, work, rest
<1>1. ASSUME NEW kind \in Kind, Finish(t, kind) PROVE IInv'
  <2>1. task' \in [Task -> {"unsent", "sent", "over"}]
    BY <1>1 DEF Finish, IInv, TypeOK
  <2>2. reports' \subseteq Task \X Kind
    BY <1>1, SMTT(30) DEF Finish, IInv, TypeOK
  <2>3. objects' \subseteq Task /\ failures' \in Nat
    BY <1>1, SMTT(30) DEF Finish, IInv, TypeOK
  <2>t. TypeOK'
    BY <1>1, <2>1, <2>2, <2>3, SMTT(30) DEF Finish, IInv, TypeOK, tracker, stage
  <2> QED
    BY <1>1, <2>1, <2>2, <2>3, <2>t, Frame DEF Finish, tracker, stage
<1>2. CASE Lose(t)
  <2>1. task' \in [Task -> {"unsent", "sent", "over"}]
    BY <1>2 DEF Lose, IInv, TypeOK
  <2>t. TypeOK'
    BY <1>2, <2>1, SMTT(30) DEF Lose, IInv, TypeOK, tracker, stage
  <2> QED
    BY <1>2, <2>1, <2>t, Frame DEF Lose, tracker, stage
<1> QED
  BY <1>1, <1>2

\* IInv is an inductive invariant: every step of SubmitSQL, the callback, the
\* watchdog, a client, a worker and the sweeps keeps it.
THEOREM Inductive == Spec => []IInv
<1>1. IInv /\ [Next]_vars => IInv'
  <2> SUFFICES ASSUME IInv, [Next]_vars PROVE IInv'
    OBVIOUS
  <2>1. CASE UNCHANGED vars
    <3>1. TypeOK'
      BY <2>1, SMTT(30) DEF vars, ctl, work, rest, tracker, stage, IInv, TypeOK
    <3> QED
      BY <2>1, <3>1, Frame DEF vars, ctl, work, rest, tracker, stage
  <2>2. CASE Next
    BY <2>2, SubmitKeeps, HandlerKeeps, WatchKeeps, ClientKeeps, SweepKeeps,
       WorkerKeeps DEF Next
  <2> QED
    BY <2>1, <2>2
<1> QED
  BY InitIInv, <1>1, PTL DEF Spec

\* A query is completed only when every task has reported: RecordResult counts the
\* result of a task once, however often it is delivered, and CancelQuery, the
\* watchdog and the reaper cannot make the callback complete it early.
THEOREM Reported == Spec => []CompletedIsReported
<1>1. IInv => CompletedIsReported
  BY DEF IInv
<1> QED
  BY <1>1, Inductive, PTL

-----------------------------------------------------------------------------
\* Which coordinator runs the queries: LeaderElection, whose state is its own.

\* The types that the election's proof needs.
ElectionTypes ==
  /\ lease \in Instance \cup {None}
  /\ current \in [Instance -> BOOLEAN]
  /\ pc \in [Instance -> Place]
  /\ leader \in [Instance -> BOOLEAN]
  /\ stalls \in Nat

\* Only the holder of the lease can know its revision.
CurrentHolds == \A i \in Instance : current[i] => lease = i

\* An instance that runs answers IsLeader exactly in the loop of a leader.
FlagIsPlace ==
  \A i \in Instance :
    pc[i] # "stopped" => (leader[i] <=> pc[i] \in Leading)

\* Without a stall, whoever leads holds the lease.
LeadersHold ==
  stalls = 0 => \A i \in Instance : pc[i] \in Leading => lease = i

\* The inductive invariant.
ElectionInv ==
  /\ ElectionTypes /\ CurrentHolds /\ FlagIsPlace /\ LeadersHold
  /\ LeaderIsCurrent

\* Nobody leads at first.
LEMMA ElectionStarts ==
  ASSUME ElectionInit PROVE ElectionInv
  BY LeaderAssumption DEF ElectionInit, ElectionInv, ElectionTypes,
         CurrentHolds, FlagIsPlace, LeadersHold, LeaderIsCurrent,
         Place, Leading

\* Instance i goes to place p with its flag set to flag; the others stay.
Moves(i, p, flag) ==
  /\ pc' = [pc EXCEPT ![i] = p]
  /\ leader' = [leader EXCEPT ![i] = flag]
  /\ stalls' = stalls

\* A step of i that writes the key, which was i's or nobody's, keeps the invariant.
LEMMA WritesKeep ==
  ASSUME ElectionInv,
         NEW i \in Instance, NEW acked \in BOOLEAN, Write(i, acked),
         NEW p \in Place, NEW flag \in BOOLEAN, Moves(i, p, flag),
         lease \in {i, None},
         p # "stopped", flag <=> p \in Leading, p = "leading" => acked
  PROVE  ElectionInv'
<1>1. /\ lease' = i
      /\ current' \in [Instance -> BOOLEAN]
      /\ \A j \in Instance : current'[j] <=> j = i /\ acked
  BY DEF Write
<1>2. /\ pc' \in [Instance -> Place] /\ pc'[i] = p
      /\ leader' \in [Instance -> BOOLEAN] /\ leader'[i] = flag
      /\ \A j \in Instance \ {i} : pc'[j] = pc[j] /\ leader'[j] = leader[j]
  BY DEF Moves, ElectionInv, ElectionTypes
<1>3. ElectionTypes'
  BY <1>1, <1>2 DEF ElectionTypes, Moves, ElectionInv
<1>4. CurrentHolds'
  BY <1>1 DEF CurrentHolds
<1>5. FlagIsPlace'
  BY <1>2 DEF FlagIsPlace, ElectionInv
<1>6. LeadersHold'
  BY <1>1, <1>2, LeaderAssumption, SMTT(30) DEF LeadersHold, Moves, ElectionInv
<1>7. LeaderIsCurrent'
  BY <1>1, <1>2 DEF LeaderIsCurrent
<1> QED
  BY <1>3, <1>4, <1>5, <1>6, <1>7 DEF ElectionInv

\* So does a step of i that leaves the key alone, if i enters the loop of a leader
\* from that loop only, and goes on to refresh only with the revision of its lease.
LEMMA MovesKeep ==
  ASSUME ElectionInv, NEW i \in Instance,
         NEW p \in Place, NEW flag \in BOOLEAN, Moves(i, p, flag),
         lease' = lease,
         current' = current \/ (lease = i /\ current' = [current EXCEPT ![i] = TRUE]),
         p = "stopped" \/ (flag <=> p \in Leading),
         p \in Leading => pc[i] \in Leading,
         p = "leading" /\ lease = i => current'[i]
  PROVE  ElectionInv'
<1>1. /\ current' \in [Instance -> BOOLEAN]
      /\ \A j \in Instance : current'[j] <=> current[j] \/ (j = i /\ current'[i])
      /\ current'[i] => lease = i
  BY DEF ElectionInv, ElectionTypes, CurrentHolds
<1>2. /\ pc' \in [Instance -> Place] /\ pc'[i] = p
      /\ leader' \in [Instance -> BOOLEAN] /\ leader'[i] = flag
      /\ \A j \in Instance \ {i} : pc'[j] = pc[j] /\ leader'[j] = leader[j]
  BY DEF Moves, ElectionInv, ElectionTypes
<1>3. ElectionTypes'
  BY <1>1, <1>2 DEF ElectionTypes, Moves, ElectionInv
<1>4. CurrentHolds'
  BY <1>1 DEF CurrentHolds, ElectionInv
<1>5. FlagIsPlace'
  BY <1>2 DEF FlagIsPlace, ElectionInv
<1>6. LeadersHold'
  BY <1>2 DEF LeadersHold, Moves, ElectionInv
<1>7. LeaderIsCurrent'
  BY <1>1, <1>2 DEF LeaderIsCurrent, ElectionInv
<1> QED
  BY <1>3, <1>4, <1>5, <1>6, <1>7 DEF ElectionInv

\* Every step keeps the invariant.
LEMMA ElectionStep ==
  ASSUME ElectionInv, ElectionNext PROVE ElectionInv'
<1>0. ASSUME NEW i \in Instance
      PROVE  /\ leader[i] \in BOOLEAN /\ pc[i] \in Place
             /\ leader = [leader EXCEPT ![i] = leader[i]]
             /\ pc = [pc EXCEPT ![i] = pc[i]]
             /\ pc[i] # "stopped" => (leader[i] <=> pc[i] \in Leading)
             /\ current[i] => lease = i
             /\ current[i] \in BOOLEAN
  BY DEF ElectionInv, ElectionTypes, FlagIsPlace, CurrentHolds
<1>p. /\ {"leading", "reclaim", "recreate"} \subseteq Place \cap Leading
      /\ {"standby", "acquire", "stopped"} \subseteq Place
      /\ "standby" \notin Leading /\ "acquire" \notin Leading
      /\ "stopped" \notin Leading
  BY DEF Place, Leading
<1>1. CASE Expire
  <2>1. /\ lease' = None /\ None \notin Instance
        /\ current' \in [Instance -> BOOLEAN]
        /\ \A i \in Instance : ~ current'[i]
        /\ UNCHANGED <<pc, leader>>
    BY <1>1, LeaderAssumption DEF Expire
  <2>2. stalls' \in Nat /\ (stalls' = 0 => stalls = 0 /\ pc[lease] \notin Leading)
    BY <1>1, SMTT(30) DEF Expire, ElectionInv, ElectionTypes
  <2>3. ElectionTypes' /\ CurrentHolds' /\ FlagIsPlace'
    BY <2>1, <2>2 DEF ElectionInv, ElectionTypes, CurrentHolds, FlagIsPlace
  <2>4. LeadersHold'
    BY <2>1, <2>2 DEF ElectionInv, LeadersHold
  <2>5. LeaderIsCurrent'
    BY <2>1 DEF LeaderIsCurrent
  <2> QED
    BY <2>3, <2>4, <2>5 DEF ElectionInv
<1>2. ASSUME NEW i \in Instance, tryAcquire(i) PROVE ElectionInv'
  <2>1. CASE CreateOk(i) /\ becomeLeader(i)
    <3>1. Moves(i, "leading", TRUE)
      BY <1>2, <2>1 DEF tryAcquire, becomeLeader, Announce,
         Moves
    <3> QED
      BY <2>1, <3>1, WritesKeep, <1>p DEF CreateOk
  <2>2. CASE CreateError(i) /\ Goto(i, "standby")
    <3>1. Moves(i, "standby", FALSE)
      BY <1>0, <1>2, <2>2 DEF tryAcquire, Goto, Moves, Leading
    <3>2. CASE lease' = lease /\ current' = current
      BY <1>0, <3>1, <3>2, MovesKeep, <1>p
    <3>3. CASE lease = None /\ Write(i, FALSE)
      BY <1>0, <3>1, <3>3, WritesKeep, <1>p
    <3> QED
      BY <2>2, <3>2, <3>3 DEF CreateError
  <2> QED
    BY <1>2, <2>1, <2>2 DEF tryAcquire
<1>3. ASSUME NEW i \in Instance, runStandby(i) PROVE ElectionInv'
  <2>1. Moves(i, "acquire", FALSE) /\ lease' = lease /\ current' = current
    BY <1>0, <1>3 DEF runStandby, Goto, Moves, Leading
  <2> QED
    BY <1>0, <2>1, MovesKeep, <1>p
<1>4. ASSUME NEW i \in Instance, refreshLease(i) PROVE ElectionInv'
  <2>0. pc[i] = "leading" /\ leader[i] /\ stalls' = stalls
    BY <1>0, <1>4 DEF refreshLease, Leading
  <2>1. CASE UpdateOk(i) /\ UNCHANGED <<pc, leader, ch>>
    <3>1. Moves(i, "leading", TRUE)
      BY <1>0, <2>0, <2>1 DEF Moves
    <3> QED
      BY <1>0, <2>1, <3>1, WritesKeep, <1>p DEF UpdateOk
  <2>2. CASE UpdateError(i) /\ Goto(i, "reclaim")
    <3>1. Moves(i, "reclaim", TRUE)
      BY <1>0, <2>0, <2>2 DEF Goto, Moves
    <3>2. CASE lease' = lease /\ current' = current
      BY <2>0, <3>1, <3>2, MovesKeep, <1>p
    <3>3. CASE current[i] /\ Write(i, FALSE)
      BY <1>0, <3>1, <3>3, WritesKeep, <1>p
    <3> QED
      BY <2>2, <3>2, <3>3 DEF UpdateError
  <2> QED
    BY <1>4, <2>1, <2>2 DEF refreshLease
<1>5. ASSUME NEW i \in Instance, reclaimLease(i) PROVE ElectionInv'
  <2>0. pc[i] = "reclaim" /\ leader[i] /\ lease' = lease /\ stalls' = stalls
    BY <1>0, <1>5 DEF reclaimLease, Leading
  <2>1. CASE lease = None /\ Goto(i, "recreate") /\ UNCHANGED current
    <3>1. Moves(i, "recreate", TRUE)
      BY <1>0, <2>0, <2>1 DEF Goto, Moves
    <3> QED
      BY <2>0, <2>1, <3>1, MovesKeep, <1>p
  <2>2. CASE loseLeadership(i) /\ UNCHANGED current
    <3>1. Moves(i, "standby", FALSE)
      BY <2>0, <2>2 DEF loseLeadership, Announce, Moves
    <3> QED
      BY <2>0, <2>2, <3>1, MovesKeep, <1>p
  <2>3. CASE /\ lease = i /\ Goto(i, "leading")
             /\ current' = [current EXCEPT ![i] = TRUE]
    <3>1. Moves(i, "leading", TRUE)
      BY <1>0, <2>0, <2>3 DEF Goto, Moves
    <3>2. current'[i]
      BY <2>3 DEF ElectionInv, ElectionTypes
    <3> QED
      BY <2>0, <2>3, <3>1, <3>2, MovesKeep, <1>p
  <2> QED
    BY <1>5, <2>1, <2>2, <2>3 DEF reclaimLease
<1>6. ASSUME NEW i \in Instance, reclaimCreate(i) PROVE ElectionInv'
  <2>0. pc[i] = "recreate" /\ leader[i] /\ stalls' = stalls
    BY <1>0, <1>6 DEF reclaimCreate, Leading
  <2>1. CASE CreateOk(i) /\ Goto(i, "leading")
    <3>1. Moves(i, "leading", TRUE)
      BY <1>0, <2>0, <2>1 DEF Goto, Moves
    <3> QED
      BY <2>1, <3>1, WritesKeep, <1>p DEF CreateOk
  <2>2. CASE CreateError(i) /\ loseLeadership(i)
    <3>1. Moves(i, "standby", FALSE)
      BY <2>0, <2>2 DEF loseLeadership, Announce, Moves
    <3>2. CASE lease' = lease /\ current' = current
      BY <3>1, <3>2, MovesKeep, <1>p
    <3>3. CASE lease = None /\ Write(i, FALSE)
      BY <3>1, <3>3, WritesKeep, <1>p
    <3> QED
      BY <2>2, <3>2, <3>3 DEF CreateError
  <2> QED
    BY <1>6, <2>1, <2>2 DEF reclaimCreate
<1>7. ASSUME NEW i \in Instance, Stop(i) PROVE ElectionInv'
  <2>1. Moves(i, "stopped", leader[i]) /\ lease' = lease /\ current' = current
    BY <1>0, <1>7 DEF Stop, Goto, Moves
  <2> QED
    BY <1>0, <2>1, MovesKeep, <1>p
<1>8. ASSUME NEW i \in Instance, Listen(i) PROVE ElectionInv'
  BY <1>8 DEF Listen, ElectionInv, ElectionTypes, CurrentHolds, FlagIsPlace,
     LeadersHold, LeaderIsCurrent
<1> QED
  BY <1>1, <1>2, <1>3, <1>4, <1>5, <1>6, <1>7, <1>8 DEF ElectionNext, Step

\* The invariant of the election holds in every reachable state.
THEOREM ElectionInductive == ElectionSpec => []ElectionInv
<1>1. ElectionInv /\ UNCHANGED electionVars => ElectionInv'
  BY DEF electionVars, ElectionInv, ElectionTypes, CurrentHolds, FlagIsPlace,
     LeadersHold, LeaderIsCurrent
<1> QED
  BY ElectionStarts, ElectionStep, <1>1, PTL DEF ElectionSpec

\* A leader whose lease is in the store has its revision, whatever answers of the store
\* were lost: refreshLease and reclaimLease keep it, and nobody else writes the key.
THEOREM RefreshSucceeds == ElectionSpec => []LeaderIsCurrent
<1>1. ElectionInv => LeaderIsCurrent
  BY DEF ElectionInv
<1> QED
  BY ElectionInductive, <1>1, PTL

\* Errors and lost answers alone do not split the brain: two instances that run both
\* answer IsLeader only after a lease ran out while its holder led.
THEOREM OneLeaderUnlessStalled == ElectionSpec => []SplitNeedsStall
<1>1. ElectionInv => SplitNeedsStall
  BY DEF ElectionInv, ElectionTypes, FlagIsPlace, LeadersHold, SplitNeedsStall
<1> QED
  BY ElectionInductive, <1>1, PTL

\* A lease goes from one instance to another only by expiring: no refresh, reclaim or
\* acquisition overwrites the lease of another.
THEOREM LeaseExpiresFirst == ElectionSpec => LeaseMovesByExpiry
<1>1. ElectionInv /\ [ElectionNext]_electionVars
        => [lease # None /\ lease' # lease => lease' = None]_electionVars
  BY DEF ElectionInv, CurrentHolds, ElectionNext, Step, Expire,
     tryAcquire, runStandby, refreshLease,
     reclaimLease, reclaimCreate, Stop, Listen,
     CreateOk, CreateError, UpdateOk, UpdateError,
     Write, electionVars
<1> QED
  BY ElectionInductive, <1>1, PTL DEF ElectionSpec, LeaseMovesByExpiry

=============================================================================

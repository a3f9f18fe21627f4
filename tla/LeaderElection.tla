---------------------------- MODULE LeaderElection ----------------------------
(***************************************************************************)
(* Leader election between coordinators over one key of a KV bucket whose  *)
(* entries expire: the run loops of the instances, the calls they make to  *)
(* the store, and the channel that a listener on LeaderChanged reads.      *)
(*                                                                         *)
(* The store gives every write a revision that is never used again, so of  *)
(* the revision an instance recorded only one thing matters: whether it is *)
(* still the key's.                                                        *)
(***************************************************************************)
EXTENDS Naturals, FiniteSets

CONSTANTS
  Instance,    \* the coordinators
  None,        \* no coordinator, no notification
  MaxFaults,   \* bound: calls to the store that fail or lose their answer
  MaxStalls,   \* bound: leases that expire although their holder leads
  MaxStops     \* bound: instances that are stopped

ASSUME LeaderAssumption ==
  /\ None \notin Instance /\ None \notin BOOLEAN
  /\ {MaxFaults, MaxStalls, MaxStops} \subseteq Nat

VARIABLES
  lease,     \* the holder that the key names, None if there is no key
  current,   \* le.rev is the revision of the key
  pc,        \* where the run loop is
  leader,    \* le.isLeader
  ch,        \* le.leaderCh, a channel of one element
  faults, stalls

electionVars == <<lease, current, pc, leader, ch, faults, stalls>>

Leading == {"leading", "reclaim", "recreate"}

Place == Leading \cup {"new", "standby", "acquire", "stopped"}

ElectionInit ==
  /\ lease = None
  /\ current = [i \in Instance |-> FALSE]
  /\ pc = [i \in Instance |-> "new"]
  /\ leader = [i \in Instance |-> FALSE]
  /\ ch = [i \in Instance |-> None]
  /\ faults = 0 /\ stalls = 0

Fault == faults < MaxFaults /\ faults' = faults + 1

-----------------------------------------------------------------------------
\* The store.  A write makes the revisions of the others stale; one whose answer
\* is lost leaves its author without the new revision too.

Write(i, acked) ==
  /\ lease' = i
  /\ current' = [j \in Instance |-> j = i /\ acked]

\* kv.Create, that reports success or an error.
CreateOk(i) == lease = None /\ Write(i, TRUE) /\ UNCHANGED faults

CreateError(i) ==
  \/ lease # None /\ UNCHANGED <<lease, current, faults>>
  \/ Fault /\ UNCHANGED <<lease, current>>
  \/ lease = None /\ Fault /\ Write(i, FALSE)

\* kv.Update at the recorded revision.
UpdateOk(i) == current[i] /\ Write(i, TRUE) /\ UNCHANGED faults

UpdateError(i) ==
  \/ ~ current[i] /\ UNCHANGED <<lease, current, faults>>
  \/ Fault /\ UNCHANGED <<lease, current>>
  \/ current[i] /\ Fault /\ Write(i, FALSE)

\* The entry is older than leaderTTL.
Expire ==
  /\ lease # None
  /\ pc[lease] \in Leading => stalls < MaxStalls
  /\ stalls' = IF pc[lease] \in Leading THEN stalls + 1 ELSE stalls
  /\ lease' = None
  /\ current' = [i \in Instance |-> FALSE]
  /\ UNCHANGED <<pc, leader, ch, faults>>

-----------------------------------------------------------------------------
\* becomeLeader and loseLeadership set the flag and send it, unless the channel
\* is full.

\* Mutant: the flag is set where the channel takes it.
AnnounceSent(i, flag) ==
  /\ leader' = [leader EXCEPT ![i] = IF ch[i] = None THEN flag ELSE leader[i]]
  /\ ch' = [ch EXCEPT ![i] = IF ch[i] = None THEN flag ELSE ch[i]]

Announce(i, flag) ==
  /\ leader' = [leader EXCEPT ![i] = flag]
  /\ ch' = [ch EXCEPT ![i] = IF ch[i] = None THEN flag ELSE ch[i]]

becomeLeader(i) == Announce(i, TRUE) /\ pc' = [pc EXCEPT ![i] = "leading"]

loseLeadership(i) == Announce(i, FALSE) /\ pc' = [pc EXCEPT ![i] = "standby"]

Goto(i, place) ==
  /\ pc' = [pc EXCEPT ![i] = place]
  /\ UNCHANGED <<leader, ch>>

\* Start, and a standby that found no key: tryAcquire.
tryAcquire(i) ==
  /\ pc[i] \in {"new", "acquire"}
  /\ \/ CreateOk(i) /\ becomeLeader(i)
     \/ CreateError(i) /\ Goto(i, "standby")
  /\ UNCHANGED stalls

\* runStandby: a tick, and the read of the key.
runStandby(i) ==
  /\ pc[i] = "standby"
  /\ \/ lease = None /\ UNCHANGED faults
     \/ Fault
  /\ Goto(i, "acquire")
  /\ UNCHANGED <<lease, current, stalls>>

\* Mutant: the refresh puts the key, whatever its revision.
refreshLeasePut(i) ==
  /\ pc[i] = "leading"
  /\ \/ Write(i, TRUE) /\ UNCHANGED <<pc, leader, ch, faults>>
     \/ UpdateError(i) /\ Goto(i, "reclaim")
  /\ UNCHANGED stalls

\* Mutant: a refresh that fails is tried again, as if it might yet succeed.
refreshLeaseHopes(i) ==
  /\ pc[i] = "leading"
  /\ \/ UpdateOk(i) /\ UNCHANGED <<pc, leader, ch>>
     \/ UpdateError(i) /\ UNCHANGED <<pc, leader, ch>>
  /\ UNCHANGED stalls

\* refreshLease, at a tick of runLeader.
refreshLease(i) ==
  /\ pc[i] = "leading"
  /\ \/ UpdateOk(i) /\ UNCHANGED <<pc, leader, ch>>
     \/ UpdateError(i) /\ Goto(i, "reclaim")
  /\ UNCHANGED stalls

\* Mutant: a lease that is ours is kept at the revision that was recorded.
reclaimLeaseKeeps(i) ==
  /\ pc[i] = "reclaim"
  /\ \/ lease = None /\ Goto(i, "recreate") /\ UNCHANGED <<current, faults>>
     \/ lease \notin {i, None} /\ loseLeadership(i) /\ UNCHANGED <<current, faults>>
     \/ lease = i /\ Goto(i, "leading") /\ UNCHANGED <<current, faults>>
     \/ Fault /\ loseLeadership(i) /\ UNCHANGED current
  /\ UNCHANGED <<lease, stalls>>

\* Mutant: an instance that cannot read the key polls, and still says it leads.
reclaimLeaseQuiet(i) ==
  /\ pc[i] = "reclaim"
  /\ \/ lease = None /\ Goto(i, "recreate") /\ UNCHANGED <<current, faults>>
     \/ lease \notin {i, None} /\ loseLeadership(i) /\ UNCHANGED <<current, faults>>
     \/ /\ lease = i /\ Goto(i, "leading")
        /\ current' = [current EXCEPT ![i] = TRUE]
        /\ UNCHANGED faults
     \/ Fault /\ Goto(i, "standby") /\ UNCHANGED current
  /\ UNCHANGED <<lease, stalls>>

\* reclaimLease: the key is read, and is gone, another's, ours, or unreadable.
reclaimLease(i) ==
  /\ pc[i] = "reclaim"
  /\ \/ lease = None /\ Goto(i, "recreate") /\ UNCHANGED <<current, faults>>
     \/ lease \notin {i, None} /\ loseLeadership(i) /\ UNCHANGED <<current, faults>>
     \/ /\ lease = i /\ Goto(i, "leading")
        /\ current' = [current EXCEPT ![i] = TRUE]
        /\ UNCHANGED faults
     \/ Fault /\ loseLeadership(i) /\ UNCHANGED current
  /\ UNCHANGED <<lease, stalls>>

\* reclaimLease, where the key was gone.
reclaimCreate(i) ==
  /\ pc[i] = "recreate"
  /\ \/ CreateOk(i) /\ Goto(i, "leading")
     \/ CreateError(i) /\ loseLeadership(i)
  /\ UNCHANGED stalls

\* Stop: the run loop ends where it waits for its ticker, and the flag stays.
Stop(i) ==
  /\ pc[i] \in {"leading", "standby"}
  /\ Cardinality({j \in Instance : pc[j] = "stopped"}) < MaxStops
  /\ Goto(i, "stopped")
  /\ UNCHANGED <<lease, current, faults, stalls>>

\* The listener reads LeaderChanged.
Listen(i) ==
  /\ ch[i] # None
  /\ ch' = [ch EXCEPT ![i] = None]
  /\ UNCHANGED <<lease, current, pc, leader, faults, stalls>>

Step(i) ==
  \/ tryAcquire(i) \/ runStandby(i) \/ refreshLease(i)
  \/ reclaimLease(i) \/ reclaimCreate(i)

ElectionNext == Expire \/ \E i \in Instance : Step(i) \/ Stop(i) \/ Listen(i)

ElectionSpec == ElectionInit /\ [][ElectionNext]_electionVars

\* Tickers tick, calls return, and an entry nobody refreshes expires.
ElectionFairness ==
  /\ \A i \in Instance : WF_electionVars(Step(i)) /\ WF_electionVars(Listen(i))
  /\ WF_electionVars(lease # None /\ pc[lease] \notin Leading /\ Expire)

LiveElectionSpec == ElectionSpec /\ ElectionFairness

-----------------------------------------------------------------------------
\* Properties.

\* A lease goes from one instance to another only by expiring: no refresh, no
\* reclaim and no acquisition, however late, overwrites another's.
LeaseMovesByExpiry ==
  [][lease # None /\ lease' # lease => lease' = None]_electionVars

\* A leader whose lease is in the store has its revision, whatever answers were
\* lost: its next refresh does not fail for a stale one.
LeaderIsCurrent ==
  \A i \in Instance : pc[i] = "leading" /\ lease = i => current[i]

\* A leader that another instance displaced finds out and stands down.
DisplacedStandsDown ==
  \A i \in Instance :
    leader[i] /\ pc[i] # "stopped" /\ lease \notin {i, None}
      ~> pc[i] = "stopped" \/ ~ leader[i] \/ lease \in {i, None}

\* As long as an instance is not stopped, one leads again and again.
SomeoneLeads ==
  []<>(\E i \in Instance : leader[i] /\ pc[i] # "stopped")

\* Errors and lost answers alone do not split the brain: two instances that run
\* both answer IsLeader only after a lease ran out while its holder led.
SplitNeedsStall ==
  stalls = 0 =>
    \A i, j \in Instance :
      leader[i] /\ leader[j] /\ pc[i] # "stopped" /\ pc[j] # "stopped" => i = j

=============================================================================

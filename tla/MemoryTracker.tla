---------------------------- MODULE MemoryTracker -----------------------------
(***************************************************************************)
(* The lock-free ledger of reserved memory: the worker's tracker, one      *)
(* child of it per task with the same budget, and operators that reserve,  *)
(* wait, force and release.                                                *)
(*                                                                         *)
(* An atomic addition and the test of its own result are one step; a roll  *)
(* back, the parent's part of a call and the CAS of a peak are further     *)
(* steps.  The forced census is added with the usage it belongs to: only   *)
(* messages read it.  The cached store and the decode window, which charge *)
(* the worker's tracker itself, are operators with a child of their own.   *)
(***************************************************************************)
EXTENDS Integers, FiniteSets

CONSTANTS
  Operator, Child, Root,
  Of,               \* Of[o]: the tracker an operator charges
  Bare,             \* the operators that force without a purpose
  Budget,           \* of the root and of its children
  Size,             \* the sizes of requests
  MaxCalls          \* bound: requests

ASSUME TrackerAssumption ==
  /\ IsFiniteSet(Operator) /\ Root \notin Child /\ Of \in [Operator -> Child]
  /\ Bare \subseteq Operator
  /\ Budget \in Nat \ {0} /\ Size \subseteq Nat \ {0} /\ MaxCalls \in Nat

Tracker == Child \cup {Root}

VARIABLES
  used, peak,           \* of each tracker
  forced,               \* its census of the bytes forced for a purpose,
  unattributed,         \* and of the bytes forced without one
  op,                   \* the call of each operator, and what it holds
  calls

vars == <<used, peak, forced, unattributed, op, calls>>

census == <<forced, unattributed>>

Idle == [pc |-> "idle", n |-> 0, forced |-> FALSE, child |-> 0, root |-> 0, cur |-> 0]

Init ==
  /\ used = [t \in Tracker |-> 0]
  /\ peak = [t \in Tracker |-> 0]
  /\ forced = [t \in Tracker |-> 0]
  /\ unattributed = [t \in Tracker |-> 0]
  /\ op = [o \in Operator |-> Idle]
  /\ calls = 0

Goto(o, pc) == op' = [op EXCEPT ![o].pc = pc]

Add(t, n) == used' = [used EXCEPT ![t] = @ + n]

Under(t) == {o \in Operator : t \in {Of[o], Root}}

\* The sum of w over operators.
SumOf(w, operators) ==
  LET sum[S \in SUBSET Operator] ==
        IF S = {} THEN 0
        ELSE LET o == CHOOSE o \in S : TRUE IN w[o] + sum[S \ {o}]
  IN sum[operators]

Sum(operators) == SumOf([o \in Operator |-> op[o].n], operators)

\* The operators that hold what was admitted or forced.
Holding == {"loadRoot", "casRoot", "loadChild", "casChild", "held"}

Holders(t) == {o \in Under(t) : op[o].pc \in Holding}

-----------------------------------------------------------------------------
\* Reserve on the child, from a first request or from a poll of ReserveBlocking.

\* Mutant: the test ignores the bytes that are requested.
AdmitsBlind(t, n) == used[t] <= Budget

\* The addition's own result is what is tested.
Admits(t, n) == used[t] + n <= Budget

Charge(o, n) ==
  LET t == Of[o] IN
  /\ Add(t, n)
  /\ \/ /\ Admits(t, n)
        /\ op' = [op EXCEPT ![o] = [Idle EXCEPT !.pc = "parent", !.n = n, !.child = used[t] + n]]
     \/ /\ ~ Admits(t, n)
        /\ op' = [op EXCEPT ![o] = [Idle EXCEPT !.pc = "undo", !.n = n]]
  /\ UNCHANGED <<peak, census>>

Reserve(o) ==
  /\ op[o].pc = "idle"
  /\ calls < MaxCalls
  /\ calls' = calls + 1
  /\ \E n \in Size : Charge(o, n)

\* The parent's Reserve.
reserveParent(o) ==
  LET n == op[o].n IN
  /\ op[o].pc = "parent"
  /\ Add(Root, n)
  /\ \/ /\ Admits(Root, n)
        /\ op' = [op EXCEPT ![o].pc = "loadRoot", ![o].root = used[Root] + n]
     \/ ~ Admits(Root, n) /\ Goto(o, "undoRoot")
  /\ UNCHANGED <<peak, census, calls>>

rollbackParent(o) ==
  /\ op[o].pc = "undoRoot"
  /\ Add(Root, - op[o].n)
  /\ Goto(o, "undo")
  /\ UNCHANGED <<peak, census, calls>>

\* Mutant: a child keeps what its parent refused.
rollbackNone(o) ==
  /\ op[o].pc = "undo"
  /\ Goto(o, "refused")
  /\ UNCHANGED <<used, peak, census, calls>>

rollback(o) ==
  /\ op[o].pc = "undo"
  /\ Add(Of[o], - op[o].n)
  /\ Goto(o, "refused")
  /\ UNCHANGED <<peak, census, calls>>

-----------------------------------------------------------------------------
\* After ErrMemoryExceeded.

\* A caller of Reserve takes the refusal: a window that waits for a slot, a join that
\* spills or fails.
Return(o) ==
  /\ op[o].pc = "refused"
  /\ op' = [op EXCEPT ![o] = Idle]
  /\ UNCHANGED <<used, peak, census, calls>>

\* ReserveOrForce, which has a purpose, goes on.
Persists(o) == op[o].pc = "refused" /\ o \notin Bare

\* ReserveBlocking polls; ReserveOrForce does not wait for what never fits.
ReserveBlocking(o) ==
  /\ Persists(o)
  /\ op[o].n <= Budget
  /\ Charge(o, op[o].n)
  /\ UNCHANGED calls

-----------------------------------------------------------------------------
\* ForceReserveFor, and ForceReserve, which names no purpose: the child and the parent.

\* The usage of t and its census.
Count(o, t, n) ==
  /\ Add(t, n)
  /\ forced' = [forced EXCEPT ![t] = IF o \in Bare THEN @ ELSE @ + n]
  /\ unattributed' = [unattributed EXCEPT ![t] = IF o \in Bare THEN @ + n ELSE @]

ForceCharge(o, n) ==
  /\ Count(o, Of[o], n)
  /\ op' = [op EXCEPT ![o] = [Idle EXCEPT !.pc = "force", !.n = n, !.forced = TRUE,
                                          !.child = used[Of[o]] + n]]
  /\ UNCHANGED peak

\* At once: what is read or decoded whatever the budget.
ForceReserve(o) ==
  /\ op[o].pc = "idle"
  /\ calls < MaxCalls
  /\ calls' = calls + 1
  /\ \E n \in Size : ForceCharge(o, n)

\* forceWithWarning: when the wait of ReserveOrForce is over, or without one.
ForceReserveFor(o) ==
  /\ Persists(o)
  /\ ForceCharge(o, op[o].n)
  /\ UNCHANGED calls

forceParent(o) ==
  /\ op[o].pc = "force"
  /\ Count(o, Root, op[o].n)
  /\ op' = [op EXCEPT ![o].pc = "loadRoot", ![o].root = used[Root] + op[o].n]
  /\ UNCHANGED <<peak, calls>>

-----------------------------------------------------------------------------
\* bumpPeak, of the parent and then of the child.

Peak(o) == IF op[o].pc \in {"loadRoot", "casRoot"} THEN Root ELSE Of[o]

Seen(o) == IF Peak(o) = Root THEN op[o].root ELSE op[o].child

Bumped(o) == IF Peak(o) = Root THEN "loadChild" ELSE "held"

bumpLoad(o) ==
  /\ op[o].pc \in {"loadRoot", "loadChild"}
  /\ op' = [op EXCEPT ![o].cur = peak[Peak(o)],
              ![o].pc = CASE Seen(o) <= peak[Peak(o)] -> Bumped(o)
                          [] Seen(o) > peak[Peak(o)] /\ Peak(o) = Root -> "casRoot"
                          [] Seen(o) > peak[Peak(o)] /\ Peak(o) # Root -> "casChild"]
  /\ UNCHANGED <<used, peak, census, calls>>

\* Mutant: a store instead of a compare and swap.
bumpStore(o) ==
  /\ op[o].pc \in {"casRoot", "casChild"}
  /\ peak' = [peak EXCEPT ![Peak(o)] = Seen(o)]
  /\ Goto(o, Bumped(o))
  /\ UNCHANGED <<used, census, calls>>

bumpCAS(o) ==
  /\ op[o].pc \in {"casRoot", "casChild"}
  /\ \/ /\ peak[Peak(o)] = op[o].cur
        /\ peak' = [peak EXCEPT ![Peak(o)] = Seen(o)]
        /\ Goto(o, Bumped(o))
     \/ /\ peak[Peak(o)] # op[o].cur
        /\ Goto(o, IF Peak(o) = Root THEN "loadRoot" ELSE "loadChild")
        /\ UNCHANGED peak
  /\ UNCHANGED <<used, census, calls>>

-----------------------------------------------------------------------------
\* ReleaseForced for what was forced for a purpose, by the flag that the reservation
\* returned.  Release for the rest, and for what was forced without a purpose: its
\* census stays.

\* Mutant: a forced charge is given back as an ordinary one.
GiveBackPlain(o, t) ==
  /\ Add(t, - op[o].n)
  /\ UNCHANGED <<peak, census, calls>>

GiveBack(o, t) ==
  /\ Add(t, - op[o].n)
  /\ forced' = [forced EXCEPT ![t] = IF op[o].forced /\ o \notin Bare THEN @ - op[o].n ELSE @]
  /\ UNCHANGED <<peak, unattributed, calls>>

Release(o) ==
  /\ op[o].pc = "held"
  /\ GiveBack(o, Of[o])
  /\ Goto(o, "release")

releaseParent(o) ==
  /\ op[o].pc = "release"
  /\ GiveBack(o, Root)
  /\ op' = [op EXCEPT ![o] = Idle]

-----------------------------------------------------------------------------
Step(o) ==
  \/ reserveParent(o) \/ rollbackParent(o) \/ rollback(o)
  \/ Return(o) \/ ReserveBlocking(o) \/ ForceReserveFor(o) \/ forceParent(o)
  \/ bumpLoad(o) \/ bumpCAS(o)
  \/ Release(o) \/ releaseParent(o)

Next == \E o \in Operator : Reserve(o) \/ ForceReserve(o) \/ Step(o)

Spec == Init /\ [][Next]_vars

-----------------------------------------------------------------------------
\* Properties.

Quiet == \A o \in Operator : op[o].pc \in {"idle", "held"}

Forced(t) == {o \in Holders(t) : op[o].forced}

\* When no call is under way, each tracker's usage is exactly what is held under it:
\* no interleaving of admissions, roll backs at either level, forced charges and
\* releases leaks or loses a byte.  Its census names exactly the bytes that are held
\* by force for a purpose, and no fewer than those held by force without one.
LedgerIsExact ==
  Quiet => \A t \in Tracker : /\ used[t] = Sum(Holders(t))
                              /\ forced[t] = Sum(Forced(t) \ Bare)
                              /\ unattributed[t] >= Sum(Forced(t) \cap Bare)

\* What Reserve has admitted and is still held never exceeds the budget, of the
\* child or of the worker, however many operators reserve at once.
AdmittedFits ==
  \A t \in Tracker : Sum(Holders(t) \ Forced(t)) <= Budget

\* The peak is never below what is held by calls that have returned, although
\* peaks are raised without a lock by calls that finish in another order.
PeakCovers == \A t \in Tracker : Quiet => peak[t] >= used[t]

=============================================================================

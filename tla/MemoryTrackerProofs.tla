------------------------- MODULE MemoryTrackerProofs --------------------------
(***************************************************************************)
(* Proofs about MemoryTracker, for any finite set of operators, any tasks, *)
(* budget and requests: the usage is exact, what is admitted fits, and the *)
(* peak covers what is held.                                               *)
(*                                                                         *)
(* The properties are about sums over sets of operators, so the lemmas     *)
(* about SumOf come first.  MemoryInv says what each operator adds to each *)
(* sum at each of its steps.  MemoryMoves shows once what a step of one    *)
(* operator does to all of them, and each action is shown to be such a     *)
(* step.  BareInv says the same of what is forced without a purpose, as an *)
(* inequality.                                                             *)
(***************************************************************************)
EXTENDS MemoryTracker, FiniteSetTheorems, WellFoundedInduction, TLAPS

\* A leaf is Zenon's unless it names the SMT solver.
USE ZenonT(60)

\* A set of naturals has a least element.
LEMMA LeastNat ==
  ASSUME NEW T, T \subseteq Nat, T # {}
  PROVE  \E m \in T : \A n \in T : m <= n
<1>1. PICK m \in T : \A n \in T : ~ (<<n, m>> \in OpToRel(<, Nat))
  BY NatLessThanWellFounded, WFMin
<1>2. \A n \in T : n \in Nat /\ m \in Nat /\ ~ (n < m)
  BY <1>1 DEF OpToRel
<1>3. \A n \in T : m <= n
  BY <1>2, SMTT(30)
<1> QED
  BY <1>3

\* The sets of operators are finite, and the proper subsets of one are smaller.
LEMMA OperatorSets ==
  ASSUME IsFiniteSet(Operator), NEW S \in SUBSET Operator
  PROVE  /\ IsFiniteSet(S) /\ Cardinality(S) \in Nat
         /\ \A T \in SUBSET S : T # S => Cardinality(T) \in Nat /\ Cardinality(T) < Cardinality(S)
<1>1. IsFiniteSet(S)
  BY FS_Subset
<1>2. Cardinality(S) \in Nat
  BY <1>1, FS_CardinalityType
<1>3. ASSUME NEW T \in SUBSET S, T # S
      PROVE  Cardinality(T) \in Nat /\ Cardinality(T) < Cardinality(S)
  <2>1. IsFiniteSet(T) /\ Cardinality(T) <= Cardinality(S) /\ Cardinality(T) # Cardinality(S)
    BY <1>1, <1>3, FS_Subset
  <2>2. Cardinality(T) \in Nat
    BY <2>1, FS_CardinalityType
  <2> QED
    BY <1>2, <2>1, <2>2, SMTT(30)
<1> QED
  BY <1>1, <1>2, <1>3

\* What holds of a set of operators if it holds of its proper subsets holds of all.
LEMMA SubsetInduction ==
  ASSUME IsFiniteSet(Operator), NEW F,
         \A S \in SUBSET Operator : (\A T \in SUBSET S : T # S => T \in F) => S \in F
  PROVE  \A S \in SUBSET Operator : S \in F
<1> DEFINE Bad == {S \in SUBSET Operator : S \notin F}
           Sizes == {Cardinality(S) : S \in Bad}
<1> SUFFICES ASSUME Bad # {} PROVE FALSE
  OBVIOUS
<1>1. Sizes \subseteq Nat /\ Sizes # {}
  BY OperatorSets, SMTT(30)
<1>2. PICK m \in Sizes : \A n \in Sizes : m <= n
  BY <1>1, LeastNat
<1>3. PICK S \in Bad : m = Cardinality(S)
  OBVIOUS
<1>4. ASSUME NEW T \in SUBSET S, T # S PROVE T \in F
  <2>1. Cardinality(T) \in Nat /\ Cardinality(S) \in Nat /\ Cardinality(T) < Cardinality(S)
    BY <1>4, OperatorSets
  <2>2. T \in Bad => Cardinality(S) <= Cardinality(T)
    BY <1>2, <1>3, SMTT(30)
  <2> QED
    BY <2>1, <2>2, SMTT(30)
<1> QED
  BY <1>4

-----------------------------------------------------------------------------
\* The equation of SumOf.
Adds(f, w) ==
  f = [S \in SUBSET Operator |->
         IF S = {} THEN 0
         ELSE LET o == CHOOSE o \in S : TRUE IN w[o] + f[S \ {o}]]

\* It has a solution: the value for sets of at most n operators extends
\* to sets of n + 1.
LEMMA SumExists ==
  ASSUME IsFiniteSet(Operator), NEW w
  PROVE  \E f : Adds(f, w)
<1> DEFINE L(n) == {S \in SUBSET Operator : Cardinality(S) <= n}
           pick(S) == CHOOSE o \in S : TRUE
           E(f, n) == f = [S \in L(n) |-> IF S = {} THEN 0 ELSE w[pick(S)] + f[S \ {pick(S)}]]
           Without == {n \in Nat : ~ \E f : E(f, n)}
<1>p. \A S \in SUBSET Operator : S # {} => pick(S) \in S
  OBVIOUS
<1>1. CASE Without = {}
  <2>1. Cardinality(Operator) \in Nat
    BY OperatorSets
  <2>2. ASSUME NEW S \in SUBSET Operator PROVE Cardinality(S) <= Cardinality(Operator)
    BY FS_Subset
  <2>3. L(Cardinality(Operator)) = SUBSET Operator
    BY <2>2
  <2>4. PICK f : E(f, Cardinality(Operator))
    BY <1>1, <2>1
  <2>5. f = [S \in SUBSET Operator |-> IF S = {} THEN 0 ELSE w[pick(S)] + f[S \ {pick(S)}]]
    BY <2>3, <2>4
  <2> QED
    BY <2>5 DEF Adds
<1>2. CASE Without # {}
  <2>1. PICK m \in Without : \A n \in Without : m <= n
    BY <1>2, LeastNat
  <2>2. CASE m = 0
    <3>1. ASSUME NEW S \in L(0) PROVE S = {}
      <4>1. IsFiniteSet(S) /\ Cardinality(S) \in Nat /\ Cardinality(S) <= 0
        BY OperatorSets
      <4> QED
        BY <4>1, FS_EmptySet, SMTT(30)
    <3>2. E([S \in L(0) |-> 0], 0)
      BY <3>1
    <3> QED
      BY <2>1, <2>2, <3>2
  <2>3. CASE m # 0
    <3>1. m - 1 \in Nat /\ ~ (m <= m - 1)
      BY <2>3, SMTT(30)
    <3>2. PICK f : E(f, m - 1)
      BY <2>1, <3>1
    <3> DEFINE g == [S \in L(m) |-> IF S = {} THEN 0 ELSE w[pick(S)] + f[S \ {pick(S)}]]
    <3>3. ASSUME NEW S \in L(m), S # {}
          PROVE  S \ {pick(S)} \in L(m - 1)
      <4>1. pick(S) \in S
        BY <3>3
      <4> HIDE DEF pick
      <4>2. S \ {pick(S)} \in SUBSET S /\ S \ {pick(S)} # S
        BY <4>1
      <4>3. /\ Cardinality(S \ {pick(S)}) \in Nat /\ Cardinality(S) \in Nat
            /\ Cardinality(S \ {pick(S)}) < Cardinality(S) /\ Cardinality(S) <= m
        BY <4>2, OperatorSets
      <4> QED
        BY <4>2, <4>3, SMTT(30)
    <3>4. ASSUME NEW U \in L(m - 1) PROVE U \in L(m) /\ g[U] = f[U]
      <4>1. U \in L(m)
        BY OperatorSets, <3>1, SMTT(30)
      <4>2. f[U] = IF U = {} THEN 0 ELSE w[pick(U)] + f[U \ {pick(U)}]
        BY <3>2
      <4> HIDE DEF pick, L
      <4> QED
        BY <4>1, <4>2
    <3>5. \A S \in L(m) : S # {} => g[S \ {pick(S)}] = f[S \ {pick(S)}]
      BY <3>3, <3>4
    <3>6. E(g, m)
      <4> HIDE DEF pick, L
      <4>1. g = [S \in L(m) |-> IF S = {} THEN 0 ELSE w[pick(S)] + g[S \ {pick(S)}]]
        BY <3>5
      <4> QED
        BY <4>1
    <3> QED
      BY <2>1, <3>6
  <2> QED
    BY <2>2, <2>3
<1> QED
  BY <1>1, <1>2

\* What SumOf computes: nothing for no operator, else one of them and the rest.
LEMMA SumUnfolds ==
  ASSUME IsFiniteSet(Operator), NEW w
  PROVE  /\ SumOf(w, {}) = 0
         /\ \A S \in SUBSET Operator :
              S # {} => \E o \in S : SumOf(w, S) = w[o] + SumOf(w, S \ {o})
<1> DEFINE pick(S) == CHOOSE o \in S : TRUE
           sum == CHOOSE f : Adds(f, w)
<1>1. Adds(sum, w)
  BY SumExists
<1>2. \A S : SumOf(w, S) = sum[S]
  BY DEF SumOf, Adds
<1> HIDE DEF sum
<1>3. sum[{}] = 0
  BY <1>1 DEF Adds
<1>4. ASSUME NEW S \in SUBSET Operator, S # {}
      PROVE  pick(S) \in S /\ sum[S] = w[pick(S)] + sum[S \ {pick(S)}]
  BY <1>1, <1>4 DEF Adds
<1> QED
  BY <1>2, <1>3, <1>4

\* A sum of integers is one.
LEMMA SumType ==
  ASSUME IsFiniteSet(Operator), NEW w \in [Operator -> Int], NEW R \in SUBSET Operator
  PROVE  SumOf(w, R) \in Int
<1> DEFINE F == {S \in SUBSET Operator : SumOf(w, S) \in Int}
<1>1. ASSUME NEW S \in SUBSET Operator, \A T \in SUBSET S : T # S => T \in F
      PROVE  S \in F
  <2>1. CASE S = {}
    BY <2>1, SumUnfolds, SMTT(30)
  <2>2. CASE S # {}
    <3>1. PICK o \in S : SumOf(w, S) = w[o] + SumOf(w, S \ {o})
      BY <2>2, SumUnfolds
    <3>2. S \ {o} \in F
      BY <1>1
    <3> QED
      BY <3>1, <3>2, SMTT(30)
  <2> QED
    BY <2>1, <2>2
<1>2. \A S \in SUBSET Operator : S \in F
  <2> HIDE DEF F
  <2> QED
    BY <1>1, SubsetInduction
<1> QED
  BY <1>2

\* Any operator of the set may be the one that is split off.
LEMMA SumSplits ==
  ASSUME IsFiniteSet(Operator), NEW w \in [Operator -> Int], NEW R \in SUBSET Operator,
         NEW x \in R
  PROVE  SumOf(w, R) = w[x] + SumOf(w, R \ {x})
<1> DEFINE F == {S \in SUBSET Operator :
                   \A y \in S : SumOf(w, S) = w[y] + SumOf(w, S \ {y})}
<1>1. ASSUME NEW S \in SUBSET Operator, \A T \in SUBSET S : T # S => T \in F, NEW y \in S
      PROVE  SumOf(w, S) = w[y] + SumOf(w, S \ {y})
  <2>1. PICK o \in S : SumOf(w, S) = w[o] + SumOf(w, S \ {o})
    BY SumUnfolds
  <2>2. CASE o # y
    <3>1. /\ S \ {o} \in SUBSET S /\ S \ {o} # S /\ y \in S \ {o}
          /\ S \ {y} \in SUBSET S /\ S \ {y} # S /\ o \in S \ {y}
          /\ (S \ {o}) \ {y} = (S \ {y}) \ {o}
      BY <2>2
    <3>2. SumOf(w, S \ {o}) = w[y] + SumOf(w, (S \ {o}) \ {y})
      BY <1>1, <3>1
    <3>3. SumOf(w, S \ {y}) = w[o] + SumOf(w, (S \ {y}) \ {o})
      BY <1>1, <3>1
    <3>4. SumOf(w, (S \ {o}) \ {y}) \in Int /\ w[o] \in Int /\ w[y] \in Int
      BY SumType
    <3>5. (S \ {o}) \ {y} = (S \ {y}) \ {o}
      BY <3>1
    <3>6. SumOf(w, (S \ {o}) \ {y}) = SumOf(w, (S \ {y}) \ {o})
      BY <3>5
    <3> QED
      BY <2>1, <3>2, <3>3, <3>4, <3>6, SMTT(30)
  <2> QED
    BY <2>1, <2>2
<1>2. \A S \in SUBSET Operator : (\A T \in SUBSET S : T # S => T \in F) => S \in F
  BY <1>1
<1>3. \A S \in SUBSET Operator : S \in F
  <2> HIDE DEF F
  <2> QED
    BY <1>2, SubsetInduction
<1> QED
  BY <1>3

\* A sum grows with its terms.
LEMMA SumGrows ==
  ASSUME IsFiniteSet(Operator), NEW w \in [Operator -> Int], NEW v \in [Operator -> Int],
         NEW R \in SUBSET Operator, \A o \in R : w[o] <= v[o]
  PROVE  SumOf(w, R) <= SumOf(v, R)
<1> DEFINE F == {S \in SUBSET Operator :
                   S \subseteq R => SumOf(w, S) <= SumOf(v, S)}
<1>1. ASSUME NEW S \in SUBSET Operator, \A T \in SUBSET S : T # S => T \in F, S \subseteq R
      PROVE  SumOf(w, S) <= SumOf(v, S)
  <2>1. CASE S = {}
    BY <2>1, SumUnfolds, SMTT(30)
  <2>2. CASE S # {}
    <3>1. PICK o \in S : SumOf(w, S) = w[o] + SumOf(w, S \ {o})
      BY <2>2, SumUnfolds
    <3>2. SumOf(v, S) = v[o] + SumOf(v, S \ {o})
      BY SumSplits, SMTT(30)
    <3>3. SumOf(w, S \ {o}) <= SumOf(v, S \ {o})
      BY <1>1
    <3>4. /\ SumOf(w, S \ {o}) \in Int /\ SumOf(v, S \ {o}) \in Int
          /\ w[o] \in Int /\ v[o] \in Int /\ w[o] <= v[o]
      BY <1>1, SumType
    <3> QED
      BY <3>1, <3>2, <3>3, <3>4, SMTT(30)
  <2> QED
    BY <2>1, <2>2
<1>2. \A S \in SUBSET Operator : (\A T \in SUBSET S : T # S => T \in F) => S \in F
  BY <1>1
<1>3. \A S \in SUBSET Operator : S \in F
  <2> HIDE DEF F
  <2> QED
    BY <1>2, SubsetInduction
<1> QED
  BY <1>3

\* It is a matter of its terms only.
LEMMA SumAgrees ==
  ASSUME IsFiniteSet(Operator), NEW w \in [Operator -> Int], NEW v \in [Operator -> Int],
         NEW R \in SUBSET Operator, \A o \in R : w[o] = v[o]
  PROVE  SumOf(w, R) = SumOf(v, R)
<1>1. \A o \in R : w[o] <= v[o] /\ v[o] <= w[o]
  BY SMTT(30)
<1>2. SumOf(w, R) <= SumOf(v, R) /\ SumOf(v, R) <= SumOf(w, R)
  BY <1>1, SumGrows
<1>3. SumOf(w, R) \in Int /\ SumOf(v, R) \in Int
  BY SumType
<1> QED
  BY <1>2, <1>3, SMTT(30)

\* One term changes.
LEMMA SumChanges ==
  ASSUME IsFiniteSet(Operator), NEW w \in [Operator -> Int], NEW v \in [Operator -> Int],
         NEW x \in Operator, \A o \in Operator \ {x} : w[o] = v[o]
  PROVE  SumOf(v, Operator) = SumOf(w, Operator) - w[x] + v[x]
<1>1. /\ SumOf(w, Operator) = w[x] + SumOf(w, Operator \ {x})
      /\ SumOf(v, Operator) = v[x] + SumOf(v, Operator \ {x})
  BY SumSplits, SMTT(30)
<1>2. SumOf(w, Operator \ {x}) = SumOf(v, Operator \ {x})
  BY SumAgrees
<1>3. SumOf(w, Operator \ {x}) \in Int /\ w[x] \in Int /\ v[x] \in Int
  BY SumType
<1> QED
  BY <1>1, <1>2, <1>3, SMTT(30)

\* What is left out was positive, or nothing.
LEMMA SumOfPart ==
  ASSUME IsFiniteSet(Operator), NEW w \in [Operator -> Int],
         NEW R \in SUBSET Operator, NEW Q \in SUBSET R, \A o \in R \ Q : 0 <= w[o]
  PROVE  /\ SumOf(w, Q) <= SumOf(w, R)
         /\ (\A o \in R \ Q : w[o] = 0) => SumOf(w, Q) = SumOf(w, R)
<1> DEFINE F == {S \in SUBSET Operator :
                   Q \subseteq S /\ S \subseteq R =>
                     /\ SumOf(w, Q) <= SumOf(w, S)
                     /\ (\A o \in R \ Q : w[o] = 0) => SumOf(w, Q) = SumOf(w, S)}
<1>1. ASSUME NEW S \in SUBSET Operator, \A T \in SUBSET S : T # S => T \in F,
             Q \subseteq S, S \subseteq R
      PROVE  /\ SumOf(w, Q) <= SumOf(w, S)
             /\ (\A o \in R \ Q : w[o] = 0) => SumOf(w, Q) = SumOf(w, S)
  <2>0. SumOf(w, Q) \in Int
    BY SumType
  <2>1. CASE S = Q
    BY <2>0, <2>1, SMTT(30)
  <2>2. CASE S # Q
    <3>1. PICK o \in S : o \notin Q
      BY <1>1, <2>2
    <3>2. SumOf(w, S) = w[o] + SumOf(w, S \ {o})
      BY SumSplits
    <3>3. S \ {o} \in F
      BY <1>1
    <3>4. SumOf(w, S \ {o}) \in Int /\ w[o] \in Int /\ 0 <= w[o]
      BY <1>1, <3>1, SumType
    <3> QED
      BY <1>1, <2>0, <3>1, <3>2, <3>3, <3>4, SMTT(30)
  <2> QED
    BY <2>1, <2>2
<1>2. \A S \in SUBSET Operator : (\A T \in SUBSET S : T # S => T \in F) => S \in F
  BY <1>1
<1>3. \A S \in SUBSET Operator : S \in F
  <2> HIDE DEF F
  <2> QED
    BY <1>2, SubsetInduction
<1> QED
  BY <1>3
-----------------------------------------------------------------------------
\* The steps of an operator at which its bytes are in the usage of a tracker,
Charged(pc, o, t) ==
  \/ t = Of[o] /\ pc \in {"parent", "undoRoot", "undo", "force"} \cup Holding
  \/ t = Root /\ pc \in {"undoRoot", "release"} \cup Holding

\* at which they will stay there until they are released,
Kept(pc, o, t) ==
  \/ t = Of[o] /\ pc \in {"force"} \cup Holding
  \/ t = Root /\ pc \in Holding

\* or may be rolled back,
Undecided(pc, o, t) == t = Of[o] /\ pc = "parent"

\* and at which the tracker's peak is still to be raised.
Pending(pc, o, t) ==
  \/ t = Of[o] /\ pc \in {"parent", "force", "loadRoot", "casRoot", "loadChild", "casChild"}
  \/ t = Root /\ pc \in {"loadRoot", "casRoot"}

\* The usage that the operator's own addition led to.
Saw(r, t) == IF t = Root THEN r.root ELSE r.child

\* What an operator whose call is r adds to the usage of t, to its census of bytes
\* forced for a purpose, and to what was admitted.
Owes(r, o, t) == IF Charged(r.pc, o, t) THEN r.n ELSE 0
Forces(r, o, t) == IF r.forced /\ o \notin Bare THEN Owes(r, o, t) ELSE 0
Admitted(r, o, t) ==
  IF ~ r.forced /\ (Kept(r.pc, o, t) \/ Undecided(r.pc, o, t)) THEN r.n ELSE 0

\* The same for all, if their calls are p.
Amounts(p) == [o \in Operator |-> p[o].n]
Owing(p, t) == [o \in Operator |-> Owes(p[o], o, t)]
Forcing(p, t) == [o \in Operator |-> Forces(p[o], o, t)]
Admitting(p, t) == [o \in Operator |-> Admitted(p[o], o, t)]

Reservation ==
  [pc : {"idle", "parent", "undoRoot", "undo", "refused", "force", "release"}
          \cup Holding,
   n : Nat, forced : BOOLEAN, child : Int, root : Int, cur : Int]

MemoryTypes ==
  /\ used \in [Tracker -> Int] /\ forced \in [Tracker -> Int]
  /\ peak \in [Tracker -> Int]
  /\ op \in [Operator -> Reservation]

\* What is being reserved is not forced, and a CAS raises the peak.
Sound(r) ==
  /\ r.pc \in {"parent", "undoRoot", "undo", "refused"} => ~ r.forced
  /\ r.pc = "force" => r.forced
  /\ r.pc = "casRoot" => r.root > r.cur
  /\ r.pc = "casChild" => r.child > r.cur

\* The usage and the census of each tracker are what the operators have added.
Accounts ==
  \A t \in Tracker : /\ used[t] = SumOf(Owing(op, t), Operator)
                            /\ forced[t] = SumOf(Forcing(op, t), Operator)

\* What was admitted fits, with what the parent has not admitted yet.
Fits == \A t \in Tracker : SumOf(Admitting(op, t), Operator) <= Budget

\* The sets of operators that may hold bytes of t, however the undecided end.
Outcomes(p, t) ==
  {S \in SUBSET Operator :
     \A o \in Operator : /\ Kept(p[o].pc, o, t) => o \in S
                         /\ o \in S => Kept(p[o].pc, o, t) \/ Undecided(p[o].pc, o, t)}

\* The peak covers every one of them, or one of its operators will see to it.
Covered(t) ==
  \A S \in Outcomes(op, t) :
    \/ SumOf(Amounts(op), S) <= peak[t]
    \/ \E o \in S : /\ Pending(op[o].pc, o, t)
                     /\ SumOf(Amounts(op), S) <= Saw(op[o], t)

\* The inductive invariant.
MemoryInv ==
  /\ MemoryTypes /\ (\A o \in Operator : Sound(op[o])) /\ Accounts /\ Fits
  /\ \A t \in Tracker : Covered(t)

\* A step of operator o, whose call becomes r: the usage and the census follow.
Moves(o, r) ==
  /\ r \in Reservation /\ op' = [op EXCEPT ![o] = r]
  /\ used' \in [Tracker -> Int] /\ forced' \in [Tracker -> Int]
  /\ \A t \in Tracker :
       /\ used'[t] = used[t] - Owes(op[o], o, t) + Owes(r, o, t)
       /\ forced'[t] = forced[t] - Forces(op[o], o, t) + Forces(r, o, t)

\* It may enter the outcomes of t with the usage that it saw, leave them when its
\* peak is raised or it was undecided, or stay.
Enters(o, r, t) ==
  /\ Saw(r, t) = used'[t] /\ Pending(r.pc, o, t)
  /\ ~ Kept(op[o].pc, o, t)
Leaves(o, r, t) ==
  /\ ~ Kept(r.pc, o, t) /\ ~ Undecided(r.pc, o, t)
  /\ Kept(op[o].pc, o, t) => ~ Pending(op[o].pc, o, t)
Remains(o, r, t) ==
  /\ Kept(op[o].pc, o, t) \/ Undecided(op[o].pc, o, t)
  /\ Kept(r.pc, o, t) /\ r.n = op[o].n /\ Saw(r, t) = Saw(op[o], t)
  /\ \/ Pending(r.pc, o, t) \/ ~ Pending(op[o].pc, o, t)
     \/ Saw(r, t) <= peak'[t]

\* The terms of the sums.
LEMMA Terms ==
  ASSUME NEW p \in [Operator -> Reservation], NEW t
  PROVE  /\ Owing(p, t) \in [Operator -> Int] /\ Forcing(p, t) \in [Operator -> Int]
         /\ Admitting(p, t) \in [Operator -> Int]
         /\ Amounts(p) \in [Operator -> Int]
         /\ \A o \in Operator : /\ 0 <= Amounts(p)[o] /\ 0 <= Owing(p, t)[o]
                                /\ Admitting(p, t)[o] <= Owing(p, t)[o]
<1>1. \A o \in Operator : p[o] \in Reservation /\ p[o].n \in Nat
  BY DEF Reservation
<1>2. \A o \in Operator : /\ Owes(p[o], o, t) \in Nat /\ Forces(p[o], o, t) \in Int
                          /\ Admitted(p[o], o, t) \in Int
                          /\ Admitted(p[o], o, t) <= Owes(p[o], o, t)
  BY <1>1, SMTT(30) DEF Owes, Forces, Admitted, Charged, Kept, Undecided
<1> QED
  BY <1>1, <1>2, SMTT(30) DEF Owing, Forcing, Admitting, Amounts

\* What an outcome would hold is in the usage.
LEMMA OutcomeFits ==
  ASSUME IsFiniteSet(Operator), NEW p \in [Operator -> Reservation], NEW t,
         NEW S \in Outcomes(p, t)
  PROVE  SumOf(Amounts(p), S) <= SumOf(Owing(p, t), Operator)
<1>1. /\ Amounts(p) \in [Operator -> Int] /\ Owing(p, t) \in [Operator -> Int]
      /\ \A o \in Operator : 0 <= Owing(p, t)[o]
  BY Terms
<1>2. S \in SUBSET Operator
  BY DEF Outcomes
<1>3. \A o \in S : Amounts(p)[o] = Owing(p, t)[o]
  BY <1>2 DEF Outcomes, Amounts, Owing, Owes, Charged, Kept, Undecided
<1>4. SumOf(Amounts(p), S) = SumOf(Owing(p, t), S)
  BY <1>1, <1>2, <1>3, SumAgrees
<1>5. SumOf(Owing(p, t), S) <= SumOf(Owing(p, t), Operator)
  BY <1>1, <1>2, SumOfPart
<1> QED
  BY <1>4, <1>5

\* The usage, the census and what was admitted.
LEMMA AccountsKeep ==
  ASSUME IsFiniteSet(Operator), Budget \in Nat, MemoryInv, MemoryTypes',
         NEW o \in Operator, NEW r, Moves(o, r), NEW t \in Tracker,
         \/ Admitted(r, o, t) <= Admitted(op[o], o, t)
         \/ used'[t] <= Budget
  PROVE  /\ used'[t] = SumOf(Owing(op', t), Operator)
         /\ forced'[t] = SumOf(Forcing(op', t), Operator)
         /\ SumOf(Admitting(op', t), Operator) <= Budget
<1> DEFINE w == Owing(op, t) v == Owing(op', t)
           f == Forcing(op, t) g == Forcing(op', t)
           a == Admitting(op, t) b == Admitting(op', t)
<1>1. /\ w \in [Operator -> Int] /\ f \in [Operator -> Int] /\ a \in [Operator -> Int]
      /\ v \in [Operator -> Int] /\ g \in [Operator -> Int] /\ b \in [Operator -> Int]
      /\ \A d \in Operator : b[d] <= v[d]
  BY Terms DEF MemoryInv, MemoryTypes
<1>2. /\ op'[o] = r /\ \A d \in Operator \ {o} : op'[d] = op[d]
  BY DEF Moves, MemoryInv, MemoryTypes
<1>3. /\ \A d \in Operator \ {o} : w[d] = v[d] /\ f[d] = g[d] /\ a[d] = b[d]
      /\ w[o] = Owes(op[o], o, t) /\ v[o] = Owes(r, o, t)
      /\ f[o] = Forces(op[o], o, t) /\ g[o] = Forces(r, o, t)
      /\ a[o] = Admitted(op[o], o, t) /\ b[o] = Admitted(r, o, t)
  BY <1>2 DEF Owing, Forcing, Admitting
<1>4. /\ used[t] = SumOf(w, Operator) /\ forced[t] = SumOf(f, Operator)
      /\ SumOf(a, Operator) <= Budget
  BY DEF MemoryInv, Accounts, Fits
<1> HIDE DEF w, v, f, g, a, b
<1>6. SumOf(v, Operator) = SumOf(w, Operator) - w[o] + v[o]
  BY <1>1, <1>3, SumChanges
<1>7. SumOf(g, Operator) = SumOf(f, Operator) - f[o] + g[o]
  BY <1>1, <1>3, SumChanges
<1>8. used'[t] = SumOf(v, Operator) /\ forced'[t] = SumOf(g, Operator)
  BY <1>3, <1>4, <1>6, <1>7 DEF Moves
<1>9. SumOf(b, Operator) <= Budget
  <2>1. CASE used'[t] <= Budget
    <3>1. SumOf(b, Operator) <= SumOf(v, Operator)
      BY <1>1, SumGrows
    <3>2. SumOf(b, Operator) \in Int /\ SumOf(v, Operator) \in Int
      BY <1>1, SumType
    <3> QED
      BY <1>8, <2>1, <3>1, <3>2, SMTT(30)
  <2>2. CASE Admitted(r, o, t) <= Admitted(op[o], o, t)
    <3>1. \A d \in Operator : b[d] <= a[d]
      BY <1>1, <1>3, <2>2, SMTT(30)
    <3>2. SumOf(b, Operator) <= SumOf(a, Operator)
      BY <1>1, <3>1, SumGrows
    <3>3. SumOf(b, Operator) \in Int /\ SumOf(a, Operator) \in Int
      BY <1>1, SumType
    <3> QED
      BY <1>4, <3>2, <3>3, SMTT(30)
  <2> QED
    BY <2>1, <2>2
<1> QED
  BY <1>8, <1>9 DEF v, g, b

\* The peak.
LEMMA CoverKeeps ==
  ASSUME IsFiniteSet(Operator), MemoryInv, MemoryTypes', NEW o \in Operator, NEW r,
         Moves(o, r), NEW t \in Tracker, Of[o] # Root,
         used'[t] = SumOf(Owing(op', t), Operator),
         peak[t] <= peak'[t],
         Enters(o, r, t) \/ Leaves(o, r, t) \/ Remains(o, r, t)
  PROVE  Covered(t)'
<1> DEFINE w == Amounts(op)
           v == Amounts(op')
<1>1. /\ w \in [Operator -> Int] /\ v \in [Operator -> Int]
      /\ \A d \in Operator : 0 <= w[d]
  BY Terms DEF MemoryInv, MemoryTypes
<1>2. op'[o] = r /\ \A d \in Operator \ {o} : op'[d] = op[d] /\ v[d] = w[d]
  BY DEF Moves, MemoryInv, MemoryTypes, Amounts
<1>n. v[o] = r.n /\ w[o] = op[o].n
  BY <1>2 DEF Amounts
<1>p. peak[t] \in Int /\ peak'[t] \in Int
  BY DEF MemoryInv, MemoryTypes
<1> HIDE DEF w, v
<1> SUFFICES ASSUME NEW S \in Outcomes(op', t)
             PROVE  \/ SumOf(v, S) <= peak'[t]
                    \/ \E d \in S : /\ Pending(op'[d].pc, d, t)
                                    /\ SumOf(v, S) <= Saw(op'[d], t)
  BY DEF Covered, v
<1>3. /\ S \in SUBSET Operator
      /\ \A d \in Operator :
           /\ Kept(op'[d].pc, d, t) => d \in S
           /\ d \in S => Kept(op'[d].pc, d, t) \/ Undecided(op'[d].pc, d, t)
  BY DEF Outcomes
<1>4. ASSUME NEW T \in Outcomes(op, t)
      PROVE  /\ T \in SUBSET Operator
             /\ \/ SumOf(w, T) <= peak[t]
                \/ \E d \in T : Pending(op[d].pc, d, t) /\ SumOf(w, T) <= Saw(op[d], t)
  BY DEF MemoryInv, Covered, Outcomes, w
<1>5. CASE o \in S /\ Enters(o, r, t)
  <2>2. SumOf(v, S) <= used'[t]
    BY OutcomeFits DEF v, MemoryTypes
  <2> QED
    BY <1>2, <1>5, <2>2 DEF Enters
<1>6. CASE o \notin S /\ ~ Kept(op[o].pc, o, t)
  <2>1. S \in Outcomes(op, t)
    BY <1>2, <1>3, <1>6 DEF Outcomes
  <2>2. SumOf(v, S) = SumOf(w, S)
    BY <1>1, <1>2, <1>3, <1>6, SumAgrees, SMTT(30)
  <2>3. CASE SumOf(w, S) <= peak[t]
    <3>1. SumOf(w, S) \in Int
      BY <1>1, <1>3, SumType
    <3> QED
      BY <1>p, <2>2, <2>3, <3>1, SMTT(30)
  <2>4. CASE \E d \in S : Pending(op[d].pc, d, t) /\ SumOf(w, S) <= Saw(op[d], t)
    BY <1>2, <1>3, <1>6, <2>2, <2>4
  <2> QED
    BY <1>4, <2>1, <2>3, <2>4
<1>7. CASE o \notin S /\ Kept(op[o].pc, o, t)
  <2> DEFINE T == S \cup {o}
  <2>0. ~ Pending(op[o].pc, o, t)
    BY <1>2, <1>3, <1>7 DEF Leaves, Remains, Enters
  <2>1. T \in Outcomes(op, t)
    BY <1>2, <1>3, <1>7 DEF Outcomes
  <2>2. SumOf(v, S) = SumOf(w, S)
    BY <1>1, <1>2, <1>3, <1>7, SumAgrees, SMTT(30)
  <2>3. SumOf(w, S) <= SumOf(w, T)
    BY <1>1, <1>3, SumOfPart
  <2>4. SumOf(w, S) \in Int /\ SumOf(w, T) \in Int
    BY <1>1, <1>3, SumType
  <2>5. CASE SumOf(w, T) <= peak[t]
    BY <1>p, <2>2, <2>3, <2>4, <2>5, SMTT(30)
  <2>6. CASE \E d \in T : Pending(op[d].pc, d, t) /\ SumOf(w, T) <= Saw(op[d], t)
    <3>1. PICK d \in T : Pending(op[d].pc, d, t) /\ SumOf(w, T) <= Saw(op[d], t)
      BY <2>6
    <3>2. d \in S /\ op'[d] = op[d] /\ Saw(op[d], t) \in Int
      BY <1>2, <1>3, <2>0, <3>1 DEF Saw, MemoryInv, MemoryTypes, Reservation
    <3> QED
      BY <2>2, <2>3, <2>4, <3>1, <3>2, SMTT(30)
  <2> QED
    BY <1>4, <2>1, <2>5, <2>6
<1>8. CASE o \in S /\ Remains(o, r, t)
  <2>1. S \in Outcomes(op, t)
    BY <1>2, <1>3, <1>8 DEF Outcomes, Remains
  <2>2. SumOf(v, S) = SumOf(w, S)
    BY <1>1, <1>2, <1>n, <1>3, <1>8, SumAgrees, SMTT(30) DEF Remains
  <2>3. SumOf(w, S) \in Int
    BY <1>1, <1>3, SumType
  <2>4. CASE SumOf(w, S) <= peak[t]
    BY <1>p, <2>2, <2>3, <2>4, SMTT(30)
  <2>5. CASE \E d \in S : Pending(op[d].pc, d, t) /\ SumOf(w, S) <= Saw(op[d], t)
    <3>1. PICK d \in S : Pending(op[d].pc, d, t) /\ SumOf(w, S) <= Saw(op[d], t)
      BY <2>5
    <3>2. CASE d # o
      BY <1>2, <1>3, <2>2, <3>1, <3>2
    <3>3. CASE d = o
      <4>1. SumOf(v, S) <= Saw(r, t)
        BY <1>8, <2>2, <3>1, <3>3 DEF Remains
      <4>2. CASE Pending(r.pc, o, t)
        BY <1>2, <1>8, <4>1, <4>2
      <4>3. CASE Saw(r, t) <= peak'[t]
        <5>1. Saw(r, t) \in Int
          BY DEF Saw, Moves, Reservation
        <5> QED
          BY <1>p, <2>2, <2>3, <4>1, <4>3, <5>1, SMTT(30)
      <4> QED
        BY <1>8, <3>1, <3>3, <4>2, <4>3 DEF Remains
    <3> QED
      BY <3>2, <3>3
  <2> QED
    BY <1>4, <2>1, <2>4, <2>5
<1>9. ~ (o \in S /\ Leaves(o, r, t))
  BY <1>2, <1>3 DEF Leaves
<1> QED
  BY <1>5, <1>6, <1>7, <1>8, <1>9

\* A step that moves one operator so keeps the invariant.
LEMMA MemoryMoves ==
  ASSUME MemoryInv, NEW o \in Operator, NEW r, Moves(o, r),
         Sound(r), peak' \in [Tracker -> Int],
         \A t \in Tracker :
           /\ peak[t] <= peak'[t]
           /\ \/ Admitted(r, o, t) <= Admitted(op[o], o, t)
              \/ used'[t] <= Budget
           /\ Enters(o, r, t) \/ Leaves(o, r, t) \/ Remains(o, r, t)
  PROVE  MemoryInv'
<1>0. IsFiniteSet(Operator) /\ Budget \in Nat /\ Of[o] # Root
  BY TrackerAssumption
<1>1. MemoryTypes'
  BY DEF MemoryInv, MemoryTypes, Moves
<1>2. \A d \in Operator : Sound(op'[d])
  BY DEF Moves, MemoryInv, MemoryTypes
<1>3. Accounts' /\ Fits'
  BY <1>0, <1>1, AccountsKeep DEF Accounts, Fits, Tracker
<1>4. ASSUME NEW t \in Tracker PROVE Covered(t)'
  <2>1. used'[t] = SumOf(Owing(op', t), Operator)
    BY <1>3 DEF Accounts, Tracker
  <2> QED
    BY <1>0, <1>1, <2>1, CoverKeeps
<1> QED
  BY <1>1, <1>2, <1>3, <1>4 DEF MemoryInv, Sound, Tracker
-----------------------------------------------------------------------------
\* The tracker an operator charges and its parent.
LEMMA TwoTrackers ==
  ASSUME NEW o \in Operator
  PROVE  /\ Of[o] \in Tracker /\ Root \in Tracker /\ Of[o] # Root
         /\ Budget \in Nat
BY TrackerAssumption DEF Tracker

\* A call as a record.
LEMMA Calls ==
  ASSUME MemoryInv, NEW o \in Operator
  PROVE  /\ op[o] \in Reservation /\ op[o].n \in Nat /\ op[o].forced \in BOOLEAN
         /\ op[o].child \in Int /\ op[o].root \in Int /\ op[o].cur \in Int
         /\ Sound(op[o])
         /\ DOMAIN op = Operator
BY DEF MemoryInv, MemoryTypes, Reservation

\* Adding to the usage of u.
LEMMA Adding ==
  ASSUME NEW f \in [Tracker -> Int], NEW g, NEW u \in Tracker, NEW d \in Int,
         g = [f EXCEPT ![u] = @ + d]
  PROVE  /\ g \in [Tracker -> Int] /\ g[u] = f[u] + d
         /\ \A t \in Tracker \ {u} : g[t] = f[t]
BY SMTT(30)

\* Reserve on the child.
LEMMA ChargeKeeps ==
  ASSUME MemoryInv, NEW o \in Operator, NEW n \in Nat,
         op[o].pc \in {"idle", "refused"}, Charge(o, n)
  PROVE  MemoryInv'
<1> DEFINE r == op'[o]
<1>0. /\ Of[o] \in Tracker /\ Root \in Tracker /\ Of[o] # Root /\ Budget \in Nat
  BY TwoTrackers
<1>1. /\ used \in [Tracker -> Int] /\ used[Of[o]] \in Int
      /\ peak \in [Tracker -> Int] /\ peak' = peak
      /\ forced \in [Tracker -> Int] /\ forced' = forced
  BY <1>0 DEF MemoryInv, MemoryTypes, Charge, census
<1>2. /\ used' \in [Tracker -> Int] /\ used'[Of[o]] = used[Of[o]] + n
      /\ \A t \in Tracker \ {Of[o]} : used'[t] = used[t]
  BY <1>0, <1>1, Adding, SMTT(30) DEF Charge, Add
<1>3. \/ /\ used'[Of[o]] <= Budget
         /\ r = [pc |-> "parent", n |-> n, forced |-> FALSE, child |-> used'[Of[o]],
                 root |-> 0, cur |-> 0]
         /\ op' = [op EXCEPT ![o] = r]
      \/ /\ r = [pc |-> "undo", n |-> n, forced |-> FALSE, child |-> 0, root |-> 0, cur |-> 0]
         /\ op' = [op EXCEPT ![o] = r]
  <2>1. op' = [op EXCEPT ![o] = r] /\ DOMAIN op = Operator
    BY Calls DEF Charge
  <2>2. CASE /\ Admits(Of[o], n)
             /\ op' = [op EXCEPT ![o] = [Idle EXCEPT !.pc = "parent", !.n = n,
                                                   !.child = used[Of[o]] + n]]
    <3>1. r = [Idle EXCEPT !.pc = "parent", !.n = n, !.child = used'[Of[o]]]
      BY <1>2, <2>1, <2>2
    <3>2. r = [pc |-> "parent", n |-> n, forced |-> FALSE, child |-> used'[Of[o]],
               root |-> 0, cur |-> 0]
      BY <3>1 DEF Idle
    <3> QED
      BY <1>2, <2>1, <2>2, <3>2 DEF Admits
  <2>3. CASE op' = [op EXCEPT ![o] = [Idle EXCEPT !.pc = "undo", !.n = n]]
    <3>1. r = [Idle EXCEPT !.pc = "undo", !.n = n]
      BY <2>1, <2>3
    <3>2. r = [pc |-> "undo", n |-> n, forced |-> FALSE, child |-> 0, root |-> 0, cur |-> 0]
      BY <3>1 DEF Idle
    <3> QED
      BY <2>1, <3>2
  <2> QED
    BY <2>2, <2>3 DEF Charge
<1> HIDE DEF r
<1>4. r \in Reservation /\ Sound(r) /\ op' = [op EXCEPT ![o] = r]
  <2>1. used'[Of[o]] \in Int /\ 0 \in Int /\ FALSE \in BOOLEAN
    BY <1>0, <1>2, SMTT(30)
  <2>2. \A c \in Int : /\ [pc |-> "parent", n |-> n, forced |-> FALSE, child |-> c,
                            root |-> 0, cur |-> 0] \in Reservation
                       /\ [pc |-> "undo", n |-> n, forced |-> FALSE, child |-> c,
                            root |-> 0, cur |-> 0] \in Reservation
    BY SMTT(30) DEF Reservation
  <2>3. r \in Reservation
    BY <1>3, <2>1, <2>2
  <2>4. ~ r.forced /\ r.pc \notin {"casRoot", "casChild", "force"}
    BY <1>3, SMTT(30)
  <2> QED
    BY <1>3, <2>3, <2>4 DEF Sound
<1>5. /\ \A t : ~ Charged(op[o].pc, o, t) /\ ~ Kept(op[o].pc, o, t)
      /\ Charged(r.pc, o, Of[o]) /\ ~ Charged(r.pc, o, Root)
      /\ \A t \in Tracker \ {Of[o]} :
           ~ Charged(r.pc, o, t) /\ ~ Kept(r.pc, o, t) /\ ~ Undecided(r.pc, o, t)
      /\ r.n = n /\ r.forced = FALSE
  BY <1>0, <1>3, SMTT(30) DEF Charged, Kept, Undecided, Holding
<1>6. Moves(o, r)
  BY <1>1, <1>2, <1>4, <1>5, SMTT(30) DEF Moves, Owes, Forces
<1>7. ASSUME NEW t \in Tracker
      PROVE  /\ \/ Admitted(r, o, t) <= Admitted(op[o], o, t)
                \/ used'[t] <= Budget
             /\ Enters(o, r, t) \/ Leaves(o, r, t)
  <2>1. CASE t # Of[o]
    BY <1>5, <2>1, Calls, SMTT(30) DEF Admitted, Leaves
  <2>2. CASE t = Of[o] /\ r.pc = "parent"
    BY <1>0, <1>3, <1>5, <2>2, SMTT(30) DEF Enters, Saw, Pending
  <2>3. CASE t = Of[o] /\ r.pc = "undo"
    <3>1. ~ Kept(r.pc, o, t) /\ ~ Undecided(r.pc, o, t)
      BY <1>0, <2>3 DEF Kept, Undecided, Holding
    <3> QED
      BY <1>5, <3>1, Calls, SMTT(30) DEF Admitted, Leaves
  <2> QED
    BY <1>3, <2>1, <2>2, <2>3, SMTT(30)
<1>8. \A t \in Tracker : peak[t] <= peak'[t]
  BY <1>1, SMTT(30)
<1> QED
  BY <1>1, <1>4, <1>6, <1>7, <1>8, MemoryMoves

\* What a step of o, whose call becomes r, does to a tracker.
Keeps(o, r, t) ==
  /\ used'[t] = used[t] - Owes(op[o], o, t) + Owes(r, o, t)
  /\ forced'[t] = forced[t] - Forces(op[o], o, t) + Forces(r, o, t)
  /\ peak[t] <= peak'[t]
  /\ \/ Admitted(r, o, t) <= Admitted(op[o], o, t)
     \/ used'[t] <= Budget
  /\ Enters(o, r, t) \/ Leaves(o, r, t) \/ Remains(o, r, t)

\* It has to be shown of two trackers.
LEMMA MemoryKeeps ==
  ASSUME MemoryInv, NEW o \in Operator, NEW r \in Reservation,
         Sound(r), op' = [op EXCEPT ![o] = r],
         used' \in [Tracker -> Int], forced' \in [Tracker -> Int],
         peak' \in [Tracker -> Int],
         \A t \in Tracker \ {Of[o], Root} :
           used'[t] = used[t] /\ forced'[t] = forced[t] /\ peak'[t] = peak[t],
         Keeps(o, r, Of[o]), Keeps(o, r, Root)
  PROVE  MemoryInv'
<1>1. ASSUME NEW t \in Tracker PROVE Keeps(o, r, t)
  <2>1. CASE t \notin {Of[o], Root}
    <3>1. \A pc : ~ Charged(pc, o, t) /\ ~ Kept(pc, o, t) /\ ~ Undecided(pc, o, t)
      BY <2>1 DEF Charged, Kept, Undecided
    <3>2. Owes(op[o], o, t) = 0 /\ Forces(op[o], o, t) = 0 /\ Admitted(op[o], o, t) = 0
      BY <3>1 DEF Owes, Forces, Admitted
    <3>3. Owes(r, o, t) = 0 /\ Forces(r, o, t) = 0 /\ Admitted(r, o, t) = 0
      BY <3>1 DEF Owes, Forces, Admitted
    <3>4. /\ used[t] \in Int /\ forced[t] \in Int /\ peak[t] \in Int
          /\ used'[t] = used[t] /\ forced'[t] = forced[t] /\ peak'[t] = peak[t]
      BY <2>1 DEF MemoryInv, MemoryTypes
    <3>5. Leaves(o, r, t)
      BY <3>1 DEF Leaves
    <3>6. /\ used'[t] = used[t] - Owes(op[o], o, t) + Owes(r, o, t)
          /\ forced'[t] = forced[t] - Forces(op[o], o, t) + Forces(r, o, t)
          /\ peak[t] <= peak'[t]
          /\ Admitted(r, o, t) <= Admitted(op[o], o, t)
      BY <3>2, <3>3, <3>4, SMTT(30)
    <3> QED
      BY <3>5, <3>6 DEF Keeps
  <2> QED
    BY <2>1
<1>2. Moves(o, r)
  BY <1>1 DEF Moves, Keeps
<1> QED
  BY <1>1, <1>2, MemoryMoves DEF Keeps

\* The records of calls.
LEMMA Records ==
  ASSUME NEW pc \in {"idle", "parent", "undoRoot", "undo", "refused", "force", "release"}
                      \cup Holding,
         NEW n \in Nat, NEW f \in BOOLEAN, NEW c \in Int, NEW d \in Int, NEW e \in Int
  PROVE  [pc |-> pc, n |-> n, forced |-> f, child |-> c, root |-> d, cur |-> e] \in Reservation
BY DEF Reservation

\* A step that adds d to the usage of u, e to its census, and leaves the peaks alone.
Shifts(o, u, d, e) ==
  /\ used' \in [Tracker -> Int] /\ forced' \in [Tracker -> Int]
  /\ peak' \in [Tracker -> Int]
  /\ \A t \in Tracker \ {Of[o], Root} :
       used'[t] = used[t] /\ forced'[t] = forced[t] /\ peak'[t] = peak[t]
  /\ \A t \in {Of[o], Root} :
       /\ used[t] \in Int /\ forced[t] \in Int /\ peak[t] \in Int
       /\ used'[t] = IF t = u THEN used[t] + d ELSE used[t]
       /\ forced'[t] = IF t = u THEN forced[t] + e ELSE forced[t]
       /\ peak'[t] = peak[t]

\* Add, and the census with it, is such a step.
LEMMA Shifting ==
  ASSUME MemoryInv, NEW o \in Operator, NEW u \in {Of[o], Root},
         NEW d \in Int, NEW e \in Int, UNCHANGED peak, Add(u, d),
         \/ forced' = [forced EXCEPT ![u] = @ + e]
         \/ e = 0 /\ UNCHANGED forced
  PROVE  Shifts(o, u, d, e)
<1>1. Of[o] \in Tracker /\ Root \in Tracker
  BY TwoTrackers
<1> QED
  BY <1>1, SMTT(30) DEF MemoryInv, MemoryTypes, Shifts, Add

\* The parent's Reserve.
LEMMA reserveParentKeeps ==
  ASSUME MemoryInv, NEW o \in Operator, reserveParent(o)
  PROVE  MemoryInv'
<1> DEFINE n == op[o].n
           r == op'[o]
<1>0. /\ Of[o] \in Tracker /\ Root \in Tracker /\ Of[o] # Root /\ Budget \in Nat
      /\ n \in Nat /\ op[o].forced \in BOOLEAN /\ op[o].pc = "parent" /\ ~ op[o].forced
  BY TwoTrackers, Calls DEF reserveParent, Sound
<1>1. Shifts(o, Root, n, 0)
  BY <1>0, Shifting, SMTT(30) DEF reserveParent, census
<1>2. /\ op' = [op EXCEPT ![o] = r]
      /\ \/ /\ used'[Root] <= Budget
            /\ r = [pc |-> "loadRoot", n |-> n, forced |-> op[o].forced,
                    child |-> op[o].child, root |-> used'[Root], cur |-> op[o].cur]
         \/ r = [pc |-> "undoRoot", n |-> n, forced |-> op[o].forced,
                 child |-> op[o].child, root |-> op[o].root, cur |-> op[o].cur]
  <2>1. /\ op[o] = [pc |-> op[o].pc, n |-> n, forced |-> op[o].forced,
                    child |-> op[o].child, root |-> op[o].root, cur |-> op[o].cur]
        /\ op \in [Operator -> Reservation]
    BY Calls DEF Reservation, MemoryInv, MemoryTypes
  <2>2. CASE /\ Admits(Root, n)
             /\ op' = [op EXCEPT ![o].pc = "loadRoot", ![o].root = used[Root] + n]
    BY <1>0, <1>1, <2>1, <2>2 DEF Admits, Shifts
  <2>3. CASE Goto(o, "undoRoot")
    BY <2>1, <2>3 DEF Goto
  <2> QED
    BY <2>2, <2>3 DEF reserveParent
<1> HIDE DEF n, r
<1>3. r \in Reservation
  <2>1. op[o].child \in Int /\ op[o].root \in Int /\ op[o].cur \in Int /\ used'[Root] \in Int
    BY <1>0, <1>1, Calls DEF Shifts
  <2>2. /\ [pc |-> "loadRoot", n |-> n, forced |-> op[o].forced, child |-> op[o].child,
            root |-> used'[Root], cur |-> op[o].cur] \in Reservation
        /\ [pc |-> "undoRoot", n |-> n, forced |-> op[o].forced, child |-> op[o].child,
            root |-> op[o].root, cur |-> op[o].cur] \in Reservation
    BY <1>0, <2>1, Records DEF Holding
  <2> QED
    BY <1>2, <2>2
<1>4. r.pc \in {"loadRoot", "undoRoot"} /\ r.n = n /\ ~ r.forced /\ Sound(r)
      /\ r.child = op[o].child
  <2>1. r.pc \in {"loadRoot", "undoRoot"} /\ r.n = n /\ ~ r.forced /\ r.child = op[o].child
    BY <1>0, <1>2, SMTT(30)
  <2> QED
    BY <1>0, <2>1 DEF Sound, n
<1>5. Keeps(o, r, Of[o])
  <2>1. /\ Charged(op[o].pc, o, Of[o]) /\ Charged(r.pc, o, Of[o])
        /\ Undecided(op[o].pc, o, Of[o]) /\ ~ Kept(op[o].pc, o, Of[o])
        /\ ~ Undecided(r.pc, o, Of[o])
        /\ r.pc = "loadRoot" => Kept(r.pc, o, Of[o]) /\ Pending(r.pc, o, Of[o])
        /\ r.pc = "undoRoot" => ~ Kept(r.pc, o, Of[o])
    BY <1>0, <1>4 DEF Charged, Kept, Undecided, Pending, Holding
  <2>2. /\ Owes(op[o], o, Of[o]) = n /\ Owes(r, o, Of[o]) = n
        /\ Forces(op[o], o, Of[o]) = 0 /\ Forces(r, o, Of[o]) = 0
        /\ Admitted(op[o], o, Of[o]) = n /\ Admitted(r, o, Of[o]) \in {0, n}
    BY <1>0, <1>4, <2>1 DEF n, Owes, Forces, Admitted
  <2>3. /\ used[Of[o]] \in Int /\ forced[Of[o]] \in Int /\ peak[Of[o]] \in Int
        /\ used'[Of[o]] = used[Of[o]] /\ forced'[Of[o]] = forced[Of[o]] /\ peak'[Of[o]] = peak[Of[o]]
    BY <1>0, <1>1 DEF Shifts
  <2>4. Leaves(o, r, Of[o]) \/ Remains(o, r, Of[o])
    BY <1>0, <1>4, <2>1 DEF n, Leaves, Remains, Saw
  <2> QED
    BY <1>0, <2>2, <2>3, <2>4, SMTT(30) DEF Keeps
<1>6. Keeps(o, r, Root)
  <2>1. /\ ~ Charged(op[o].pc, o, Root) /\ Charged(r.pc, o, Root)
        /\ ~ Undecided(op[o].pc, o, Root) /\ ~ Kept(op[o].pc, o, Root)
        /\ ~ Undecided(r.pc, o, Root)
        /\ r.pc = "loadRoot" => Kept(r.pc, o, Root) /\ Pending(r.pc, o, Root)
        /\ r.pc = "undoRoot" => ~ Kept(r.pc, o, Root)
    BY <1>0, <1>4 DEF Charged, Kept, Undecided, Pending, Holding
  <2>2. r.pc = "loadRoot" => r.root = used'[Root] /\ used'[Root] <= Budget
    BY <1>2, SMTT(30)
  <2>3. /\ Owes(op[o], o, Root) = 0 /\ Owes(r, o, Root) = n
        /\ Forces(op[o], o, Root) = 0 /\ Forces(r, o, Root) = 0
        /\ Admitted(op[o], o, Root) = 0 /\ (r.pc = "undoRoot" => Admitted(r, o, Root) = 0)
    BY <1>0, <1>4, <2>1 DEF n, Owes, Forces, Admitted
  <2>4. /\ used[Root] \in Int /\ forced[Root] \in Int /\ peak[Root] \in Int
        /\ used'[Root] = used[Root] + n /\ forced'[Root] = forced[Root] + 0 /\ peak'[Root] = peak[Root]
    BY <1>0, <1>1 DEF Shifts
  <2>5. Leaves(o, r, Root) \/ Enters(o, r, Root)
    BY <1>0, <1>4, <2>1, <2>2 DEF n, Leaves, Enters, Saw
  <2> QED
    BY <1>0, <1>4, <2>2, <2>3, <2>4, <2>5, SMTT(30) DEF Keeps
<1> QED
  BY <1>1, <1>2, <1>3, <1>4, <1>5, <1>6, MemoryKeeps DEF Shifts

\* The fields of a call before a step.
LEMMA Fields ==
  ASSUME MemoryInv, NEW o \in Operator
  PROVE  /\ op[o] = [pc |-> op[o].pc, n |-> op[o].n, forced |-> op[o].forced,
                     child |-> op[o].child, root |-> op[o].root, cur |-> op[o].cur]
         /\ op \in [Operator -> Reservation]
BY Calls DEF Reservation, MemoryInv, MemoryTypes

\* A call that only goes to its next step.
LEMMA Goes ==
  ASSUME MemoryInv, NEW o \in Operator,
         NEW pc \in {"idle", "parent", "undoRoot", "undo", "refused", "force", "release"}
                      \cup Holding,
         Goto(o, pc)
  PROVE  /\ op'[o] \in Reservation /\ op' = [op EXCEPT ![o] = op'[o]]
         /\ op'[o].pc = pc /\ op'[o].n = op[o].n /\ op'[o].forced = op[o].forced
         /\ op'[o].child = op[o].child /\ op'[o].root = op[o].root /\ op'[o].cur = op[o].cur
<1>1. /\ op' = [op EXCEPT ![o] = op'[o]]
      /\ op'[o] = [pc |-> pc, n |-> op[o].n, forced |-> op[o].forced,
                   child |-> op[o].child, root |-> op[o].root, cur |-> op[o].cur]
  <2>1. op'[o] = [op[o] EXCEPT !.pc = pc] /\ op' = [op EXCEPT ![o] = op'[o]]
    BY Fields DEF Goto
  <2>2. op'[o] = [pc |-> pc, n |-> op[o].n, forced |-> op[o].forced,
                  child |-> op[o].child, root |-> op[o].root, cur |-> op[o].cur]
    BY <2>1, Fields
  <2> QED
    BY <2>1, <2>2
<1>2. op'[o] \in Reservation
  <2>1. /\ op[o].n \in Nat /\ op[o].forced \in BOOLEAN
        /\ op[o].child \in Int /\ op[o].root \in Int /\ op[o].cur \in Int
    BY Calls
  <2>2. [pc |-> pc, n |-> op[o].n, forced |-> op[o].forced, child |-> op[o].child,
         root |-> op[o].root, cur |-> op[o].cur] \in Reservation
    BY <2>1, Records
  <2> QED
    BY <1>1, <2>2
<1>3. /\ op'[o].pc = pc /\ op'[o].n = op[o].n /\ op'[o].forced = op[o].forced
      /\ op'[o].child = op[o].child /\ op'[o].root = op[o].root /\ op'[o].cur = op[o].cur
  BY <1>1, SMTT(30)
<1> QED
  BY <1>1, <1>2, <1>3

\* A step that takes the bytes of o out of u again.
LEMMA GivesBack ==
  ASSUME MemoryInv, NEW o \in Operator, NEW r \in Reservation, Sound(r),
         op' = [op EXCEPT ![o] = r], NEW u \in {Of[o], Root}, Add(u, - op[o].n),
         UNCHANGED peak,
         \/ forced' = [forced EXCEPT ![u] = IF op[o].forced /\ o \notin Bare
                                             THEN @ - op[o].n ELSE @]
         \/ ~ op[o].forced /\ UNCHANGED forced,
         \A t \in {Of[o], Root} :
           /\ Charged(op[o].pc, o, t) <=> t = u \/ Charged(r.pc, o, t)
           /\ Charged(r.pc, o, t) => t # u /\ r.n = op[o].n /\ r.forced = op[o].forced
           /\ ~ Kept(r.pc, o, t) /\ ~ Undecided(r.pc, o, t)
           /\ ~ (Kept(op[o].pc, o, t) /\ Pending(op[o].pc, o, t))
  PROVE  MemoryInv'
<1> DEFINE n == op[o].n
<1>0. /\ Of[o] \in Tracker /\ Root \in Tracker /\ n \in Nat /\ op[o].forced \in BOOLEAN
  BY TwoTrackers, Calls
<1>1. /\ used \in [Tracker -> Int] /\ used' \in [Tracker -> Int]
      /\ peak \in [Tracker -> Int] /\ peak' = peak
      /\ \A t \in Tracker : used'[t] = IF t = u THEN used[t] - n ELSE used[t]
  BY <1>0, SMTT(30) DEF MemoryInv, MemoryTypes, Add
<1>2. /\ forced \in [Tracker -> Int] /\ forced' \in [Tracker -> Int]
      /\ \A t \in Tracker :
           forced'[t] = IF t = u /\ op[o].forced /\ o \notin Bare
                        THEN forced[t] - n ELSE forced[t]
  BY <1>0, SMTT(30) DEF MemoryInv, MemoryTypes
<1>3. ASSUME NEW t \in {Of[o], Root} PROVE Keeps(o, r, t)
  <2>1. Leaves(o, r, t)
    BY DEF Leaves
  <2>2. Admitted(r, o, t) <= Admitted(op[o], o, t)
    BY <1>0, SMTT(30) DEF Admitted
  <2>3. /\ Owes(op[o], o, t) \in Int /\ Owes(r, o, t) \in Int
        /\ t = u => Owes(op[o], o, t) = n /\ Owes(r, o, t) = 0
        /\ t # u => Owes(op[o], o, t) = Owes(r, o, t)
    BY <1>0, SMTT(30) DEF Owes
  <2>4. /\ Forces(op[o], o, t) \in Int /\ Forces(r, o, t) \in Int
        /\ t = u => Forces(r, o, t) = 0
        /\ t = u => Forces(op[o], o, t) = IF op[o].forced /\ o \notin Bare THEN n ELSE 0
        /\ t # u => Forces(op[o], o, t) = Forces(r, o, t)
    BY <1>0, <2>3, SMTT(30) DEF Forces, Owes
  <2> HIDE DEF n
  <2>5. /\ used'[t] = used[t] - Owes(op[o], o, t) + Owes(r, o, t)
        /\ peak[t] <= peak'[t]
    BY <1>0, <1>1, <2>3, SMTT(30)
  <2>6. forced'[t] = forced[t] - Forces(op[o], o, t) + Forces(r, o, t)
    BY <1>0, <1>2, <2>4, SMTT(30)
  <2> QED
    BY <2>1, <2>2, <2>5, <2>6 DEF Keeps
<1>4. \A t \in Tracker \ {Of[o], Root} :
        used'[t] = used[t] /\ forced'[t] = forced[t] /\ peak'[t] = peak[t]
  BY <1>1, <1>2
<1>5. Keeps(o, r, Of[o]) /\ Keeps(o, r, Root) /\ peak' \in [Tracker -> Int]
  BY <1>1, <1>3
<1> QED
  BY <1>1, <1>2, <1>4, <1>5, MemoryKeeps

\* The roll back of the parent.
LEMMA rollbackParentKeeps ==
  ASSUME MemoryInv, NEW o \in Operator, rollbackParent(o)
  PROVE  MemoryInv'
<1> DEFINE r == op'[o]
<1>0. Of[o] # Root /\ op[o].pc = "undoRoot" /\ Sound(op[o])
  BY TwoTrackers, Calls DEF rollbackParent
<1>1. /\ r \in Reservation /\ op' = [op EXCEPT ![o] = r]
      /\ r.pc = "undo" /\ r.n = op[o].n /\ r.forced = op[o].forced
  BY Goes DEF rollbackParent, Holding
<1>2. Sound(r)
  BY <1>0, <1>1 DEF Sound
<1> HIDE DEF r
<1>3. ASSUME NEW t \in {Of[o], Root}
      PROVE  /\ Charged(op[o].pc, o, t) <=> t = Root \/ Charged(r.pc, o, t)
             /\ Charged(r.pc, o, t) => t # Root
             /\ ~ Kept(r.pc, o, t) /\ ~ Undecided(r.pc, o, t)
             /\ ~ (Kept(op[o].pc, o, t) /\ Pending(op[o].pc, o, t))
  BY <1>0, <1>1 DEF Charged, Kept, Undecided, Pending, Holding
<1>4. /\ Add(Root, - op[o].n) /\ UNCHANGED peak
      /\ UNCHANGED forced /\ ~ op[o].forced
  BY <1>0 DEF rollbackParent, Sound, census
<1> QED
  BY <1>1, <1>2, <1>3, <1>4, GivesBack

\* The roll back of the child.
LEMMA rollbackKeeps ==
  ASSUME MemoryInv, NEW o \in Operator, rollback(o)
  PROVE  MemoryInv'
<1> DEFINE r == op'[o]
<1>0. Of[o] # Root /\ op[o].pc = "undo" /\ Sound(op[o])
  BY TwoTrackers, Calls DEF rollback
<1>1. /\ r \in Reservation /\ op' = [op EXCEPT ![o] = r]
      /\ r.pc = "refused" /\ r.n = op[o].n /\ r.forced = op[o].forced
  BY Goes DEF rollback, Holding
<1>2. Sound(r)
  BY <1>0, <1>1 DEF Sound
<1> HIDE DEF r
<1>3. ASSUME NEW t \in {Of[o], Root}
      PROVE  /\ Charged(op[o].pc, o, t) <=> t = Of[o] \/ Charged(r.pc, o, t)
             /\ Charged(r.pc, o, t) => t # Of[o]
             /\ ~ Kept(r.pc, o, t) /\ ~ Undecided(r.pc, o, t)
             /\ ~ (Kept(op[o].pc, o, t) /\ Pending(op[o].pc, o, t))
  BY <1>0, <1>1 DEF Charged, Kept, Undecided, Pending, Holding
<1>4. /\ Add(Of[o], - op[o].n) /\ UNCHANGED peak
      /\ UNCHANGED forced /\ ~ op[o].forced
  BY <1>0 DEF rollback, Sound, census
<1> QED
  BY <1>1, <1>2, <1>3, <1>4, GivesBack

\* The release of the child.
LEMMA ReleaseKeeps ==
  ASSUME MemoryInv, NEW o \in Operator, Release(o)
  PROVE  MemoryInv'
<1> DEFINE r == op'[o]
<1>0. Of[o] # Root /\ op[o].pc = "held" /\ Sound(op[o])
  BY TwoTrackers, Calls DEF Release
<1>1. /\ r \in Reservation /\ op' = [op EXCEPT ![o] = r]
      /\ r.pc = "release" /\ r.n = op[o].n /\ r.forced = op[o].forced
  BY Goes DEF Release, Holding
<1>2. Sound(r)
  BY <1>0, <1>1 DEF Sound
<1> HIDE DEF r
<1>3. ASSUME NEW t \in {Of[o], Root}
      PROVE  /\ Charged(op[o].pc, o, t) <=> t = Of[o] \/ Charged(r.pc, o, t)
             /\ Charged(r.pc, o, t) => t # Of[o]
             /\ ~ Kept(r.pc, o, t) /\ ~ Undecided(r.pc, o, t)
             /\ ~ (Kept(op[o].pc, o, t) /\ Pending(op[o].pc, o, t))
  BY <1>0, <1>1 DEF Charged, Kept, Undecided, Pending, Holding
<1>4. /\ Add(Of[o], - op[o].n) /\ UNCHANGED peak
      /\ forced' = [forced EXCEPT ![Of[o]] = IF op[o].forced /\ o \notin Bare
                                          THEN @ - op[o].n ELSE @]
  BY DEF Release, GiveBack
<1> QED
  BY <1>1, <1>2, <1>3, <1>4, GivesBack

\* A call that has ended.
LEMMA IdleCall == Idle \in Reservation /\ Sound(Idle) /\ Idle.pc = "idle" /\ Idle.n = 0
BY SMTT(30) DEF Idle, Reservation, Sound

\* The release of the parent.
LEMMA releaseParentKeeps ==
  ASSUME MemoryInv, NEW o \in Operator, releaseParent(o)
  PROVE  MemoryInv'
<1> DEFINE r == op'[o]
<1>0. Of[o] # Root /\ op[o].pc = "release" /\ Sound(op[o])
  BY TwoTrackers, Calls DEF releaseParent
<1>1. r = Idle /\ op' = [op EXCEPT ![o] = r] /\ Idle \in Reservation
  BY Fields, IdleCall DEF releaseParent
<1>2. r.pc = "idle" /\ Sound(r)
  BY <1>1, IdleCall
<1> HIDE DEF r
<1>3. ASSUME NEW t \in {Of[o], Root}
      PROVE  /\ Charged(op[o].pc, o, t) <=> t = Root \/ Charged(r.pc, o, t)
             /\ Charged(r.pc, o, t) => t # Root
             /\ ~ Kept(r.pc, o, t) /\ ~ Undecided(r.pc, o, t)
             /\ ~ (Kept(op[o].pc, o, t) /\ Pending(op[o].pc, o, t))
  BY <1>0, <1>1, <1>2 DEF Charged, Kept, Undecided, Pending, Holding
<1>4. /\ Add(Root, - op[o].n) /\ UNCHANGED peak
      /\ forced' = [forced EXCEPT ![Root] = IF op[o].forced /\ o \notin Bare
                                          THEN @ - op[o].n ELSE @]
  BY DEF releaseParent, GiveBack
<1>5. \A t \in {Of[o], Root} : ~ Charged(r.pc, o, t)
  BY <1>2 DEF Charged, Holding
<1> QED
  BY <1>1, <1>2, <1>3, <1>4, <1>5, GivesBack

\* A caller of Reserve takes the refusal.
LEMMA ReturnKeeps ==
  ASSUME MemoryInv, NEW o \in Operator, Return(o)
  PROVE  MemoryInv'
<1> DEFINE r == op'[o]
<1>0. /\ Of[o] \in Tracker /\ Root \in Tracker /\ op[o].pc = "refused" /\ op[o].n \in Nat
      /\ used \in [Tracker -> Int] /\ peak \in [Tracker -> Int] /\ forced \in [Tracker -> Int]
      /\ used' = used /\ peak' = peak /\ forced' = forced
  BY TwoTrackers, Calls DEF Return, MemoryInv, MemoryTypes, census
<1>1. r = Idle /\ op' = [op EXCEPT ![o] = r] /\ Idle \in Reservation
  BY Fields, IdleCall DEF Return
<1>2. r.pc = "idle" /\ Sound(r)
  BY <1>1, IdleCall
<1> HIDE DEF r
<1>3. ASSUME NEW t \in {Of[o], Root} PROVE Keeps(o, r, t)
  <2>1. /\ ~ Charged(op[o].pc, o, t) /\ ~ Charged(r.pc, o, t)
        /\ ~ Kept(op[o].pc, o, t) /\ ~ Undecided(op[o].pc, o, t)
        /\ ~ Kept(r.pc, o, t) /\ ~ Undecided(r.pc, o, t)
    BY <1>0, <1>2 DEF Charged, Kept, Undecided, Holding
  <2>2. /\ Owes(op[o], o, t) = 0 /\ Owes(r, o, t) = 0
        /\ Forces(op[o], o, t) = 0 /\ Forces(r, o, t) = 0
        /\ Admitted(op[o], o, t) = 0 /\ Admitted(r, o, t) = 0 /\ Leaves(o, r, t)
    BY <2>1 DEF Owes, Forces, Admitted, Leaves
  <2>3. used[t] \in Int /\ forced[t] \in Int /\ peak[t] \in Int
    BY <1>0
  <2> QED
    BY <1>0, <2>2, <2>3, SMTT(30) DEF Keeps
<1>4. Keeps(o, r, Of[o]) /\ Keeps(o, r, Root)
  BY <1>3
<1> QED
  BY <1>0, <1>1, <1>2, <1>4, MemoryKeeps

\* A forced charge of the child.
LEMMA ForceKeeps ==
  ASSUME MemoryInv, NEW o \in Operator, NEW n \in Nat,
         op[o].pc \in {"idle", "refused"}, ForceCharge(o, n)
  PROVE  MemoryInv'
<1> DEFINE e == IF o \in Bare THEN 0 ELSE n
           r == op'[o]
<1>0. /\ Of[o] \in Tracker /\ Root \in Tracker /\ Of[o] # Root
      /\ e \in Nat /\ 0 \in Int
  BY TwoTrackers, SMTT(30)
<1>1. Shifts(o, Of[o], n, e)
  <2>1. /\ Add(Of[o], n) /\ UNCHANGED peak
        /\ \/ forced' = [forced EXCEPT ![Of[o]] = @ + e]
           \/ e = 0 /\ UNCHANGED forced
    <3>1. forced' = [forced EXCEPT ![Of[o]] = IF o \in Bare THEN @ ELSE @ + n]
      BY DEF ForceCharge, Count
    <3>2. CASE o \in Bare
      BY <3>1, <3>2, Fields DEF ForceCharge, Count, MemoryInv, MemoryTypes
    <3>3. CASE o \notin Bare
      BY <3>1, <3>3 DEF ForceCharge, Count
    <3> QED
      BY <3>2, <3>3
  <2>2. n \in Int /\ e \in Int /\ Of[o] \in {Of[o], Root}
    BY <1>0, SMTT(30)
  <2> HIDE DEF e
  <2> QED
    BY <2>1, <2>2, Shifting
<1>2. /\ op' = [op EXCEPT ![o] = r]
      /\ r = [pc |-> "force", n |-> n, forced |-> TRUE,
              child |-> used'[Of[o]], root |-> 0, cur |-> 0]
  <2>1. used'[Of[o]] = used[Of[o]] + n
    BY <1>1 DEF Shifts
  <2>2. /\ op' = [op EXCEPT ![o] = r]
        /\ r = [Idle EXCEPT !.pc = "force", !.n = n, !.forced = TRUE, !.child = used'[Of[o]]]
    BY <2>1, Fields DEF ForceCharge
  <2> QED
    BY <2>2 DEF Idle
<1>3. r \in Reservation
  <2>1. used'[Of[o]] \in Int
    BY <1>0, <1>1 DEF Shifts
  <2>2. [pc |-> "force", n |-> n, forced |-> TRUE,
         child |-> used'[Of[o]], root |-> 0, cur |-> 0] \in Reservation
    BY <1>0, <2>1, Records DEF Holding
  <2> QED
    BY <1>2, <2>2
<1> HIDE DEF e, r
<1>4. r.pc = "force" /\ r.n = n /\ r.forced /\ Sound(r) /\ r.child = used'[Of[o]]
  <2>1. r.pc = "force" /\ r.n = n /\ r.forced /\ r.child = used'[Of[o]]
    BY <1>2
  <2> QED
    BY <2>1 DEF Sound
<1>5. Keeps(o, r, Of[o])
  <2>1. /\ ~ Charged(op[o].pc, o, Of[o]) /\ Charged(r.pc, o, Of[o])
        /\ ~ Kept(op[o].pc, o, Of[o]) /\ Kept(r.pc, o, Of[o])
        /\ ~ Undecided(op[o].pc, o, Of[o]) /\ ~ Undecided(r.pc, o, Of[o])
        /\ Pending(r.pc, o, Of[o])
    BY <1>0, <1>4 DEF Charged, Kept, Undecided, Pending, Holding
  <2>2. /\ Owes(op[o], o, Of[o]) = 0 /\ Owes(r, o, Of[o]) = n
        /\ Forces(op[o], o, Of[o]) = 0 /\ Forces(r, o, Of[o]) = e
        /\ Admitted(op[o], o, Of[o]) = 0 /\ Admitted(r, o, Of[o]) = 0
    BY <1>0, <1>4, <2>1 DEF e, Owes, Forces, Admitted
  <2>3. /\ used[Of[o]] \in Int /\ forced[Of[o]] \in Int /\ peak[Of[o]] \in Int
        /\ used'[Of[o]] = used[Of[o]] + n /\ forced'[Of[o]] = forced[Of[o]] + e /\ peak'[Of[o]] = peak[Of[o]]
    BY <1>0, <1>1 DEF Shifts
  <2>4. Enters(o, r, Of[o])
    BY <1>0, <1>4, <2>1 DEF Enters, Saw
  <2> QED
    BY <1>0, <2>2, <2>3, <2>4, SMTT(30) DEF Keeps
<1>6. Keeps(o, r, Root)
  <2>1. /\ ~ Charged(op[o].pc, o, Root) /\ ~ Charged(r.pc, o, Root)
        /\ ~ Kept(op[o].pc, o, Root) /\ ~ Kept(r.pc, o, Root)
        /\ ~ Undecided(op[o].pc, o, Root) /\ ~ Undecided(r.pc, o, Root)
        /\ ~ Pending(r.pc, o, Root)
    BY <1>0, <1>4 DEF Charged, Kept, Undecided, Pending, Holding
  <2>2. /\ Owes(op[o], o, Root) = 0 /\ Owes(r, o, Root) = 0
        /\ Forces(op[o], o, Root) = 0 /\ Forces(r, o, Root) = 0
        /\ Admitted(op[o], o, Root) = 0 /\ Admitted(r, o, Root) = 0
    BY <1>0, <1>4, <2>1 DEF e, Owes, Forces, Admitted
  <2>3. /\ used[Root] \in Int /\ forced[Root] \in Int /\ peak[Root] \in Int
        /\ used'[Root] = used[Root] /\ forced'[Root] = forced[Root] /\ peak'[Root] = peak[Root]
    BY <1>0, <1>1 DEF Shifts
  <2>4. Leaves(o, r, Root)
    BY <1>0, <1>4, <2>1 DEF Leaves, Saw
  <2> QED
    BY <1>0, <2>2, <2>3, <2>4, SMTT(30) DEF Keeps
<1> QED
  BY <1>1, <1>2, <1>3, <1>4, <1>5, <1>6, MemoryKeeps DEF Shifts

\* A forced charge of the parent.
LEMMA forceParentKeeps ==
  ASSUME MemoryInv, NEW o \in Operator, forceParent(o)
  PROVE  MemoryInv'
<1> DEFINE n == op[o].n
           e == IF o \in Bare THEN 0 ELSE n
           r == op'[o]
<1>0. /\ Of[o] \in Tracker /\ Root \in Tracker /\ Of[o] # Root
      /\ n \in Nat /\ op[o].forced \in BOOLEAN /\ op[o].pc = "force" /\ op[o].forced
  BY TwoTrackers, Calls DEF forceParent, Sound
<1>e. e \in Nat
  BY <1>0, SMTT(30)
<1>1. Shifts(o, Root, n, e)
  <2>1. /\ Add(Root, n) /\ UNCHANGED peak
        /\ \/ forced' = [forced EXCEPT ![Root] = @ + e]
           \/ e = 0 /\ UNCHANGED forced
    <3>1. forced' = [forced EXCEPT ![Root] = IF o \in Bare THEN @ ELSE @ + n]
      BY DEF forceParent, Count
    <3>2. CASE o \in Bare
      BY <3>1, <3>2 DEF forceParent, Count, MemoryInv, MemoryTypes
    <3>3. CASE o \notin Bare
      BY <3>1, <3>3 DEF forceParent, Count
    <3> QED
      BY <3>2, <3>3
  <2>2. n \in Int /\ e \in Int /\ Root \in {Of[o], Root}
    BY <1>0, <1>e, SMTT(30)
  <2> HIDE DEF n, e
  <2> QED
    BY <2>1, <2>2, Shifting
<1>2. /\ op' = [op EXCEPT ![o] = r]
      /\ r = [pc |-> "loadRoot", n |-> n, forced |-> TRUE,
              child |-> op[o].child, root |-> used'[Root], cur |-> op[o].cur]
  <2>1. used'[Root] = used[Root] + n
    BY <1>1 DEF Shifts
  <2>2. r = [op[o] EXCEPT !.pc = "loadRoot", !.root = used'[Root]]
        /\ op' = [op EXCEPT ![o] = r]
    BY <2>1, Fields DEF forceParent
  <2>3. r = [[pc |-> op[o].pc, n |-> n, forced |-> TRUE, child |-> op[o].child,
              root |-> op[o].root, cur |-> op[o].cur] EXCEPT
               !.pc = "loadRoot", !.root = used'[Root]]
    BY <1>0, <2>2, Fields
  <2> QED
    BY <2>2, <2>3
<1>3. r \in Reservation
  <2>1. op[o].child \in Int /\ op[o].root \in Int /\ op[o].cur \in Int /\ used'[Root] \in Int
    BY <1>0, <1>1, Calls DEF Shifts
  <2>2. [pc |-> "loadRoot", n |-> n, forced |-> TRUE,
         child |-> op[o].child, root |-> used'[Root], cur |-> op[o].cur] \in Reservation
    BY <1>0, <2>1, Records DEF Holding
  <2> QED
    BY <1>2, <2>2
<1> HIDE DEF n, e, r
<1>4. /\ r.pc = "loadRoot" /\ r.n = n /\ r.forced /\ Sound(r)
      /\ r.child = op[o].child /\ r.root = used'[Root]
  <2>1. /\ r.pc = "loadRoot" /\ r.n = n /\ r.forced
        /\ r.child = op[o].child /\ r.root = used'[Root]
    BY <1>2
  <2> QED
    BY <1>0, <2>1 DEF Sound, n
<1>5. Keeps(o, r, Of[o])
  <2>1. /\ Charged(op[o].pc, o, Of[o]) /\ Charged(r.pc, o, Of[o])
        /\ Kept(op[o].pc, o, Of[o]) /\ Kept(r.pc, o, Of[o])
        /\ ~ Undecided(op[o].pc, o, Of[o]) /\ ~ Undecided(r.pc, o, Of[o])
        /\ Pending(r.pc, o, Of[o])
    BY <1>0, <1>4 DEF Charged, Kept, Undecided, Pending, Holding
  <2>2. /\ Owes(op[o], o, Of[o]) = n /\ Owes(r, o, Of[o]) = n
        /\ Forces(op[o], o, Of[o]) = e /\ Forces(r, o, Of[o]) = e
        /\ Admitted(op[o], o, Of[o]) = 0 /\ Admitted(r, o, Of[o]) = 0
    BY <1>0, <1>4, <2>1 DEF n, e, Owes, Forces, Admitted
  <2>3. /\ used[Of[o]] \in Int /\ forced[Of[o]] \in Int /\ peak[Of[o]] \in Int
        /\ used'[Of[o]] = used[Of[o]] /\ forced'[Of[o]] = forced[Of[o]] /\ peak'[Of[o]] = peak[Of[o]]
    BY <1>0, <1>1 DEF Shifts
  <2>4. Remains(o, r, Of[o])
    BY <1>0, <1>4, <2>1 DEF n, Remains, Saw
  <2> QED
    BY <1>0, <1>e, <2>2, <2>3, <2>4, SMTT(30) DEF Keeps
<1>6. Keeps(o, r, Root)
  <2>1. /\ ~ Charged(op[o].pc, o, Root) /\ Charged(r.pc, o, Root)
        /\ ~ Kept(op[o].pc, o, Root) /\ Kept(r.pc, o, Root)
        /\ ~ Undecided(op[o].pc, o, Root) /\ ~ Undecided(r.pc, o, Root)
        /\ Pending(r.pc, o, Root)
    BY <1>0, <1>4 DEF Charged, Kept, Undecided, Pending, Holding
  <2>2. /\ Owes(op[o], o, Root) = 0 /\ Owes(r, o, Root) = n
        /\ Forces(op[o], o, Root) = 0 /\ Forces(r, o, Root) = e
        /\ Admitted(op[o], o, Root) = 0 /\ Admitted(r, o, Root) = 0
    BY <1>0, <1>4, <2>1 DEF n, e, Owes, Forces, Admitted
  <2>3. /\ used[Root] \in Int /\ forced[Root] \in Int /\ peak[Root] \in Int
        /\ used'[Root] = used[Root] + n /\ forced'[Root] = forced[Root] + e /\ peak'[Root] = peak[Root]
    BY <1>0, <1>1 DEF Shifts
  <2>4. Enters(o, r, Root)
    BY <1>0, <1>4, <2>1 DEF n, Enters, Saw
  <2> QED
    BY <1>0, <1>e, <2>2, <2>3, <2>4, SMTT(30) DEF Keeps
<1> QED
  BY <1>1, <1>2, <1>3, <1>4, <1>5, <1>6, MemoryKeeps DEF Shifts

\* A step of bumpPeak: the call goes from one step of it to another, with what it saw, and
\* leaves the steps at which a peak is pending only when that peak is raised.
LEMMA BumpKeeps ==
  ASSUME MemoryInv, NEW o \in Operator, NEW r \in Reservation,
         Sound(r), op' = [op EXCEPT ![o] = r], UNCHANGED <<used, forced>>,
         peak' \in [Tracker -> Int],
         \A t \in Tracker \ {Of[o], Root} : peak'[t] = peak[t],
         peak[Of[o]] <= peak'[Of[o]], peak[Root] <= peak'[Root],
         r.n = op[o].n, r.forced = op[o].forced, r.child = op[o].child, r.root = op[o].root,
         \/ /\ op[o].pc \in {"loadRoot", "casRoot"}
            /\ \/ r.pc \in {"loadRoot", "casRoot"}
               \/ r.pc = "loadChild" /\ r.root <= peak'[Root]
         \/ /\ op[o].pc \in {"loadChild", "casChild"}
            /\ \/ r.pc \in {"loadChild", "casChild"}
               \/ r.pc = "held" /\ r.child <= peak'[Of[o]]
  PROVE  MemoryInv'
<1>0. /\ Of[o] \in Tracker /\ Root \in Tracker /\ Of[o] # Root
      /\ op[o].n \in Nat
  BY TwoTrackers, Calls
<1>1. /\ used \in [Tracker -> Int] /\ forced \in [Tracker -> Int]
      /\ used' = used /\ forced' = forced
  BY DEF MemoryInv, MemoryTypes
<1>2. ASSUME NEW t \in {Of[o], Root}
      PROVE  Keeps(o, r, t)
  <2>1. /\ Charged(op[o].pc, o, t) /\ Charged(r.pc, o, t)
        /\ Kept(op[o].pc, o, t) /\ Kept(r.pc, o, t)
        /\ ~ Undecided(op[o].pc, o, t) /\ ~ Undecided(r.pc, o, t)
    BY <1>0 DEF Charged, Kept, Undecided, Holding
  <2>2. \/ Pending(r.pc, o, t) \/ ~ Pending(op[o].pc, o, t)
        \/ Saw(r, t) <= peak'[t]
    BY <1>0 DEF Pending, Saw
  <2>3. Remains(o, r, t)
    BY <2>1, <2>2 DEF Remains, Saw
  <2>4. used[t] \in Int /\ forced[t] \in Int
    BY <1>0, <1>1
  <2>5. /\ Owes(r, o, t) = Owes(op[o], o, t) /\ Owes(r, o, t) \in Int
        /\ Forces(r, o, t) = Forces(op[o], o, t) /\ Forces(r, o, t) \in Int
        /\ Admitted(r, o, t) = Admitted(op[o], o, t) /\ Admitted(r, o, t) \in Int
    BY <1>0, <2>1, SMTT(30) DEF Owes, Forces, Admitted
  <2> QED
    BY <1>1, <2>3, <2>4, <2>5, SMTT(30) DEF Keeps
<1> QED
  BY <1>1, <1>2, MemoryKeeps

\* The load of bumpPeak.
LEMMA bumpLoadKeeps ==
  ASSUME MemoryInv, NEW o \in Operator, bumpLoad(o)
  PROVE  MemoryInv'
<1> DEFINE r == op'[o]
           t == Peak(o)
<1>0. /\ Of[o] \in Tracker /\ Root \in Tracker /\ Of[o] # Root
      /\ op[o].pc \in {"loadRoot", "loadChild"} /\ peak \in [Tracker -> Int]
      /\ peak' = peak /\ UNCHANGED <<used, forced>>
  BY TwoTrackers DEF bumpLoad, MemoryInv, MemoryTypes, census
<1>1. /\ t \in {Of[o], Root} /\ peak[t] \in Int
      /\ op[o].pc = "loadRoot" => t = Root /\ Seen(o) = op[o].root
      /\ op[o].pc = "loadChild" => t = Of[o] /\ Seen(o) = op[o].child
      /\ Seen(o) \in Int
  BY <1>0, Calls DEF Peak, Seen
<1> DEFINE to == CASE Seen(o) <= peak[t] -> Bumped(o)
                   [] Seen(o) > peak[t] /\ t = Root -> "casRoot"
                   [] Seen(o) > peak[t] /\ t # Root -> "casChild"
<1>2. \/ Seen(o) <= peak[t] /\ to = Bumped(o)
      \/ Seen(o) > peak[t] /\ to = IF t = Root THEN "casRoot" ELSE "casChild"
  <2> HIDE DEF t
  <2>1. CASE Seen(o) <= peak[t]
    BY <1>1, <2>1, SMTT(30)
  <2>2. CASE Seen(o) > peak[t] /\ t = Root
    BY <1>1, <2>2, SMTT(30)
  <2>3. CASE Seen(o) > peak[t] /\ t # Root
    BY <1>1, <2>3, SMTT(30)
  <2> QED
    BY <1>1, <2>1, <2>2, <2>3, SMTT(30)
<1>3. /\ r = [op[o] EXCEPT !.cur = peak[t], !.pc = to] /\ op' = [op EXCEPT ![o] = r]
  <2>1. op' = [op EXCEPT ![o].cur = peak[t], ![o].pc = to]
    BY DEF bumpLoad
  <2> HIDE DEF t, to
  <2> QED
    BY <2>1, Fields
<1> HIDE DEF t, to, r
<1>4. r = [pc |-> to, n |-> op[o].n, forced |-> op[o].forced, child |-> op[o].child,
           root |-> op[o].root, cur |-> peak[t]]
  <2>1. r = [[pc |-> op[o].pc, n |-> op[o].n, forced |-> op[o].forced, child |-> op[o].child,
              root |-> op[o].root, cur |-> op[o].cur] EXCEPT !.cur = peak[t], !.pc = to]
    BY <1>3, Fields
  <2> QED
    BY <2>1
<1>5. /\ op[o].pc = "loadRoot" =>
           \/ to = "loadChild" /\ op[o].root <= peak[Root]
           \/ to = "casRoot" /\ op[o].root > peak[t]
      /\ op[o].pc = "loadChild" =>
           \/ to = "held" /\ op[o].child <= peak[Of[o]]
           \/ to = "casChild" /\ op[o].child > peak[t]
  BY <1>0, <1>1, <1>2 DEF Bumped, t
<1>6. r \in Reservation
  <2>1. /\ op[o].n \in Nat /\ op[o].forced \in BOOLEAN /\ op[o].child \in Int
        /\ op[o].root \in Int
    BY Calls
  <2>2. to \in Holding
    BY <1>0, <1>5 DEF Holding
  <2>3. [pc |-> to, n |-> op[o].n, forced |-> op[o].forced, child |-> op[o].child,
         root |-> op[o].root, cur |-> peak[t]] \in Reservation
    BY <1>1, <2>1, <2>2, Records
  <2> QED
    BY <1>4, <2>3
<1>7. /\ r.pc = to /\ r.cur = peak[t] /\ r.n = op[o].n /\ r.forced = op[o].forced
      /\ r.child = op[o].child /\ r.root = op[o].root
  BY <1>4
<1>8. Sound(r)
  BY <1>0, <1>5, <1>7 DEF Sound
<1>9. /\ peak[Of[o]] <= peak[Of[o]] /\ peak[Root] <= peak[Root]
  BY <1>0, SMTT(30)
<1> QED
  BY <1>0, <1>3, <1>5, <1>6, <1>7, <1>8, <1>9, BumpKeeps

\* The compare and swap of bumpPeak.
LEMMA bumpCASKeeps ==
  ASSUME MemoryInv, NEW o \in Operator, bumpCAS(o)
  PROVE  MemoryInv'
<1> DEFINE r == op'[o]
           t == Peak(o)
<1>0. /\ Of[o] \in Tracker /\ Root \in Tracker /\ Of[o] # Root
      /\ op[o].pc \in {"casRoot", "casChild"} /\ peak \in [Tracker -> Int]
      /\ UNCHANGED <<used, forced>>
  BY TwoTrackers DEF bumpCAS, MemoryInv, MemoryTypes, census
<1>1. /\ t \in {Of[o], Root} /\ peak[t] \in Int
      /\ op[o].pc = "casRoot" => /\ t = Root /\ Seen(o) = op[o].root
                                 /\ Bumped(o) = "loadChild"
      /\ op[o].pc = "casChild" => /\ t = Of[o] /\ Seen(o) = op[o].child
                                  /\ Bumped(o) = "held"
      /\ Seen(o) \in Int /\ Seen(o) > op[o].cur /\ op[o].cur \in Int
  BY <1>0, Calls DEF Peak, Seen, Bumped, Sound
<1>2. PICK to \in Holding :
        /\ Goto(o, to)
        /\ \/ /\ peak[t] = op[o].cur /\ to = Bumped(o)
              /\ peak' = [peak EXCEPT ![t] = Seen(o)]
           \/ /\ to = IF t = Root THEN "loadRoot" ELSE "loadChild"
              /\ peak' = peak
  BY <1>0, <1>1 DEF bumpCAS, Holding
<1>3. /\ r \in Reservation /\ op' = [op EXCEPT ![o] = r]
      /\ r.pc = to /\ r.n = op[o].n /\ r.forced = op[o].forced
      /\ r.child = op[o].child /\ r.root = op[o].root
  BY <1>2, Goes
<1> HIDE DEF r, t
<1>4. /\ peak' \in [Tracker -> Int]
      /\ \A u \in Tracker \ {Of[o], Root} : peak'[u] = peak[u]
      /\ peak[Of[o]] <= peak'[Of[o]] /\ peak[Root] <= peak'[Root]
  BY <1>0, <1>1, <1>2, SMTT(30)
<1>6. \/ /\ op[o].pc = "casRoot"
         /\ \/ to = "loadRoot"
            \/ to = "loadChild" /\ op[o].root <= peak'[Root]
      \/ /\ op[o].pc = "casChild"
         /\ \/ to = "loadChild"
            \/ to = "held" /\ op[o].child <= peak'[Of[o]]
  BY <1>0, <1>1, <1>2, SMTT(30)
<1>7. Sound(r)
  BY <1>0, <1>3, <1>6, Calls DEF Sound
<1> QED
  BY <1>0, <1>3, <1>4, <1>6, <1>7, BumpKeeps

\* At first nothing is used.
LEMMA MemoryInit ==
  ASSUME Init
  PROVE  MemoryInv
<1>0. /\ IsFiniteSet(Operator) /\ Budget \in Nat
      /\ \A o \in Operator : op[o] = Idle
      /\ \A t \in Tracker : used[t] = 0 /\ peak[t] = 0 /\ forced[t] = 0
  BY TrackerAssumption DEF Init
<1>1. Idle \in Reservation /\ Sound(Idle) /\ Idle.pc = "idle" /\ Idle.n = 0
  BY IdleCall
<1>2. MemoryTypes
  BY <1>1, SMTT(30) DEF MemoryTypes, Init
<1>3. \A o \in Operator : Sound(op[o])
  BY <1>0, <1>1
<1>4. \A o \in Operator : \A t : /\ ~ Charged(op[o].pc, o, t) /\ ~ Kept(op[o].pc, o, t)
                                 /\ ~ Undecided(op[o].pc, o, t)
  BY <1>0, <1>1 DEF Charged, Kept, Undecided, Holding
<1>5. ASSUME NEW w \in [Operator -> Int], \A o \in Operator : w[o] = 0
      PROVE  SumOf(w, Operator) = 0 /\ SumOf(w, {}) = 0
  <2>1. SumOf(w, {}) = 0
    BY <1>0, SumUnfolds
  <2>2. SumOf(w, {}) = SumOf(w, Operator)
    BY <1>0, <1>5, SumOfPart, SMTT(30)
  <2> QED
    BY <2>1, <2>2
<1>6. ASSUME NEW t \in Tracker
      PROVE  /\ used[t] = SumOf(Owing(op, t), Operator)
             /\ forced[t] = SumOf(Forcing(op, t), Operator)
             /\ SumOf(Admitting(op, t), Operator) <= Budget
             /\ Covered(t)
  <2>1. /\ Owing(op, t) \in [Operator -> Int] /\ Forcing(op, t) \in [Operator -> Int]
        /\ Admitting(op, t) \in [Operator -> Int] /\ Amounts(op) \in [Operator -> Int]
    BY <1>2, Terms DEF MemoryTypes
  <2>2. \A o \in Operator : /\ Owing(op, t)[o] = 0 /\ Forcing(op, t)[o] = 0
                            /\ Admitting(op, t)[o] = 0 /\ Amounts(op)[o] = 0
    BY <1>0, <1>1, <1>4 DEF Owing, Forcing, Admitting, Amounts, Owes, Forces, Admitted
  <2>3. /\ SumOf(Owing(op, t), Operator) = 0
        /\ SumOf(Forcing(op, t), Operator) = 0
        /\ SumOf(Admitting(op, t), Operator) = 0
        /\ SumOf(Amounts(op), {}) = 0
    BY <1>5, <2>1, <2>2
  <2>4. \A S \in Outcomes(op, t) : S = {}
    BY <1>4 DEF Outcomes
  <2>5. Covered(t)
    <3>1. ASSUME NEW S \in Outcomes(op, t) PROVE SumOf(Amounts(op), S) <= peak[t]
      <4>1. SumOf(Amounts(op), S) = 0 /\ peak[t] = 0
        BY <1>0, <2>3, <2>4
      <4> QED
        BY <4>1, SMTT(30)
    <3> QED
      BY <3>1 DEF Covered
  <2> QED
    BY <1>0, <2>3, <2>5, SMTT(30)
<1> QED
  BY <1>2, <1>3, <1>6 DEF MemoryInv, Accounts, Fits

\* No step of an operator disturbs the invariant.
LEMMA MemoryNext ==
  ASSUME MemoryInv, [Next]_vars
  PROVE  MemoryInv'
<1>1. ASSUME NEW o \in Operator, Reserve(o) PROVE MemoryInv'
  <2>1. PICK n \in Size : Charge(o, n)
    BY <1>1 DEF Reserve
  <2>2. n \in Nat /\ op[o].pc \in {"idle", "refused"}
    BY <1>1, TrackerAssumption DEF Reserve
  <2> QED
    BY <2>1, <2>2, ChargeKeeps
<1>2. ASSUME NEW o \in Operator, ReserveBlocking(o) PROVE MemoryInv'
  <2>1. op[o].n \in Nat
    BY Calls
  <2> QED
    BY <1>2, <2>1, ChargeKeeps DEF ReserveBlocking, Persists
<1>f. ASSUME NEW o \in Operator, ForceReserve(o) PROVE MemoryInv'
  <2>1. PICK n \in Size : ForceCharge(o, n)
    BY <1>f DEF ForceReserve
  <2>2. n \in Nat /\ op[o].pc \in {"idle", "refused"}
    BY <1>f, TrackerAssumption DEF ForceReserve
  <2> QED
    BY <2>1, <2>2, ForceKeeps
<1>g. ASSUME NEW o \in Operator, ForceReserveFor(o) PROVE MemoryInv'
  <2>1. op[o].n \in Nat
    BY Calls
  <2> QED
    BY <1>g, <2>1, ForceKeeps DEF ForceReserveFor, Persists
<1>3. ASSUME NEW o \in Operator, Step(o) PROVE MemoryInv'
  BY <1>2, <1>g, <1>3, reserveParentKeeps, rollbackParentKeeps, rollbackKeeps, ReturnKeeps,
     forceParentKeeps, bumpLoadKeeps, bumpCASKeeps, ReleaseKeeps,
     releaseParentKeeps DEF Step
<1>4. CASE UNCHANGED vars
  BY <1>4 DEF vars, MemoryInv, MemoryTypes, Accounts, Fits, Covered, Sound,
              Tracker
<1> QED
  BY <1>1, <1>f, <1>3, <1>4 DEF Next

\* Every state of MemoryTracker satisfies the invariant: Reserve, ReserveBlocking,
\* ForceReserve and ForceReserveFor, bumpPeak and Release of any number of operators, interleaved at each
\* atomic operation.
THEOREM MemoryInductive == Spec => []MemoryInv
<1>1. Init => MemoryInv
  BY MemoryInit
<1>2. MemoryInv /\ [Next]_vars => MemoryInv'
  BY MemoryNext
<1> QED
  BY <1>1, <1>2, PTL DEF Spec

\* What a tracker's usage is when no call is under way.
LEMMA QuietUsage ==
  ASSUME MemoryInv, Quiet, NEW t \in Tracker
  PROVE  /\ used[t] = Sum(Holders(t))
         /\ forced[t] = Sum(Forced(t) \ Bare)
<1> DEFINE H == Holders(t)
           F == Forced(t) \ Bare
<1>0. IsFiniteSet(Operator)
  BY TrackerAssumption
<1>1. /\ Owing(op, t) \in [Operator -> Int] /\ Forcing(op, t) \in [Operator -> Int]
      /\ Amounts(op) \in [Operator -> Int]
  BY Terms DEF MemoryInv, MemoryTypes
<1>2. H \in SUBSET Operator /\ F \in SUBSET Operator
  BY DEF Holders, Forced, Under
<1>3. \A o \in Operator : /\ o \in H <=> Charged(op[o].pc, o, t)
                          /\ o \in F <=> Charged(op[o].pc, o, t) /\ op[o].forced /\ o \notin Bare
  BY DEF Quiet, Holders, Forced, Under, Holding, Charged
<1>4. /\ \A o \in H : Amounts(op)[o] = Owing(op, t)[o]
      /\ \A o \in Operator \ H : Owing(op, t)[o] = 0
      /\ \A o \in F : Amounts(op)[o] = Forcing(op, t)[o]
      /\ \A o \in Operator \ F : Forcing(op, t)[o] = 0
  BY <1>2, <1>3 DEF Amounts, Owing, Forcing, Owes, Forces
<1> HIDE DEF H, F
<1>5. /\ SumOf(Amounts(op), H) = SumOf(Owing(op, t), H)
      /\ SumOf(Amounts(op), F) = SumOf(Forcing(op, t), F)
  BY <1>0, <1>1, <1>2, <1>4, SumAgrees
<1>6. SumOf(Owing(op, t), H) = SumOf(Owing(op, t), Operator)
  BY <1>0, <1>1, <1>2, <1>4, SumOfPart, SMTT(30)
<1>7. SumOf(Forcing(op, t), F) = SumOf(Forcing(op, t), Operator)
  BY <1>0, <1>1, <1>2, <1>4, SumOfPart, SMTT(30)
<1> QED
  BY <1>5, <1>6, <1>7 DEF MemoryInv, Accounts, Sum, Amounts, H, F

-----------------------------------------------------------------------------
\* What is forced without a purpose.

Bares(r, o, t) == IF r.forced /\ o \in Bare THEN Owes(r, o, t) ELSE 0
Baring(p, t) == [o \in Operator |-> Bares(p[o], o, t)]

\* The census of it covers what the operators have added.
BareInv ==
  /\ unattributed \in [Tracker -> Int]
  /\ \A t \in Tracker : SumOf(Baring(op, t), Operator) <= unattributed[t]

\* The terms of its sums.
LEMMA BareTerms ==
  ASSUME NEW p \in [Operator -> Reservation], NEW t
  PROVE  /\ Baring(p, t) \in [Operator -> Int]
         /\ \A o \in Operator : Bares(p[o], o, t) \in Nat
<1>1. \A o \in Operator : p[o].n \in Nat
  BY DEF Reservation
<1>2. \A o \in Operator : Bares(p[o], o, t) \in Nat
  BY <1>1, SMTT(30) DEF Bares, Owes
<1>3. \A o \in Operator : Bares(p[o], o, t) \in Int
  BY <1>2, SMTT(30)
<1> QED
  BY <1>2, <1>3 DEF Baring

\* A step of one operator, which adds to the census at least what it adds to the sum.
LEMMA BareMoves ==
  ASSUME MemoryInv, MemoryInv', BareInv, NEW o \in Operator,
         \A d \in Operator \ {o} : op'[d] = op[d],
         unattributed' \in [Tracker -> Int],
         \A t \in Tracker : unattributed[t] - Bares(op[o], o, t) + Bares(op'[o], o, t)
                              <= unattributed'[t]
  PROVE  BareInv'
<1>0. IsFiniteSet(Operator)
  BY TrackerAssumption
<1>1. ASSUME NEW t \in Tracker PROVE SumOf(Baring(op', t), Operator) <= unattributed'[t]
  <2> DEFINE w == Baring(op, t) v == Baring(op', t)
  <2>1. w \in [Operator -> Int] /\ v \in [Operator -> Int]
    BY BareTerms DEF MemoryInv, MemoryTypes
  <2>2. /\ \A d \in Operator \ {o} : w[d] = v[d]
        /\ w[o] = Bares(op[o], o, t) /\ v[o] = Bares(op'[o], o, t)
    BY DEF Baring
  <2>3. SumOf(w, Operator) <= unattributed[t] /\ unattributed[t] \in Int
        /\ unattributed'[t] \in Int
    BY DEF BareInv
  <2> HIDE DEF w, v
  <2>4. SumOf(v, Operator) = SumOf(w, Operator) - w[o] + v[o]
    BY <1>0, <2>1, <2>2, SumChanges
  <2>5. SumOf(w, Operator) \in Int /\ w[o] \in Int /\ v[o] \in Int
    BY <1>0, <2>1, SumType
  <2>6. unattributed[t] - w[o] + v[o] <= unattributed'[t]
    BY <2>2
  <2>7. SumOf(v, Operator) <= unattributed'[t]
    BY <2>3, <2>4, <2>5, <2>6, SMTT(30)
  <2> QED
    BY <2>7 DEF v
<1> QED
  BY <1>1 DEF BareInv, Tracker, Baring

\* A step that forces nothing: a call that is still forced held its bytes before.
LEMMA BareStays ==
  ASSUME MemoryInv, MemoryInv', BareInv, NEW o \in Operator,
         \A d \in Operator \ {o} : op'[d] = op[d], UNCHANGED unattributed,
         op'[o].forced => /\ op[o].forced /\ op'[o].n = op[o].n
                          /\ op[o].pc \in Holding
  PROVE  BareInv'
<1>1. ASSUME NEW t \in Tracker
      PROVE  unattributed[t] - Bares(op[o], o, t) + Bares(op'[o], o, t) <= unattributed'[t]
  <2>1. /\ Bares(op[o], o, t) \in Nat /\ Bares(op'[o], o, t) \in Nat
        /\ unattributed[t] \in Int /\ unattributed'[t] = unattributed[t]
    BY BareTerms DEF MemoryInv, MemoryTypes, BareInv
  <2>2. Bares(op'[o], o, t) = 0 \/ Bares(op'[o], o, t) = Bares(op[o], o, t)
    <3>1. CASE ~ op'[o].forced
      BY <3>1 DEF Bares
    <3>2. CASE op'[o].forced /\ t \in {Of[o], Root}
      <4>1. Charged(op[o].pc, o, t)
        BY <3>2 DEF Charged
      <4> QED
        BY <3>2, <4>1 DEF Bares, Owes
    <3>3. CASE t \notin {Of[o], Root}
      BY <3>3 DEF Bares, Owes, Charged
    <3> QED
      BY <3>1, <3>2, <3>3
  <2> HIDE DEF Bares
  <2> QED
    BY <2>1, <2>2, SMTT(30)
<1>2. unattributed' \in [Tracker -> Int]
  BY DEF BareInv
<1> QED
  BY <1>1, <1>2, BareMoves

\* A forced charge, of the child or of the parent.
LEMMA BareForces ==
  ASSUME MemoryInv, MemoryInv', BareInv, NEW o \in Operator,
         \A d \in Operator \ {o} : op'[d] = op[d], NEW u \in {Of[o], Root},
         unattributed' = [unattributed EXCEPT ![u] = IF o \in Bare THEN @ + op'[o].n ELSE @],
         \A t \in {Of[o], Root} \ {u} :
           Charged(op'[o].pc, o, t) =>
             /\ Charged(op[o].pc, o, t)
             /\ op[o].forced /\ op'[o].n = op[o].n
  PROVE  BareInv'
<1> DEFINE n == op'[o].n
<1>0. Of[o] \in Tracker /\ Root \in Tracker /\ n \in Nat
  BY TwoTrackers DEF MemoryInv, MemoryTypes, Reservation
<1>1. /\ unattributed' \in [Tracker -> Int]
      /\ \A t \in Tracker : unattributed'[t] = IF t = u /\ o \in Bare THEN unattributed[t] + n
                                                ELSE unattributed[t]
  <2> HIDE DEF n
  <2>1. unattributed \in [Tracker -> Int] /\ u \in Tracker
        /\ unattributed' = [unattributed EXCEPT ![u] = IF o \in Bare THEN @ + n ELSE @]
    BY <1>0 DEF BareInv, n
  <2> QED
    BY <1>0, <2>1, SMTT(30)
<1>2. ASSUME NEW t \in Tracker
      PROVE  unattributed[t] - Bares(op[o], o, t) + Bares(op'[o], o, t) <= unattributed'[t]
  <2>1. /\ Bares(op[o], o, t) \in Nat /\ Bares(op'[o], o, t) \in Nat
        /\ unattributed[t] \in Int
    BY BareTerms DEF MemoryInv, MemoryTypes, BareInv
  <2>2. CASE t = u
    <3>1. Bares(op'[o], o, t) = 0 \/ (Bares(op'[o], o, t) = n /\ o \in Bare)
      BY DEF Bares, Owes
    <3> HIDE DEF n
    <3> QED
      BY <1>0, <1>1, <2>1, <2>2, <3>1, SMTT(30)
  <2>3. CASE t # u
    <3>1. Bares(op'[o], o, t) = 0 \/ Bares(op'[o], o, t) = Bares(op[o], o, t)
      <4>1. CASE t \in {Of[o], Root}
        BY <2>3, <4>1 DEF Bares, Owes
      <4>2. CASE t \notin {Of[o], Root}
        BY <4>2 DEF Bares, Owes, Charged
      <4> QED
        BY <4>1, <4>2
    <3> HIDE DEF n
    <3> QED
      BY <1>1, <2>1, <2>3, <3>1, SMTT(30)
  <2> QED
    BY <2>2, <2>3
<1> QED
  BY <1>1, <1>2, BareMoves

\* A call that has ended is not forced.
LEMMA IdleForced == Idle.forced = FALSE
BY SMTT(30) DEF Idle

\* At first nothing is forced.
LEMMA BareInit ==
  ASSUME Init, MemoryInv
  PROVE  BareInv
<1>0. /\ IsFiniteSet(Operator) /\ \A o \in Operator : op[o] = Idle
      /\ unattributed \in [Tracker -> Int] /\ \A t \in Tracker : unattributed[t] = 0
  BY TrackerAssumption, SMTT(30) DEF Init
<1>1. ASSUME NEW t \in Tracker PROVE SumOf(Baring(op, t), Operator) <= unattributed[t]
  <2> DEFINE w == Baring(op, t)
  <2>1. w \in [Operator -> Int] /\ \A o \in Operator : w[o] = 0
    <3>1. w \in [Operator -> Int]
      BY BareTerms DEF MemoryInv, MemoryTypes
    <3>2. \A o \in Operator : ~ op[o].forced
      BY <1>0, IdleForced
    <3> QED
      BY <3>1, <3>2 DEF Baring, Bares
  <2> HIDE DEF w
  <2>2. SumOf(w, {}) = 0
    BY <1>0, SumUnfolds
  <2>3. SumOf(w, {}) = SumOf(w, Operator)
    BY <1>0, <2>1, SumOfPart, SMTT(30)
  <2>4. SumOf(w, Operator) <= unattributed[t]
    BY <1>0, <2>2, <2>3, SMTT(30)
  <2> QED
    BY <2>4 DEF w
<1> QED
  BY <1>0, <1>1 DEF BareInv

\* No step makes the census fall behind.
LEMMA BareNext ==
  ASSUME MemoryInv, MemoryInv', BareInv, [Next]_vars
  PROVE  BareInv'
<1>t. op \in [Operator -> Reservation]
  BY DEF MemoryInv, MemoryTypes
<1>1. ASSUME NEW o \in Operator, NEW n, Charge(o, n) PROVE BareInv'
  <2>1. /\ ~ op'[o].forced /\ UNCHANGED unattributed
        /\ \A d \in Operator \ {o} : op'[d] = op[d]
    BY <1>1, <1>t DEF Charge, Idle, census
  <2> QED
    BY <2>1, BareStays
<1>2. ASSUME NEW o \in Operator, NEW n, ForceCharge(o, n) PROVE BareInv'
  <2>1. /\ op'[o].pc = "force" /\ op'[o].n = n
        /\ \A d \in Operator \ {o} : op'[d] = op[d]
    BY <1>2, <1>t DEF ForceCharge, Idle
  <2>2. unattributed' = [unattributed EXCEPT ![Of[o]] = IF o \in Bare THEN @ + op'[o].n ELSE @]
    BY <1>2, <2>1 DEF ForceCharge, Count
  <2>3. \A t \in {Of[o], Root} \ {Of[o]} : ~ Charged(op'[o].pc, o, t)
    BY <2>1 DEF Charged, Holding
  <2> QED
    BY <2>1, <2>2, <2>3, BareForces
<1>3. ASSUME NEW o \in Operator, forceParent(o) PROVE BareInv'
  <2>1. /\ op[o].pc = "force" /\ op[o].forced /\ Of[o] # Root
    BY <1>3, TwoTrackers, Calls DEF forceParent, Sound
  <2>2. /\ op'[o].n = op[o].n /\ \A d \in Operator \ {o} : op'[d] = op[d]
    <3>1. op'[o] = [op[o] EXCEPT !.pc = "loadRoot", !.root = used[Root] + op[o].n]
          /\ \A d \in Operator \ {o} : op'[d] = op[d]
      BY <1>3, <1>t DEF forceParent
    <3>2. op'[o] = [pc |-> "loadRoot", n |-> op[o].n, forced |-> op[o].forced,
                    child |-> op[o].child, root |-> used[Root] + op[o].n, cur |-> op[o].cur]
      BY <3>1, Fields
    <3> QED
      BY <3>1, <3>2
  <2>3. unattributed' = [unattributed EXCEPT ![Root] = IF o \in Bare THEN @ + op'[o].n ELSE @]
    BY <1>3, <2>2 DEF forceParent, Count
  <2>4. \A t \in {Of[o], Root} \ {Root} : Charged(op[o].pc, o, t)
    BY <2>1 DEF Charged
  <2> QED
    BY <2>1, <2>2, <2>3, <2>4, BareForces
<1>4. ASSUME NEW o \in Operator, Return(o) \/ releaseParent(o) PROVE BareInv'
  <2>1. /\ ~ op'[o].forced /\ UNCHANGED unattributed
        /\ \A d \in Operator \ {o} : op'[d] = op[d]
    <3>1. op' = [op EXCEPT ![o] = Idle] /\ UNCHANGED unattributed
      BY <1>4 DEF Return, releaseParent, GiveBack, census
    <3> QED
      BY <1>t, <3>1, IdleForced
  <2> QED
    BY <2>1, BareStays
<1>5. ASSUME NEW o \in Operator, reserveParent(o) \/ rollbackParent(o) \/ rollback(o)
      PROVE  BareInv'
  <2>1. ~ op[o].forced
    BY <1>5, Calls DEF reserveParent, rollbackParent, rollback, Sound
  <2>2. /\ op'[o].forced = op[o].forced /\ UNCHANGED unattributed
        /\ \A d \in Operator \ {o} : op'[d] = op[d]
    BY <1>5, <1>t, Fields DEF reserveParent, rollbackParent, rollback, Goto, census
  <2> QED
    BY <2>1, <2>2, BareStays
<1>6. ASSUME NEW o \in Operator, bumpLoad(o) \/ bumpCAS(o) \/ Release(o) PROVE BareInv'
  <2>1. op[o].pc \in Holding
    BY <1>6 DEF bumpLoad, bumpCAS, Release, Holding
  <2>2. /\ op'[o].forced = op[o].forced /\ op'[o].n = op[o].n /\ UNCHANGED unattributed
        /\ \A d \in Operator \ {o} : op'[d] = op[d]
    BY <1>6, <1>t, Fields DEF bumpLoad, bumpCAS, Release, GiveBack, Goto, census
  <2> QED
    BY <2>1, <2>2, BareStays
<1>7. CASE UNCHANGED vars
  <2>1. unattributed' = unattributed /\ op' = op
    BY <1>7 DEF vars
  <2>2. \A t : Baring(op', t) = Baring(op, t)
    BY <2>1
  <2> QED
    BY <2>1, <2>2 DEF BareInv, Tracker
<1>8. ASSUME NEW o \in Operator, Reserve(o) \/ ReserveBlocking(o) PROVE BareInv'
  BY <1>1, <1>8 DEF Reserve, ReserveBlocking
<1>9. ASSUME NEW o \in Operator, ForceReserve(o) \/ ForceReserveFor(o) PROVE BareInv'
  BY <1>2, <1>9 DEF ForceReserve, ForceReserveFor
<1>10. ASSUME NEW o \in Operator, Step(o) PROVE BareInv'
  BY <1>3, <1>4, <1>5, <1>6, <1>8, <1>9, <1>10 DEF Step
<1> QED
  BY <1>7, <1>8, <1>9, <1>10 DEF Next

\* What it covers when no call is under way.
LEMMA QuietCensus ==
  ASSUME MemoryInv, BareInv, Quiet, NEW t \in Tracker
  PROVE  unattributed[t] >= Sum(Forced(t) \cap Bare)
<1> DEFINE F == Forced(t) \cap Bare
<1>0. IsFiniteSet(Operator)
  BY TrackerAssumption
<1>1. /\ Baring(op, t) \in [Operator -> Int] /\ Amounts(op) \in [Operator -> Int]
  BY Terms, BareTerms DEF MemoryInv, MemoryTypes
<1>2. F \in SUBSET Operator
  BY DEF Holders, Forced, Under
<1>3. \A o \in Operator : o \in F <=> Charged(op[o].pc, o, t) /\ op[o].forced /\ o \in Bare
  BY DEF Quiet, Holders, Forced, Under, Holding, Charged
<1>4. /\ \A o \in F : Amounts(op)[o] = Baring(op, t)[o]
      /\ \A o \in Operator \ F : Baring(op, t)[o] = 0
  BY <1>2, <1>3 DEF Amounts, Baring, Bares, Owes
<1> HIDE DEF F
<1>5. SumOf(Amounts(op), F) = SumOf(Baring(op, t), F)
  BY <1>0, <1>1, <1>2, <1>4, SumAgrees
<1>6. SumOf(Baring(op, t), F) = SumOf(Baring(op, t), Operator)
  BY <1>0, <1>1, <1>2, <1>4, SumOfPart, SMTT(30)
<1>7. /\ SumOf(Baring(op, t), Operator) \in Int /\ unattributed[t] \in Int
      /\ SumOf(Baring(op, t), Operator) <= unattributed[t]
  BY <1>0, <1>1, SumType DEF BareInv
<1>8. unattributed[t] >= SumOf(Amounts(op), F)
  BY <1>5, <1>6, <1>7, SMTT(30)
<1> QED
  BY <1>8 DEF Sum, Amounts, F

\* LedgerIsExact, of every step of Reserve, ReserveBlocking, ForceReserve, ForceReserveFor,
\* Release and ReleaseForced, interleaved at each atomic operation, for any operators,
\* sizes and budgets: the bytes of used are those that are held, the census names those
\* held by force for a purpose, and covers those forced without one.
THEOREM LedgerExact == Spec => []LedgerIsExact
<1>1. MemoryInv /\ BareInv => LedgerIsExact
  BY QuietUsage, QuietCensus DEF LedgerIsExact
<1>2. Init /\ MemoryInv => BareInv
  BY BareInit
<1>3. MemoryInv /\ MemoryInv' /\ BareInv /\ [Next]_vars => BareInv'
  BY BareNext
<1> QED
  BY <1>1, <1>2, <1>3, MemoryInductive, PTL DEF Spec

\* AdmittedFits: the optimistic addition of Reserve never lets more through than the budget.
THEOREM AdmittedInBudget == Spec => []AdmittedFits
<1>1. ASSUME MemoryInv, NEW t \in Tracker
      PROVE  Sum(Holders(t) \ Forced(t)) <= Budget
  <2> DEFINE H == Holders(t) \ Forced(t)
  <2>0. IsFiniteSet(Operator) /\ Budget \in Nat
    BY <1>1, TrackerAssumption
  <2>1. Admitting(op, t) \in [Operator -> Int] /\ Amounts(op) \in [Operator -> Int]
    BY <1>1, Terms DEF MemoryInv, MemoryTypes
  <2>2. /\ H \in SUBSET Operator
        /\ \A o \in H : ~ op[o].forced /\ Kept(op[o].pc, o, t)
    BY DEF Holders, Forced, Under, Kept
  <2>3. \A o \in H : Amounts(op)[o] = Admitting(op, t)[o]
    BY <2>2 DEF Amounts, Admitting, Admitted
  <2>4. \A o \in Operator : 0 <= Admitting(op, t)[o]
    BY <1>1, Calls, SMTT(30) DEF Admitting, Admitted
  <2> HIDE DEF H
  <2>5. SumOf(Amounts(op), H) = SumOf(Admitting(op, t), H)
    BY <2>0, <2>1, <2>2, <2>3, SumAgrees
  <2>6. SumOf(Admitting(op, t), H) <= SumOf(Admitting(op, t), Operator)
    BY <2>0, <2>1, <2>2, <2>4, SumOfPart
  <2>7. /\ SumOf(Admitting(op, t), H) \in Int
        /\ SumOf(Admitting(op, t), Operator) \in Int
        /\ SumOf(Admitting(op, t), Operator) <= Budget
    BY <1>1, <2>0, <2>1, <2>2, SumType DEF MemoryInv, Fits
  <2>8. SumOf(Amounts(op), H) <= Budget
    BY <2>0, <2>5, <2>6, <2>7, SMTT(30)
  <2> QED
    BY <2>8 DEF Sum, Amounts, H
<1>2. MemoryInv => AdmittedFits
  BY <1>1 DEF AdmittedFits, Tracker
<1> QED
  BY <1>2, MemoryInductive, PTL

\* PeakCovers: the compare and swap of bumpPeak, by calls that finish in any order, leaves
\* a peak that is not below what is held.
THEOREM PeakIsHigh == Spec => []PeakCovers
<1>1. ASSUME MemoryInv, NEW t \in Tracker, Quiet
      PROVE  peak[t] >= used[t]
  <2> DEFINE H == Holders(t)
  <2>1. H \in Outcomes(op, t)
    BY <1>1 DEF Outcomes, Kept, Undecided, Holders, Under, Quiet,
                Holding
  <2>2. \A o \in H : ~ Pending(op[o].pc, o, t)
    BY <1>1 DEF Pending, Holders, Under, Quiet
  <2>3. used[t] = SumOf(Amounts(op), H)
    BY <1>1, QuietUsage DEF Sum, Amounts
  <2> HIDE DEF H
  <2>4. SumOf(Amounts(op), H) <= peak[t]
    BY <1>1, <2>1, <2>2 DEF MemoryInv, Covered
  <2>5. used[t] \in Int /\ peak[t] \in Int
    BY <1>1 DEF MemoryInv, MemoryTypes
  <2> QED
    BY <2>3, <2>4, <2>5
<1>2. MemoryInv => PeakCovers
  BY <1>1 DEF PeakCovers, Tracker
<1> QED
  BY <1>2, MemoryInductive, PTL

=============================================================================

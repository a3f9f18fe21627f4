------------------------- MODULE TableLifecycleProofs -------------------------
(***************************************************************************)
(* The life of a table, for any names, calls and bounds: while no two      *)
(* calls have overlapped, a listed table has its record and its manifest,  *)
(* and the sweep of the dropped tables deletes no object of a listed one.  *)
(* Neither is inductive: the list is written from what was read steps      *)
(* before, and the sweep deletes by manifests it read earlier.  The        *)
(* strengthening, LifecycleInv, adds what each call and the sweep know,    *)
(* and that an incarnation is named only after it was minted.  What        *)
(* Recorded returns is shown by a least counterexample (LeastNat).         *)
(* That an object leaves only for a DropTable that has returned holds      *)
(* though calls overlap, and is inductive with DropInv.                    *)
(***************************************************************************)
EXTENDS TableLifecycle, SequenceTheorems, WellFoundedInduction, TLAPS

\* A leaf is Zenon's unless it names the SMT solver.
USE ZenonT(60)

\* An entry of the queue of drops.
Drop == [name : Name, files : SUBSET Nat, at : Nat]

\* The steps of the calls.
Over == {"ok", "failed", "dead"}
Creating == {"putManifest", "putTable", "putMeta", "rollbackTable", "rollbackManifest"}
Dropping == {"snapshot", "unlist", "recheck", "deleteTable", "deleteManifest", "queue"}

\* What a call holds.
CreateCall ==
  [pc : Creating \cup Over, kind : {"create"}, name : Name, seen : SUBSET Name, inc : Nat]
DropCall ==
  [pc : Dropping \cup Over, kind : {"drop"}, name : Name, seen : SUBSET Name, inc : Nat,
   owned : SUBSET Nat]

\* What the sweep holds while it runs.
Sweep ==
  [pc : {"list", "read", "delete"}, due : Seq(Drop) \ {<<>>}, again : BOOLEAN,
   names : SUBSET Name, reborn : SUBSET Name, live : SUBSET Nat, shown : SUBSET Name,
   found : SUBSET Nat, toRead : SUBSET Name]

\* The state has its types.
LifecycleTypes ==
  /\ meta \subseteq Name
  /\ record \in [Name -> Nat] /\ manifest \in [Name -> Nat]
  /\ files \in [Name -> SUBSET Nat]
  /\ lastInc \in Nat /\ recorded \in Nat
  /\ call \in [Call -> {NoCall} \cup CreateCall \cup DropCall]
  /\ pending \in Seq(Drop)
  /\ sweep \in {NoSweep} \cup Sweep
  /\ overlapped \in BOOLEAN

\* The drops that are queued or being swept.
Drops ==
  {pending[k] : k \in 1..Len(pending)}
    \cup (IF sweep = NoSweep THEN {} ELSE {sweep.due[k] : k \in 1..Len(sweep.due)})

\* No incarnation is named before it is minted.
Minted ==
  /\ \A n \in Name : manifest[n] <= lastInc
  /\ \A e \in Drops, i \in Nat : i \in e.files => i <= lastInc
  /\ \A c \in Call : call[c] # NoCall => call[c].inc <= lastInc
  /\ \A c \in Call : call[c] \in DropCall => \A i \in call[c].owned : i <= lastInc

\* At most one call runs.
Alone == \A c, d \in Call : Running(c) /\ Running(d) => c = d

\* What a call knows while it is alone.
CallKnows(c) ==
  LET x == call[c] IN
  /\ x.pc \in Creating => x.name \notin meta \/ x.name \in unanswered
  /\ x.pc \in {"putManifest", "putTable", "putMeta"} =>
       /\ x.seen = meta /\ x.name \notin meta
       /\ x.inc # 0 /\ x.inc \in objects
       /\ \A e \in Drops : x.inc \notin e.files
  /\ x.pc \in {"putTable", "putMeta"} =>
       manifest[x.name] = x.inc /\ files[x.name] = {x.inc}
  /\ x.pc = "putMeta" => record[x.name] = x.inc
  /\ x.pc \in {"snapshot", "unlist"} => x.seen = meta
  /\ x.pc \in {"recheck", "deleteTable", "deleteManifest", "queue"} => x.name \notin meta

\* Every file of the entry at hand that a listed table names is in F, or raced.
Spared(n, F) == \A f \in files[n] : f \in Entry.files => f \in F \cup raced

\* What the sweep knows while no calls overlap: a listed table is still to be read,
\* or what it names is spared.
SweepKnows ==
  /\ sweep.pc = "read" /\ sweep.again /\ Entry.name \notin Reborn =>
       \A n \in meta : n \in sweep.toRead \/ Spared(n, sweep.live \cup sweep.found)
  /\ sweep.pc = "delete" =>
       /\ sweep.again /\ Entry.name \notin Reborn
       /\ \A n \in meta : Spared(n, sweep.live)

\* The inductive invariant.  What the calls and the sweep know holds until two calls
\* overlap; from then on ListedIsWhole and LiveFilesStay promise nothing.
LifecycleInv ==
  /\ LifecycleTypes /\ Minted
  /\ overlapped \/ (Alone /\ (\A c \in Call : CallKnows(c)) /\ SweepKnows)
  /\ ListedIsWhole /\ LiveFilesStay

\* What a step of the sweep does to the drops and the objects: it takes up no drop,
\* and deletes only for one it has.
Reclaims ==
  /\ call' = call /\ lastInc' = lastInc /\ Drops' \subseteq Drops
  /\ \A i \in objects : i \in objects' \/ \E e \in Drops : i \in e.files

\* The strengthening of OnlyDroppedGo: every drop that is queued or being swept is of
\* a DropTable that has returned.
DropInv ==
  /\ OnlyDroppedGo
  /\ \A e \in Drops : \A f \in e.files : WasDropped(f)

\* A set of naturals has a least element.
LEMMA LeastNat ==
  ASSUME NEW T, T \subseteq Nat, T # {}
  PROVE  \E m \in T : \A n \in T : m <= n
<1>1. PICK m \in T : \A n \in T : ~ (<<n, m>> \in OpToRel(<, Nat))
  BY NatLessThanWellFounded, WFMin
<1>2. \A n \in T : n \in Nat /\ m \in Nat /\ ~ (n < m)
  BY <1>1 DEF OpToRel
<1>3. \A n \in T : m <= n
  BY <1>2, SMTT(30)
<1> QED
  BY <1>3

\* The equation of the loop, up to n.
Loops(f, n, q, times) ==
  f = [i \in 0..n |->
         IF i = 0 THEN <<>>
         ELSE IF q[i].at \in times THEN Append(f[i - 1], q[i]) ELSE f[i - 1]]

\* The loop of Recorded has a value for every queue: a minimal length without one
\* would extend the value of the length below it.
LEMMA LoopsEnd ==
  ASSUME NEW S, NEW q \in Seq(S), NEW times
  PROVE  \A n \in 0..Len(q) : \E f : Loops(f, n, q, times)
<1> DEFINE T == {n \in 0..Len(q) : ~ \E f : Loops(f, n, q, times)}
<1> SUFFICES ASSUME T # {} PROVE FALSE
  OBVIOUS
<1>0. Len(q) \in Nat
  BY SMTT(30)
<1>1. PICK m \in T : \A n \in T : m <= n
  <2>1. T \subseteq Nat
    BY <1>0, SMTT(30)
  <2> QED
    BY <2>1, LeastNat
<1>2. m \in 0..Len(q) /\ ~ \E f : Loops(f, m, q, times)
  OBVIOUS
<1>3. CASE m = 0
  <2>1. Loops([i \in 0..0 |-> <<>>], 0, q, times)
    BY SMTT(30) DEF Loops
  <2> QED
    BY <1>2, <1>3, <2>1
<1>4. CASE m # 0
  <2>0. m - 1 \in 0..Len(q) /\ ~ (m <= m - 1) /\ m \in Nat /\ m >= 1
    BY <1>0, <1>2, <1>4, SMTT(30)
  <2>1. PICK f : Loops(f, m - 1, q, times)
    BY <1>1, <2>0
  <2> DEFINE g == [i \in 0..m |->
                     IF i = m
                     THEN IF q[m].at \in times THEN Append(f[m - 1], q[m]) ELSE f[m - 1]
                     ELSE f[i]]
  <2>2. \A i \in 0..(m - 1) : g[i] = f[i]
    BY <2>0, SMTT(30)
  <2>3. \A i \in 0..(m - 1) :
          f[i] = IF i = 0 THEN <<>>
                 ELSE IF q[i].at \in times THEN Append(f[i - 1], q[i]) ELSE f[i - 1]
    BY <2>1 DEF Loops
  <2>4. \A i \in 0..m :
          g[i] = IF i = 0 THEN <<>>
                 ELSE IF q[i].at \in times THEN Append(g[i - 1], q[i]) ELSE g[i - 1]
    <3> SUFFICES ASSUME NEW i \in 0..m
                 PROVE g[i] = IF i = 0 THEN <<>>
                 ELSE IF q[i].at \in times THEN Append(g[i - 1], q[i]) ELSE g[i - 1]
      OBVIOUS
    <3>1. CASE i = m
      <4>1. m - 1 \in 0..(m - 1)
        BY <2>0, SMTT(30)
      <4>2. g[m - 1] = f[m - 1]
        BY <4>1, <2>2
      <4> QED
        BY <2>0, <3>1, <4>2, SMTT(30)
    <3>2. CASE i # m
      <4>1. i \in 0..(m - 1) /\ (i # 0 => i - 1 \in 0..(m - 1))
        BY <2>0, <3>2, SMTT(30)
      <4> HIDE DEF g
      <4> QED
        BY <4>1, <2>2, <2>3
    <3> QED
      BY <3>1, <3>2
  <2>5. g = [i \in 0..m |-> g[i]]
    OBVIOUS
  <2> HIDE DEF g
  <2>6. Loops(g, m, q, times)
    BY <2>4, <2>5 DEF Loops
  <2> QED
    BY <1>2, <2>6
<1> QED
  BY <1>3, <1>4

\* What the loop keeps are entries of the queue.
LEMMA RecordedOf ==
  ASSUME NEW S, NEW q \in Seq(S), NEW times
  PROVE  /\ Recorded(q, times) \in Seq(S)
         /\ \A j \in 1..Len(Recorded(q, times)) :
              \E k \in 1..Len(q) : Recorded(q, times)[j] = q[k]
<1> DEFINE R == {q[k] : k \in 1..Len(q)}
<1>0. Len(q) \in Nat
  BY SMTT(30)
<1>1. \E f : Loops(f, Len(q), q, times)
  BY <1>0, LoopsEnd, SMTT(30)
<1>2. PICK f : Loops(f, Len(q), q, times) /\ Recorded(q, times) = f[Len(q)]
  BY <1>1 DEF Loops, Recorded
<1>3. \A i \in 0..Len(q) :
          f[i] = IF i = 0 THEN <<>>
                 ELSE IF q[i].at \in times THEN Append(f[i - 1], q[i]) ELSE f[i - 1]
  BY <1>2 DEF Loops
<1> DEFINE T == {i \in 0..Len(q) : f[i] \notin Seq(R)}
<1>4. T = {}
  <2> SUFFICES ASSUME T # {} PROVE FALSE
    OBVIOUS
  <2>1. PICK m \in T : \A n \in T : m <= n
    <3>1. T \subseteq Nat
      BY <1>0, SMTT(30)
    <3> QED
      BY <3>1, LeastNat
  <2>2. m \in 0..Len(q) /\ f[m] \notin Seq(R)
    OBVIOUS
  <2>3. m # 0
    <3>1. 0 \in 0..Len(q)
      BY <1>0, SMTT(30)
    <3>2. f[0] = <<>>
      BY <1>3, <3>1
    <3>3. <<>> \in Seq(R)
      <4> HIDE DEF R
      <4> QED BY SMTT(30)
    <3> QED
      BY <2>2, <3>2, <3>3
  <2>4. m - 1 \in 0..Len(q) /\ ~ (m <= m - 1) /\ m \in 1..Len(q)
    BY <1>0, <2>2, <2>3, SMTT(30)
  <2>5. f[m - 1] \in Seq(R)
    <3>1. m - 1 \notin T
      <4> HIDE DEF T
      <4> QED
        BY <2>1, <2>4
    <3> QED
      BY <2>4, <3>1
  <2>6. q[m] \in R
    BY <2>4
  <2> HIDE DEF R
  <2>7. Append(f[m - 1], q[m]) \in Seq(R)
    BY <2>5, <2>6, SMTT(30)
  <2> QED
    BY <1>3, <2>2, <2>3, <2>5, <2>7
<1>5. Recorded(q, times) \in Seq(R)
  BY <1>0, <1>2, <1>4, SMTT(30)
<1>6. R \subseteq S
  BY SMTT(30)
<1>7. \A j \in 1..Len(Recorded(q, times)) : Recorded(q, times)[j] \in R
  <2> HIDE DEF R
  <2> QED
    BY <1>5, SMTT(30)
<1>8. Recorded(q, times) \in Seq(S)
  <2> HIDE DEF R
  <2> QED
    BY <1>5, <1>6, SMTT(30)
<1> QED
  BY <1>7, <1>8

-----------------------------------------------------------------------------

\* The call and the sweep that have not begun are of no other type.
LEMMA NoCallIs == NoCall.pc = "idle" /\ NoCall \notin CreateCall /\ NoCall \notin DropCall
  BY DEF NoCall, CreateCall, DropCall, Creating, Dropping, Over

LEMMA NoSweepIs == NoSweep.pc = "idle" /\ NoSweep \notin Sweep
  BY DEF NoSweep, Sweep

\* A call moves to another of its steps.
LEMMA Moved ==
  ASSUME LifecycleTypes, NEW c \in Call, NEW p, Goto(c, p),
         \/ call[c] \in CreateCall /\ p \in Creating \cup Over
         \/ call[c] \in DropCall /\ p \in Dropping \cup Over
  PROVE  /\ call' \in [Call -> {NoCall} \cup CreateCall \cup DropCall]
         /\ call'[c].pc = p
         /\ call'[c].name = call[c].name /\ call'[c].seen = call[c].seen
         /\ call'[c].inc = call[c].inc
         /\ call'[c] \in DropCall <=> call[c] \in DropCall
         /\ call[c] \in DropCall => call'[c].owned = call[c].owned
         /\ \A d \in Call \ {c} : call'[d] = call[d]
<1>1. /\ call' = [call EXCEPT ![c] = [call[c] EXCEPT !.pc = p]]
      /\ call \in [Call -> {NoCall} \cup CreateCall \cup DropCall]
  BY DEF LifecycleTypes, Goto
<1>2. CASE call[c] \in CreateCall /\ p \in Creating \cup Over
  BY <1>1, <1>2 DEF CreateCall, DropCall
<1>3. CASE call[c] \in DropCall /\ p \in Dropping \cup Over
  BY <1>1, <1>3 DEF CreateCall, DropCall
<1> QED
  BY <1>2, <1>3

\* The step a call is at says what kind it is.
LEMMA KindOf ==
  ASSUME LifecycleTypes, NEW c \in Call
  PROVE  /\ call[c].pc \in Creating => call[c] \in CreateCall
         /\ call[c].pc \in Dropping => call[c] \in DropCall
         /\ Running(c) <=> call[c].pc \in Creating \cup Dropping
         /\ call[c] # NoCall =>
              call[c].name \in Name /\ call[c].seen \subseteq Name /\ call[c].inc \in Nat
  BY NoCallIs
     DEF LifecycleTypes, CreateCall, DropCall, Creating, Dropping, Over, Running

\* What is listed keeps its objects, and its keys unless its CREATE rolled it back.
LEMMA ListedKeep ==
  ASSUME ListedIsWhole, LiveFilesStay, overlapped \/ SweepKnows,
         overlapped' = overlapped, meta' \subseteq meta, objects \subseteq objects',
         \A n \in meta' : n \in unanswered => n \in unanswered',
         sweep' = sweep, raced' = raced,
         \A n \in meta' : files'[n] \subseteq files[n],
         \A n \in meta' : n \notin unanswered =>
                           record'[n] = record[n] /\ manifest'[n] = manifest[n]
  PROVE  ListedIsWhole' /\ LiveFilesStay' /\ (overlapped \/ SweepKnows')
<1>1. ListedIsWhole'
  <2>1. CASE overlapped
    BY <2>1 DEF ListedIsWhole
  <2>2. CASE ~ overlapped
    <3> SUFFICES ASSUME NEW n \in meta', n \notin unanswered'
                 PROVE  record'[n] # 0 /\ manifest'[n] = record'[n]
      BY DEF ListedIsWhole
    <3>1. n \in meta \ unanswered
      OBVIOUS
    <3>2. record[n] # 0 /\ manifest[n] = record[n]
      BY <2>2, <3>1 DEF ListedIsWhole
    <3> QED
      BY <3>1, <3>2
  <2> QED
    BY <2>1, <2>2
<1>2. LiveFilesStay'
  BY DEF LiveFilesStay
<1>3. ASSUME ~ overlapped PROVE SweepKnows'
  <2>1. Entry' = Entry /\ Reborn' = Reborn
    BY DEF Entry, Reborn
  <2>2. \A n \in meta' : \A F : Spared(n, F) => Spared(n, F)'
    BY <2>1 DEF Spared
  <2> QED
    BY <1>3, <2>1, <2>2 DEF SweepKnows, Spared
<1> QED
  BY <1>1, <1>2, <1>3

\* While one call runs alone, the others are over or have not begun.
LEMMA OthersRest ==
  ASSUME LifecycleTypes, Alone, NEW c \in Call, Running(c),
         call' \in [Call -> {NoCall} \cup CreateCall \cup DropCall],
         \A d \in Call \ {c} : call'[d] = call[d]
  PROVE  Alone' /\ \A d \in Call \ {c} : CallKnows(d)'
<1>1. \A d \in Call \ {c} : ~ Running(d)
  BY DEF Alone
<1>2. \A d \in Call \ {c} : call'[d].pc \notin Creating \cup Dropping
  BY <1>1, KindOf
<1>3. \A d \in Call \ {c} : ~ Running(d)'
  BY <1>1 DEF Running
<1>4. Alone'
  BY <1>3 DEF Alone
<1>5. ASSUME NEW d \in Call \ {c} PROVE CallKnows(d)'
  BY <1>2 DEF CallKnows, Creating, Dropping
<1> QED
  BY <1>4, <1>5

\* The steps that write one of the keys, or none.
\* The steps of a call that write one key of its table.
KeyStep(c) ==
  \/ createManifest(c) \/ createTable(c) \/ rollbackTable(c) \/ rollbackManifest(c)
  \/ dropRecheck(c) \/ dropTable(c) \/ dropManifest(c)

\* They keep the invariant: alone, such a call writes the keys of a table that is
\* not listed.
LEMMA KeyStepKeeps ==
  ASSUME LifecycleInv, NEW c \in Call, KeyStep(c) PROVE LifecycleInv'
<1> DEFINE x == call[c]
<1>0. /\ meta' = meta /\ unanswered' = unanswered
      /\ objects' = objects /\ lastInc' = lastInc /\ pending' = pending
      /\ recorded' = recorded /\ sweep' = sweep /\ raced' = raced /\ overlapped' = overlapped
  BY DEF KeyStep, createManifest, createTable, rollbackTable, rollbackManifest,
     dropRecheck, dropTable, dropManifest, keys, queue
<1>t. LifecycleTypes /\ Minted /\ ListedIsWhole /\ LiveFilesStay
  BY DEF LifecycleInv
<1>1. /\ x.pc \in (Creating \cup Dropping) \ {"putMeta", "snapshot", "unlist", "queue"}
      /\ x.pc \in Creating => x \in CreateCall
      /\ x.pc \in Dropping => x \in DropCall
      /\ Running(c) /\ x.name \in Name /\ x.inc \in Nat
  <2>1. x.pc \in (Creating \cup Dropping) \ {"putMeta", "snapshot", "unlist", "queue"}
    BY DEF KeyStep, createManifest, createTable, rollbackTable, rollbackManifest,
       dropRecheck, dropTable, dropManifest, Creating, Dropping
  <2>2. x # NoCall
    BY <2>1, NoCallIs DEF Creating, Dropping
  <2> QED
    BY <1>t, <2>1, <2>2, KindOf
<1>2. PICK p : /\ Goto(c, p)
               /\ x.pc \in Creating => p \in {"putTable", "putMeta", "rollbackTable",
                                              "rollbackManifest", "failed"}
               /\ x.pc \in Dropping => p \in {"deleteTable", "deleteManifest", "queue"}
               /\ p = "putTable" => /\ x.pc = "putManifest"
                                    /\ manifest' = [manifest EXCEPT ![x.name] = x.inc]
                                    /\ files' = [files EXCEPT ![x.name] = {x.inc}]
               /\ p = "putMeta" => /\ x.pc = "putTable"
                                   /\ manifest' = manifest /\ files' = files
                                   /\ record' = [record EXCEPT ![x.name] = x.inc]
               /\ p = "queue" => (x.pc = "deleteManifest" \/ x.pc = "recheck")
  BY SMTT(30) DEF KeyStep, createManifest, createTable, rollbackTable, rollbackManifest,
     dropRecheck, dropTable, dropManifest, PutDone, PutManifest, Creating, Dropping
<1>3. /\ \/ record' = record
         \/ \E v \in {0, x.inc} : record' = [record EXCEPT ![x.name] = v]
      /\ \/ manifest' = manifest /\ files' = files
         \/ \E v \in {0, x.inc}, F \in {{}, {x.inc}} :
              /\ manifest' = [manifest EXCEPT ![x.name] = v]
              /\ files' = [files EXCEPT ![x.name] = F]
              /\ v # 0 => x.pc = "putManifest"
              /\ F # {} => x.pc = "putManifest"
  BY DEF KeyStep, createManifest, createTable, rollbackTable, rollbackManifest,
     dropRecheck, dropTable, dropManifest, PutDone, PutManifest, DeleteRecord, DeleteManifest,
     keys
<1>m. /\ call' \in [Call -> {NoCall} \cup CreateCall \cup DropCall]
      /\ call'[c].pc = p
      /\ call'[c].name = call[c].name /\ call'[c].seen = call[c].seen
      /\ call'[c].inc = call[c].inc
      /\ call'[c] \in DropCall <=> call[c] \in DropCall
      /\ call[c] \in DropCall => call'[c].owned = call[c].owned
      /\ \A d \in Call \ {c} : call'[d] = call[d]
  <2>1. \/ x \in CreateCall /\ p \in Creating \cup Over
        \/ x \in DropCall /\ p \in Dropping \cup Over
    BY <1>1, <1>2 DEF Creating, Dropping, Over
  <2> QED
    BY <1>t, <1>2, <2>1, Moved
<1>4. LifecycleTypes'
  <2>1. /\ record' \in [Name -> Nat] /\ manifest' \in [Name -> Nat]
        /\ files' \in [Name -> SUBSET Nat]
    <3>1. \A v \in {0, x.inc} : v \in Nat
      BY <1>1, SMTT(30)
    <3>2. record' \in [Name -> Nat]
      BY <1>t, <1>3, <3>1 DEF LifecycleTypes
    <3>m. \/ manifest' = manifest
          \/ \E v \in {0, x.inc} : manifest' = [manifest EXCEPT ![x.name] = v]
      BY <1>3
    <3>3. manifest' \in [Name -> Nat]
      BY <1>t, <3>1, <3>m DEF LifecycleTypes
    <3>4. files' \in [Name -> SUBSET Nat]
      BY <1>t, <1>1, <1>3, SMTT(30) DEF LifecycleTypes
    <3> QED
      BY <3>2, <3>3, <3>4
  <2> QED
    BY <1>t, <1>0, <1>m, <2>1 DEF LifecycleTypes
<1>5. Minted'
  <2>1. x # NoCall
    BY <1>1, NoCallIs DEF Creating, Dropping
  <2>2. \A n \in Name : manifest'[n] <= lastInc
    <3>1. x.inc <= lastInc /\ lastInc \in Nat /\ 0 <= lastInc
      BY <1>t, <2>1, SMTT(30) DEF Minted, LifecycleTypes
    <3> QED
      BY <1>t, <1>1, <1>3, <3>1 DEF LifecycleTypes, Minted
  <2>3. Drops' = Drops
    BY <1>0 DEF Drops
  <2> QED
    BY <1>t, <1>0, <1>m, <2>1, <2>2, <2>3 DEF Minted
<1>6. \A n \in Name \ {x.name} :
        record'[n] = record[n] /\ manifest'[n] = manifest[n] /\ files'[n] = files[n]
  BY <1>t, <1>1, <1>3 DEF LifecycleTypes
<1>7. CASE overlapped
  BY <1>0, <1>4, <1>5, <1>7 DEF LifecycleInv, ListedIsWhole, LiveFilesStay
<1>8. CASE ~ overlapped
  <2>0. Alone /\ CallKnows(c) /\ SweepKnows
    BY <1>8 DEF LifecycleInv
  <2>1. /\ x.name \notin meta \/ x.name \in unanswered
        /\ x.pc \in {"putManifest", "putTable"} \cup Dropping => x.name \notin meta
    BY <2>0, <1>1 DEF CallKnows, Creating, Dropping
  <2>k. \A n \in meta' : files'[n] \subseteq files[n]
    <3>0. x.name \in meta => files' = files \/ files' = [files EXCEPT ![x.name] = {}]
      BY <1>3, <2>1
    <3>1. x.name \in meta => files' = files \/ files'[x.name] = {}
      BY <1>t, <1>1, <3>0 DEF LifecycleTypes
    <3> QED
      BY <1>0, <1>t, <1>6, <3>1 DEF LifecycleTypes
  <2>2. ListedIsWhole' /\ LiveFilesStay' /\ (overlapped \/ SweepKnows')
    BY <1>0, <1>t, <1>6, <2>0, <2>1, <2>k, ListedKeep DEF LifecycleTypes
  <2>3. Alone' /\ \A d \in Call \ {c} : CallKnows(d)'
    BY <1>t, <1>1, <1>m, <2>0, OthersRest
  <2>4. CallKnows(c)'
    <3>0. Drops' = Drops
      BY <1>0 DEF Drops
    <3>1. CASE p = "putTable"
      <4>1. manifest'[x.name] = x.inc /\ files'[x.name] = {x.inc} /\ x.pc = "putManifest"
        BY <1>t, <1>1, <1>2, <3>1 DEF LifecycleTypes
      <4> QED
        BY <1>0, <1>m, <2>0, <2>1, <3>0, <3>1, <4>1 DEF CallKnows
    <3>2. CASE p = "putMeta"
      <4>1. /\ manifest' = manifest /\ files' = files /\ record'[x.name] = x.inc
            /\ x.pc = "putTable"
        BY <1>t, <1>1, <1>2, <3>2 DEF LifecycleTypes
      <4> QED
        BY <1>0, <1>m, <2>0, <2>1, <3>0, <3>2, <4>1 DEF CallKnows
    <3>3. CASE p \notin {"putTable", "putMeta"}
      <4>1. p \notin {"putManifest", "putTable", "putMeta", "snapshot", "unlist"}
        BY <1>1, <1>2, <3>3
      <4>2. p \in Creating => x.pc \in Creating
        BY <1>1, <1>2 DEF Creating, Dropping
      <4>3. p \in {"recheck", "deleteTable", "deleteManifest", "queue"} => x.pc \in Dropping
        BY <1>1, <1>2 DEF Creating, Dropping
      <4>4. p \in {"recheck", "deleteTable", "deleteManifest", "queue"} => x.name \notin meta
        BY <2>1, <4>3
      <4> QED
        BY <1>0, <1>m, <2>1, <4>1, <4>4 DEF CallKnows
    <3> QED
      BY <3>1, <3>2, <3>3
  <2> QED
    BY <1>0, <1>4, <1>5, <2>2, <2>3, <2>4 DEF LifecycleInv
<1> QED
  BY <1>7, <1>8

\* The entry at hand is one of the drops.
LEMMA EntryIsDrop ==
  ASSUME LifecycleTypes, sweep # NoSweep PROVE Entry \in Drops /\ Entry \in Drop
<1>1. sweep.due \in Seq(Drop) /\ sweep.due # <<>>
  BY DEF LifecycleTypes, Sweep
<1>2. Entry = sweep.due[1] /\ 1 \in 1..Len(sweep.due)
  BY <1>1, SMTT(30) DEF Entry
<1> QED
  BY <1>1, <1>2, SMTT(30) DEF Drops

\* The steps that write the list of tables: a table is listed when its keys are
\* written, and unlisted before they are deleted.
LEMMA MetaStepKeeps ==
  ASSUME LifecycleInv, NEW c \in Call, createMeta(c) \/ dropMeta(c) PROVE LifecycleInv'
<1> DEFINE x == call[c]
<1>0. /\ objects' = objects /\ lastInc' = lastInc /\ pending' = pending
      /\ recorded' = recorded /\ sweep' = sweep /\ raced' = raced /\ overlapped' = overlapped
      /\ record' = record /\ manifest' = manifest /\ files' = files
  BY DEF createMeta, dropMeta, queue
<1>t. LifecycleTypes /\ Minted /\ ListedIsWhole /\ LiveFilesStay
  BY DEF LifecycleInv
<1>1. /\ x.pc \in {"putMeta", "unlist"} /\ x # NoCall
      /\ x.pc = "putMeta" => x \in CreateCall
      /\ x.pc = "unlist" => x \in DropCall
      /\ Running(c) /\ x.name \in Name /\ x.seen \subseteq Name
  <2>1. x.pc \in {"putMeta", "unlist"}
    BY DEF createMeta, dropMeta
  <2>2. x # NoCall
    BY <2>1, NoCallIs
  <2> QED
    BY <1>t, <2>1, <2>2, KindOf DEF Creating, Dropping
<1>2. PICK p : /\ Goto(c, p)
               /\ \/ x.pc = "putMeta" /\ p = "ok" /\ meta' = x.seen \cup {x.name}
                  \/ /\ x.pc = "putMeta" /\ p = "rollbackTable"
                     /\ meta' = x.seen \cup {x.name} /\ x.name \in unanswered'
                  \/ x.pc = "putMeta" /\ p = "rollbackTable" /\ meta' = meta
                  \/ /\ x.pc = "unlist" /\ p \in {"recheck", "failed"}
                     /\ meta' = x.seen \ {x.name}
                  \/ x.pc = "unlist" /\ p = "failed" /\ meta' = meta
  BY DEF createMeta, dropMeta, PutDone, PutMeta
<1>u. \A n \in meta' : n \in unanswered => n \in unanswered'
  BY DEF createMeta, dropMeta, PutMeta
<1>m. /\ call' \in [Call -> {NoCall} \cup CreateCall \cup DropCall]
      /\ call'[c].pc = p
      /\ call'[c].name = call[c].name /\ call'[c].seen = call[c].seen
      /\ call'[c].inc = call[c].inc
      /\ call'[c] \in DropCall <=> call[c] \in DropCall
      /\ call[c] \in DropCall => call'[c].owned = call[c].owned
      /\ \A d \in Call \ {c} : call'[d] = call[d]
  <2>1. \/ x \in CreateCall /\ p \in Creating \cup Over
        \/ x \in DropCall /\ p \in Dropping \cup Over
    BY <1>1, <1>2 DEF Creating, Dropping, Over
  <2> QED
    BY <1>t, <1>2, <2>1, Moved
<1>4. LifecycleTypes'
  <2>1. meta' \subseteq Name
    BY <1>t, <1>1, <1>2 DEF LifecycleTypes
  <2> QED
    BY <1>t, <1>0, <1>m, <2>1 DEF LifecycleTypes
<1>d. Drops' = Drops
  BY <1>0 DEF Drops
<1>5. Minted'
  BY <1>t, <1>0, <1>1, <1>d, <1>m DEF Minted
<1>7. CASE overlapped
  BY <1>0, <1>4, <1>5, <1>7 DEF LifecycleInv, ListedIsWhole, LiveFilesStay
<1>8. CASE ~ overlapped
  <2>0. Alone /\ CallKnows(c) /\ SweepKnows
    BY <1>8 DEF LifecycleInv
  <2>3. Alone' /\ \A d \in Call \ {c} : CallKnows(d)'
    BY <1>t, <1>1, <1>m, <2>0, OthersRest
  <2>1. CASE meta' \subseteq meta
    <3>2. ListedIsWhole' /\ LiveFilesStay' /\ (overlapped \/ SweepKnows')
      BY <1>0, <1>t, <1>u, <2>0, <2>1, ListedKeep
    <3>4. CallKnows(c)'
      <4>1. p \in {"ok", "rollbackTable", "recheck", "failed"}
        BY <1>2
      <4>2. p = "rollbackTable" => x.name \notin meta' \/ x.name \in unanswered'
        BY <1>2, <2>0, <2>1 DEF CallKnows
      <4>3. p = "recheck" => x.name \notin meta'
        BY <1>2
      <4> QED
        BY <1>m, <4>1, <4>2, <4>3 DEF CallKnows, Creating
    <3> QED
      BY <1>0, <1>4, <1>5, <2>3, <3>2, <3>4 DEF LifecycleInv
  <2>2. CASE ~ (meta' \subseteq meta)
    <3>1. /\ x.pc = "putMeta" /\ meta' = meta \cup {x.name}
          /\ p = "ok" \/ (p = "rollbackTable" /\ x.name \in unanswered')
          /\ record[x.name] = x.inc /\ manifest[x.name] = x.inc /\ x.inc # 0
          /\ files[x.name] = {x.inc} /\ x.inc \in objects
          /\ \A e \in Drops : x.inc \notin e.files
      <4>1. /\ x.pc = "putMeta" /\ meta' = x.seen \cup {x.name}
            /\ p = "ok" \/ (p = "rollbackTable" /\ x.name \in unanswered')
        BY <1>2, <2>0, <2>2 DEF CallKnows
      <4> QED
        BY <4>1, <2>0 DEF CallKnows
    <3>2. ListedIsWhole'
      BY <1>0, <1>t, <1>u, <1>8, <3>1 DEF ListedIsWhole
    <3>3. LiveFilesStay'
      BY <1>0, <1>t, <1>8, <3>1 DEF LiveFilesStay
    <3>4. CallKnows(c)'
      BY <1>m, <3>1 DEF CallKnows, Creating
    <3>5. SweepKnows'
      <4>1. Entry' = Entry /\ Reborn' = Reborn
        BY <1>0 DEF Entry, Reborn
      <4>2. sweep.pc \in {"read", "delete"} => Entry \in Drops
        BY <1>t, NoSweepIs, EntryIsDrop
      <4>5. ASSUME sweep.pc = "read" /\ sweep.again /\ Entry.name \notin Reborn
            PROVE  (\A n \in meta : \/ n \in sweep.toRead
                                   \/ Spared(n, sweep.live \cup sweep.found))'
        <5>1. \A n \in meta : n \in sweep.toRead \/ Spared(n, sweep.live \cup sweep.found)
          BY <2>0, <4>5 DEF SweepKnows
        <5> QED
          BY <1>0, <3>1, <4>1, <4>2, <4>5, <5>1, SMTT(30) DEF Spared
      <4>6. ASSUME sweep.pc = "delete"
            PROVE  (\A n \in meta : Spared(n, sweep.live))'
        <5>1. \A n \in meta : Spared(n, sweep.live)
          BY <2>0, <4>6 DEF SweepKnows
        <5> QED
          BY <1>0, <3>1, <4>1, <4>2, <4>6, <5>1 DEF Spared
      <4> QED
        BY <1>0, <2>0, <4>1, <4>5, <4>6 DEF SweepKnows
    <3> QED
      BY <1>0, <1>4, <1>5, <2>3, <3>2, <3>3, <3>4, <3>5 DEF LifecycleInv
  <2> QED
    BY <2>1, <2>2
<1> QED
  BY <1>7, <1>8

\* The first and the last step of a DropTable that succeeds.
LEMMA DropStepKeeps ==
  ASSUME LifecycleInv, NEW c \in Call, dropSnapshot(c) \/ recordPendingDrop(c)
  PROVE  /\ LifecycleInv'
         /\ \A e \in Drops' : \/ e \in Drops
                            \/ /\ call'[c].pc = "ok" /\ call'[c].kind = "drop"
                               /\ e.files = call'[c].owned
<1> DEFINE x == call[c]
<1>0. /\ meta' = meta /\ unanswered' = unanswered
      /\ record' = record /\ manifest' = manifest /\ files' = files
      /\ objects' = objects /\ lastInc' = lastInc /\ sweep' = sweep /\ raced' = raced
      /\ overlapped' = overlapped
  BY DEF dropSnapshot, recordPendingDrop, keys, bounds
<1>t. LifecycleTypes /\ Minted /\ ListedIsWhole /\ LiveFilesStay
  BY DEF LifecycleInv
<1>1. x.pc \in {"snapshot", "queue"} /\ x \in DropCall /\ Running(c) /\ x.name \in Name
  <2>1. x.pc \in {"snapshot", "queue"}
    BY DEF dropSnapshot, recordPendingDrop
  <2> QED
    BY <1>t, <2>1, KindOf DEF Dropping, DropCall
<1>2. /\ call' \in [Call -> {NoCall} \cup CreateCall \cup DropCall]
      /\ \/ x.pc = "snapshot" /\ call'[c].pc = "unlist"
         \/ call'[c].pc = "ok"
      /\ call'[c].seen = x.seen /\ call'[c].inc <= lastInc
      /\ \A i \in call'[c].owned : i <= lastInc
      /\ \A d \in Call \ {c} : call'[d] = call[d]
  <2>1. CASE dropSnapshot(c)
    <3> DEFINE F == files[x.name] \cap {manifest[x.name]}
               r == [x EXCEPT !.pc = "unlist", !.inc = manifest[x.name], !.owned = F]
    <3>1. call' = [call EXCEPT ![c] = r] /\ x.pc = "snapshot"
      BY <1>t, <1>1, <2>1 DEF dropSnapshot, LifecycleTypes, DropCall
    <3>2. F \subseteq Nat /\ manifest[x.name] \in Nat /\ \A i \in F : i <= lastInc
      BY <1>t, <1>1 DEF LifecycleTypes, Minted
    <3>3. /\ r \in DropCall /\ r.pc = "unlist" /\ r.seen = x.seen /\ r.inc = manifest[x.name]
          /\ r.owned = F
      BY <1>1, <3>2 DEF DropCall, Dropping
    <3> HIDE DEF r
    <3> QED
      BY <1>t, <1>1, <3>1, <3>2, <3>3 DEF LifecycleTypes, Minted
  <2>2. CASE recordPendingDrop(c)
    <3>1. Goto(c, "ok") /\ x # NoCall
      BY <2>2, NoCallIs, <1>1 DEF recordPendingDrop
    <3> QED
      BY <1>t, <1>1, <3>1, Moved DEF Over, Minted
  <2> QED
    BY <2>1, <2>2
<1>3. /\ pending' \in Seq(Drop) /\ recorded' \in Nat
      /\ \A e \in Drops' : e \in Drops \/ e.files = x.owned
  <2>1. CASE pending' = pending /\ recorded' = recorded
    BY <1>0, <1>t, <2>1 DEF Drops, LifecycleTypes
  <2>2. CASE ~ (pending' = pending /\ recorded' = recorded)
    <3> DEFINE e == [name |-> x.name, files |-> x.owned, at |-> recorded']
    <3>1. recorded' = recorded + 1 /\ pending' = Append(Evict(pending), e)
      BY <2>2 DEF recordPendingDrop, dropSnapshot, queue
    <3>2. e \in Drop /\ e.files = x.owned
      BY <1>t, <1>1, <3>1, SMTT(30) DEF LifecycleTypes, Drop, DropCall
    <3>3. /\ Evict(pending) \in Seq(Drop)
          /\ \A j \in 1..Len(Evict(pending)) :
               \E k \in 1..Len(pending) : Evict(pending)[j] = pending[k]
      <4>1. CASE Evict(pending) = pending
        BY <1>t, <4>1 DEF LifecycleTypes
      <4>2. CASE Evict(pending) # pending
        <5> DEFINE a == Len(pending) + 2 - MaxPending
                   b == Len(pending)
        <5>1. /\ pending \in Seq(Drop) /\ Evict(pending) = SubSeq(pending, a, b)
              /\ ~ (Len(pending) < MaxPending)
          BY <1>t, <4>2 DEF Evict, LifecycleTypes
        <5>2. MaxPending \in Nat /\ Len(pending) \in Nat
          BY <5>1, BoundAssumption, SMTT(30)
        <5>3. a \in 2..b + 2 /\ b \in Nat
          BY <5>1, <5>2, SMTT(30)
        <5> HIDE DEF a
        <5>4. \A i \in 1..(b - a + 1) : a + i - 1 \in 1..b
          BY <5>2, <5>3, SMTT(30)
        <5>5. /\ SubSeq(pending, a, b) \in Seq(Drop)
              /\ Len(SubSeq(pending, a, b)) = IF a <= b THEN b - a + 1 ELSE 0
              /\ \A i \in 1..(b - a + 1) : SubSeq(pending, a, b)[i] = pending[a + i - 1]
          <6>1. a \in Int /\ b \in Int /\ \A i \in a..b : pending[i] \in Drop
            BY <5>1, <5>3, SMTT(30)
          <6> QED
            BY <6>1, SubSeqProperties, SMTT(30)
        <5>6. 1..Len(SubSeq(pending, a, b)) \subseteq 1..(b - a + 1)
          BY <5>3, <5>5, SMTT(30)
        <5> QED
          BY <5>1, <5>4, <5>5, <5>6
      <4> QED
        BY <4>1, <4>2
    <3> HIDE DEF e
    <3>4. /\ pending' \in Seq(Drop)
          /\ \A j \in 1..Len(pending') :
               pending'[j] = e \/ \E k \in 1..Len(pending) : pending'[j] = pending[k]
      BY <3>1, <3>2, <3>3, SMTT(30)
    <3> QED
      BY <1>0, <1>t, <3>1, <3>2, <3>4, SMTT(30) DEF Drops, LifecycleTypes
  <2> QED
    BY <2>1, <2>2
<1>4. LifecycleTypes'
  BY <1>t, <1>0, <1>2, <1>3 DEF LifecycleTypes
<1>5. Minted'
  BY <1>t, <1>0, <1>1, <1>2, <1>3 DEF Minted
<1>7. ASSUME overlapped PROVE LifecycleInv'
  BY <1>0, <1>4, <1>5, <1>7 DEF LifecycleInv, ListedIsWhole, LiveFilesStay
<1>8. ASSUME ~ overlapped PROVE LifecycleInv'
  <2>0. Alone /\ CallKnows(c) /\ SweepKnows
    BY <1>8 DEF LifecycleInv
  <2>1. Alone' /\ \A d \in Call \ {c} : CallKnows(d)'
    BY <1>t, <1>1, <1>2, <2>0, OthersRest
  <2>2. ListedIsWhole' /\ LiveFilesStay' /\ (overlapped \/ SweepKnows')
    BY <1>0, <1>t, <2>0, ListedKeep
  <2>3. CallKnows(c)'
    BY <1>0, <1>2, <2>0 DEF CallKnows, Creating
  <2> QED
    BY <1>0, <1>4, <1>5, <2>1, <2>2, <2>3 DEF LifecycleInv
<1>9. ASSUME NEW e \in Drops', e \notin Drops
      PROVE  call'[c].pc = "ok" /\ call'[c].kind = "drop" /\ e.files = call'[c].owned
  <2>1. recordPendingDrop(c)
    <3>1. ~ dropSnapshot(c)
      BY <1>0, <1>9 DEF dropSnapshot, queue, Drops
    <3> QED
      BY <3>1
  <2>2. Goto(c, "ok")
    BY <2>1 DEF recordPendingDrop
  <2>3. call'[c].pc = "ok" /\ call'[c] \in DropCall /\ call'[c].owned = x.owned
    BY <1>t, <1>1, <2>2, Moved DEF Over
  <2> QED
    BY <1>3, <1>9, <2>3 DEF DropCall
<1> QED
  BY <1>7, <1>8, <1>9

\* A call begins.
LEMMA BeginKeeps ==
  ASSUME LifecycleInv, NEW c \in Call, NEW n \in Name, createBegin(c, n) \/ dropBegin(c, n)
  PROVE  LifecycleInv'
<1>0. /\ meta' = meta /\ unanswered' = unanswered
      /\ record' = record /\ manifest' = manifest /\ files' = files
      /\ pending' = pending /\ recorded' = recorded /\ sweep' = sweep /\ raced' = raced
      /\ overlapped' = (overlapped \/ ~ Quiet)
  BY DEF createBegin, dropBegin, Begins, keys, queue, bounds
<1>t. LifecycleTypes /\ Minted /\ ListedIsWhole /\ LiveFilesStay
  BY DEF LifecycleInv
<1>d. Drops' = Drops
  BY <1>0 DEF Drops
<1>1. PICK r : /\ call' = [call EXCEPT ![c] = r]
               /\ \/ /\ r = [pc |-> "putManifest", kind |-> "create", name |-> n,
                             seen |-> meta, inc |-> lastInc + 1]
                     /\ n \notin meta /\ lastInc' = lastInc + 1
                     /\ objects' = objects \cup {lastInc + 1}
                  \/ /\ r = [pc |-> "snapshot", kind |-> "drop", name |-> n, seen |-> meta,
                             inc |-> 0, owned |-> {}]
                     /\ lastInc' = lastInc /\ objects' = objects
  BY DEF createBegin, dropBegin
<1>2. /\ r \in CreateCall \cup DropCall /\ lastInc' \in Nat /\ lastInc <= lastInc'
      /\ r.inc <= lastInc' /\ (r \in DropCall => r.owned = {}) /\ objects \subseteq objects'
  <2>0. lastInc \in Nat /\ lastInc + 1 \in Nat /\ lastInc <= lastInc + 1 /\ 0 <= lastInc
    BY <1>t, SMTT(30) DEF LifecycleTypes
  <2>m. n \in Name /\ meta \in SUBSET Name
    BY <1>t DEF LifecycleTypes
  <2>1. CASE /\ r = [pc |-> "putManifest", kind |-> "create", name |-> n,
                     seen |-> meta, inc |-> lastInc + 1]
             /\ lastInc' = lastInc + 1 /\ objects' = objects \cup {lastInc + 1}
    <3>1. r \in CreateCall /\ r.kind = "create" /\ r.inc = lastInc + 1
      BY <2>0, <2>1, <2>m DEF CreateCall, Creating
    <3>2. r \notin DropCall
      BY <3>1 DEF DropCall
    <3> QED
      BY <2>0, <2>1, <3>1, <3>2, SMTT(30)
  <2>2. CASE /\ r = [pc |-> "snapshot", kind |-> "drop", name |-> n, seen |-> meta,
                     inc |-> 0, owned |-> {}]
             /\ lastInc' = lastInc /\ objects' = objects
    <3>1. r \in DropCall /\ r.inc = 0 /\ r.owned = {}
      BY <2>2, <2>m DEF DropCall, Dropping
    <3> QED
      BY <2>0, <2>2, <3>1, SMTT(30)
  <2> QED
    BY <1>1, <2>1, <2>2
<1>3. /\ call' \in [Call -> {NoCall} \cup CreateCall \cup DropCall] /\ call'[c] = r
      /\ \A d \in Call \ {c} : call'[d] = call[d]
  BY <1>1, <1>2, <1>t DEF LifecycleTypes
<1>4. LifecycleTypes'
  <2>1. overlapped' \in BOOLEAN
    BY <1>0 DEF Quiet
  <2> QED
    BY <1>t, <1>0, <1>2, <1>3, <2>1 DEF LifecycleTypes
<1>5. Minted'
  <2>1. \A i \in Nat : i <= lastInc => i <= lastInc'
    BY <1>t, <1>2, SMTT(30) DEF LifecycleTypes
  <2>2. (\A m \in Name : manifest[m] <= lastInc)'
    BY <1>t, <1>0, <2>1 DEF Minted, LifecycleTypes
  <2>3. (\A e \in Drops, i \in Nat : i \in e.files => i <= lastInc)'
    BY <1>t, <1>d, <2>1 DEF Minted
  <2>4. ASSUME NEW d \in Call
        PROVE  /\ call'[d] # NoCall => call'[d].inc <= lastInc'
               /\ call'[d] \in DropCall => \A i \in call'[d].owned : i <= lastInc'
    <3>1. CASE d = c
      BY <1>2, <1>3, <3>1
    <3>2. CASE d # c
      <4>1. call[d] # NoCall => call[d].inc \in Nat
        BY <1>t, KindOf
      <4>2. call[d] \in DropCall => call[d].owned \subseteq Nat
        BY DEF DropCall
      <4> QED
        BY <1>t, <1>3, <2>1, <3>2, <4>1, <4>2 DEF Minted
    <3> QED
      BY <3>1, <3>2
  <2> QED
    BY <2>2, <2>3, <2>4 DEF Minted
<1>6. ListedIsWhole'
  BY <1>0, <1>t DEF ListedIsWhole
<1>7. LiveFilesStay'
  BY <1>0, <1>t, <1>2 DEF LiveFilesStay
<1>8. CASE ~ overlapped /\ Quiet
  <2>0. SweepKnows
    BY <1>8 DEF LifecycleInv
  <2>1. \A d \in Call \ {c} : call'[d].pc \notin Creating \cup Dropping
    BY <1>3, <1>8, <1>t, KindOf DEF Quiet
  <2>2. \A d \in Call \ {c} : ~ Running(d)'
    BY <1>3, <1>8 DEF Quiet, Running
  <2>3. Alone'
    BY <2>2 DEF Alone
  <2>4. ASSUME NEW d \in Call \ {c} PROVE CallKnows(d)'
    BY <2>1 DEF CallKnows, Creating, Dropping
  <2>5. CallKnows(c)'
    <3>0. lastInc + 1 \in Nat /\ ~ (lastInc + 1 <= lastInc)
      BY <1>t, SMTT(30) DEF LifecycleTypes
    <3>1. \A e \in Drops : lastInc + 1 \notin e.files
      BY <1>t, <3>0 DEF Minted
    <3>2. lastInc + 1 # 0
      BY <1>t, SMTT(30) DEF LifecycleTypes
    <3> QED
      BY <1>0, <1>1, <1>3, <1>d, <3>1, <3>2, SMTT(30) DEF CallKnows, Creating
  <2>6. SweepKnows'
    <3>1. Entry' = Entry /\ Reborn' = Reborn
      BY <1>0 DEF Entry, Reborn
    <3> QED
      BY <1>0, <2>0, <3>1 DEF SweepKnows, Spared
  <2> QED
    BY <1>4, <1>5, <1>6, <1>7, <2>3, <2>4, <2>5, <2>6 DEF LifecycleInv
<1>9. CASE overlapped \/ ~ Quiet
  BY <1>0, <1>4, <1>5, <1>6, <1>7, <1>9 DEF LifecycleInv
<1> QED
  BY <1>8, <1>9

\* AddFiles: what is registered in the window is remembered as raced.
LEMMA AddFilesKeeps ==
  ASSUME LifecycleInv, NEW n \in Name, NEW f \in Inc, AddFiles(n, f) PROVE LifecycleInv'
<1>0. /\ meta' = meta /\ unanswered' = unanswered
      /\ record' = record /\ manifest' = manifest /\ objects' = objects
      /\ lastInc' = lastInc /\ call' = call /\ pending' = pending /\ recorded' = recorded
      /\ sweep' = sweep /\ overlapped' = overlapped
      /\ files' = [files EXCEPT ![n] = files[n] \cup {f}]
      /\ raced' = IF Raced(f) THEN raced \cup {f} ELSE raced
      /\ n \in meta /\ f \in objects
  BY DEF AddFiles, queue, LifecycleInv, LifecycleTypes
<1>t. LifecycleTypes /\ Minted /\ ListedIsWhole /\ LiveFilesStay
  BY DEF LifecycleInv
<1>1. /\ files' \in [Name -> SUBSET Nat] /\ files'[n] = files[n] \cup {f}
      /\ \A m \in Name \ {n} : files'[m] = files[m]
      /\ raced \subseteq raced'
  BY <1>0, <1>t, SMTT(30) DEF LifecycleTypes, Inc
<1>d. Drops' = Drops
  BY <1>0 DEF Drops
<1>2. LifecycleTypes' /\ Minted'
  BY <1>0, <1>1, <1>d, <1>t DEF LifecycleTypes, Minted
<1>3. ListedIsWhole'
  BY <1>0, <1>t DEF ListedIsWhole
<1>4. LiveFilesStay'
  BY <1>0, <1>1, <1>t DEF LiveFilesStay, LifecycleTypes
<1>5. ASSUME ~ overlapped PROVE Alone' /\ (\A c \in Call : CallKnows(c)') /\ SweepKnows'
  <2>0. Alone /\ (\A c \in Call : CallKnows(c)) /\ SweepKnows
    BY <1>5 DEF LifecycleInv
  <2>1. Alone'
    BY <1>0, <2>0 DEF Alone, Running
  <2>2. ASSUME NEW c \in Call PROVE CallKnows(c)'
    <3>1. call[c].pc \in {"putTable", "putMeta"} =>
            call[c].name \in Name \ {n} /\ files'[call[c].name] = files[call[c].name]
      <4>1. call[c].pc \in {"putTable", "putMeta"} =>
              call[c] # NoCall /\ call[c].name \notin meta
        BY <2>0, NoCallIs DEF CallKnows, Creating
      <4> QED
        BY <1>0, <1>1, <1>t, <4>1, KindOf
    <3> QED
      BY <1>0, <1>d, <2>0, <3>1 DEF CallKnows
  <2>3. SweepKnows'
    <3>1. Entry' = Entry /\ Reborn' = Reborn
      BY <1>0 DEF Entry, Reborn
    <3>2. ASSUME sweep.pc \in {"read", "delete"}, sweep.again, Entry.name \notin Reborn,
                 NEW m \in meta, NEW F, Spared(m, F)
          PROVE  \A g \in files'[m] : g \in Entry.files => g \in F \cup raced'
      <4>1. f \in Entry.files => f \in raced'
        BY <1>0, <3>2 DEF Raced
      <4>2. files'[m] \subseteq files[m] \cup {f}
        BY <1>1, <1>t DEF LifecycleTypes
      <4>3. raced \subseteq raced'
        BY <1>0
      <4> QED
        BY <3>2, <4>1, <4>2, <4>3 DEF Spared
    <3>3. ASSUME sweep.pc = "read" /\ sweep.again /\ Entry.name \notin Reborn
          PROVE  (\A m \in meta : \/ m \in sweep.toRead
                                 \/ Spared(m, sweep.live \cup sweep.found))'
      <4>1. \A m \in meta : m \in sweep.toRead \/ Spared(m, sweep.live \cup sweep.found)
        BY <2>0, <3>3 DEF SweepKnows
      <4> QED
        BY <1>0, <3>1, <3>2, <3>3, <4>1, SMTT(30) DEF Spared
    <3>4. ASSUME sweep.pc = "delete"
          PROVE  (\A m \in meta : Spared(m, sweep.live))'
      <4>1. /\ \A m \in meta : Spared(m, sweep.live)
            /\ sweep.again /\ Entry.name \notin Reborn
        BY <2>0, <3>4 DEF SweepKnows
      <4> QED
        BY <1>0, <3>1, <3>2, <3>4, <4>1, SMTT(30) DEF Spared
    <3> QED
      BY <1>0, <2>0, <3>1, <3>3, <3>4 DEF SweepKnows
  <2> QED
    BY <2>1, <2>2, <2>3
<1> QED
  BY <1>0, <1>2, <1>3, <1>4, <1>5 DEF LifecycleInv

\* The process dies.
LEMMA CrashKeeps ==
  ASSUME LifecycleInv, Crash PROVE LifecycleInv'
<1>0. /\ meta' = meta /\ unanswered' = unanswered
      /\ record' = record /\ manifest' = manifest /\ files' = files
      /\ objects' = objects /\ lastInc' = lastInc /\ recorded' = recorded /\ raced' = raced
      /\ overlapped' = overlapped /\ pending' = <<>> /\ sweep' = NoSweep
  BY DEF Crash, keys
<1>t. LifecycleTypes /\ Minted /\ ListedIsWhole /\ LiveFilesStay
  BY DEF LifecycleInv
<1>1. ASSUME NEW c \in Call
      PROVE  /\ call'[c] \in {NoCall} \cup CreateCall \cup DropCall
             /\ call'[c].pc \notin Creating \cup Dropping
             /\ call'[c] # NoCall => call'[c].inc <= lastInc
             /\ call'[c] \in DropCall => \A i \in call'[c].owned : i <= lastInc
  <2>1. CASE ~ Running(c)
    <3>1. call'[c] = call[c]
      BY <2>1 DEF Crash
    <3> QED
      BY <1>t, <2>1, <3>1, KindOf DEF LifecycleTypes, Minted
  <2>2. CASE Running(c)
    <3>1. call'[c] = [call[c] EXCEPT !.pc = "dead"]
      BY <2>2 DEF Crash
    <3>2. call[c] # NoCall /\ call[c] \in CreateCall \cup DropCall /\ call[c].inc <= lastInc
      BY <1>t, <2>2, NoCallIs DEF Running, LifecycleTypes, Minted
    <3>3. CASE call[c] \in CreateCall
      BY <3>1, <3>2, <3>3 DEF CreateCall, DropCall, Over, Creating, Dropping
    <3>4. CASE call[c] \in DropCall
      <4>1. \A i \in call[c].owned : i <= lastInc
        BY <1>t, <3>4 DEF Minted
      <4> QED
        BY <3>1, <3>2, <3>4, <4>1 DEF CreateCall, DropCall, Over, Creating, Dropping
    <3> QED
      BY <3>2, <3>3, <3>4
  <2> QED
    BY <2>1, <2>2
<1>2. call' \in [Call -> {NoCall} \cup CreateCall \cup DropCall]
  <2>1. call' = [c \in Call |-> call'[c]]
    BY DEF Crash
  <2> QED
    BY <1>1, <2>1
<1>d. Drops' = {}
  BY <1>0, SMTT(30) DEF Drops
<1>3. LifecycleTypes'
  BY <1>0, <1>2, <1>t, SMTT(30) DEF LifecycleTypes
<1>4. Minted'
  BY <1>0, <1>1, <1>d, <1>t DEF Minted
<1>5. ListedIsWhole' /\ LiveFilesStay'
  BY <1>0, <1>t DEF ListedIsWhole, LiveFilesStay
<1>6. Alone'
  <2>1. \A c \in Call : call'[c].pc \in {"idle"} \cup Over
    BY <1>1, NoCallIs DEF CreateCall, DropCall
  <2> QED
    BY <2>1 DEF Alone, Running, Over
<1>7. \A c \in Call : CallKnows(c)'
  BY <1>1 DEF CallKnows, Creating, Dropping
<1>8. SweepKnows'
  BY <1>0, NoSweepIs DEF SweepKnows
<1> QED
  BY <1>3, <1>4, <1>5, <1>6, <1>7, <1>8 DEF LifecycleInv

-----------------------------------------------------------------------------
\* The sweep.

\* A step of the sweep touches neither the keys nor the calls.  What is left to
\* show is its own state, and that the objects it deletes are of no live table.
LEMMA SweepKeeps ==
  ASSUME LifecycleInv, UNCHANGED <<keys, lastInc, call, recorded, raced, overlapped>>,
         sweep' \in {NoSweep} \cup Sweep, pending' \in Seq(Drop), Drops' \subseteq Drops,
         objects' = objects
           \/ (sweep.pc = "delete" /\ objects' = objects \ (Entry.files \ sweep.live)),
         overlapped \/ SweepKnows'
  PROVE  LifecycleInv' /\ Reclaims
<1>0. /\ meta' = meta /\ unanswered' = unanswered
      /\ record' = record /\ manifest' = manifest /\ files' = files
      /\ lastInc' = lastInc /\ call' = call /\ recorded' = recorded /\ raced' = raced
      /\ overlapped' = overlapped
  BY DEF keys
<1>t. LifecycleTypes /\ Minted /\ ListedIsWhole /\ LiveFilesStay
  BY DEF LifecycleInv
<1>1. LifecycleTypes'
  BY <1>0, <1>t DEF LifecycleTypes
<1>2. Minted'
  BY <1>0, <1>t DEF Minted
<1>3. ListedIsWhole'
  BY <1>0, <1>t, SMTT(30) DEF ListedIsWhole
<1>d. \A i \in objects : i \in objects' \/ \E e \in Drops : i \in e.files
  <2>1. sweep.pc = "delete" => Entry \in Drops
    BY <1>t, NoSweepIs, EntryIsDrop
  <2> QED
    BY <2>1
<1>4. ASSUME overlapped PROVE LifecycleInv'
  BY <1>0, <1>1, <1>2, <1>3, <1>4 DEF LifecycleInv, LiveFilesStay
<1>5. ASSUME ~ overlapped PROVE LifecycleInv'
  <2>0. Alone /\ (\A c \in Call : CallKnows(c)) /\ SweepKnows
    BY <1>5 DEF LifecycleInv
  <2>1. LiveFilesStay'
    <3>1. CASE objects' = objects
      <4>1. \A n \in meta : files[n] \subseteq objects \cup raced
        BY <1>5, <1>t DEF LiveFilesStay
      <4>2. \A n \in meta' : files'[n] \subseteq objects' \cup raced'
        BY <1>0, <3>1, <4>1
      <4> QED
        BY <4>2 DEF LiveFilesStay
    <3>2. CASE sweep.pc = "delete" /\ objects' = objects \ (Entry.files \ sweep.live)
      <4>1. \A n \in meta : Spared(n, sweep.live)
        BY <2>0, <3>2 DEF SweepKnows
      <4> QED
        BY <1>0, <1>t, <3>2, <4>1, SMTT(30) DEF LiveFilesStay, Spared
    <3> QED
      BY <3>1, <3>2
  <2>2. ASSUME NEW c \in Call PROVE CallKnows(c)'
    BY <1>0, <1>d, <2>0 DEF CallKnows
  <2>3. Alone'
    BY <1>0, <2>0 DEF Alone, Running
  <2> QED
    BY <1>0, <1>1, <1>2, <1>3, <1>5, <2>1, <2>2, <2>3 DEF LifecycleInv
<1>6. Reclaims
  BY <1>0, <1>d DEF Reclaims
<1> QED
  BY <1>4, <1>5, <1>6

\* The sweep takes the entries that are due.
LEMMA FlushBeginKeeps ==
  ASSUME LifecycleInv, NEW t, flushBegin(t)
  PROVE  LifecycleInv' /\ Reclaims
<1> DEFINE due == Recorded(pending, 1..t)
           rest == Recorded(pending, (t + 1)..recorded)
           s == [pc |-> "list", due |-> due, again |-> FALSE, names |-> {}, reborn |-> {},
                 live |-> {}, shown |-> {}, found |-> {}, toRead |-> {}]
<1>t. pending \in Seq(Drop)
  BY DEF LifecycleInv, LifecycleTypes
<1>1. /\ due \in Seq(Drop) /\ rest \in Seq(Drop)
      /\ \A j \in 1..Len(due) : \E k \in 1..Len(pending) : due[j] = pending[k]
      /\ \A j \in 1..Len(rest) : \E k \in 1..Len(pending) : rest[j] = pending[k]
  BY <1>t, RecordedOf, SMTT(30)
<1>2. sweep' = s /\ pending' = rest /\ due # <<>> /\ objects' = objects
      /\ UNCHANGED <<keys, lastInc, call, recorded, raced, overlapped>>
  BY DEF flushBegin, bounds
<1> HIDE DEF due, rest
<1>3. s \in Sweep /\ s.due = due /\ s.pc = "list"
  BY <1>1, <1>2 DEF Sweep
<1> HIDE DEF s
<1>4. Drops' \subseteq Drops
  <2>1. Drops' = {rest[k] : k \in 1..Len(rest)} \cup {due[k] : k \in 1..Len(due)}
    BY <1>2, <1>3, NoSweepIs DEF Drops
  <2>2. {pending[k] : k \in 1..Len(pending)} \subseteq Drops
    BY DEF Drops
  <2>3. \A k \in 1..Len(rest) : rest[k] \in Drops
    BY <1>1, <2>2
  <2>4. \A k \in 1..Len(due) : due[k] \in Drops
    BY <1>1, <2>2
  <2> QED
    BY <2>1, <2>3, <2>4
<1>5. SweepKnows'
  BY <1>2, <1>3 DEF SweepKnows
<1> QED
  BY <1>1, <1>2, <1>3, <1>4, <1>5, SweepKeeps

\* It lists the tables.
LEMMA FlushListKeeps ==
  ASSUME LifecycleInv, flushList
  PROVE  LifecycleInv' /\ Reclaims
<1> DEFINE s == [sweep EXCEPT !.pc = "read", !.shown = meta, !.toRead = meta]
<1>t. /\ meta \subseteq Name /\ pending \in Seq(Drop) /\ sweep \in Sweep
  BY NoSweepIs DEF LifecycleInv, LifecycleTypes, flushList
<1>1. sweep' = s /\ pending' = pending /\ objects' = objects /\ meta' = meta
      /\ UNCHANGED <<keys, lastInc, call, recorded, raced, overlapped>>
  BY DEF flushList, bounds, queue, keys
<1>2. s \in Sweep /\ s.due = sweep.due /\ s.pc = "read" /\ s.toRead = meta
  BY <1>t DEF Sweep
<1> HIDE DEF s
<1>3. Drops' = Drops
  BY <1>t, <1>1, <1>2, NoSweepIs DEF Drops
<1>4. SweepKnows'
  BY <1>1, <1>2 DEF SweepKnows
<1> QED
  BY <1>t, <1>1, <1>2, <1>3, <1>4, SweepKeeps

\* It reads one manifest.
LEMMA FlushReadKeeps ==
  ASSUME LifecycleInv, NEW n \in Name, flushRead(n)
  PROVE  LifecycleInv' /\ Reclaims
<1> DEFINE s == [sweep EXCEPT !.toRead = sweep.toRead \ {n},
                              !.found = sweep.found \cup files[n]]
<1>t. /\ pending \in Seq(Drop) /\ sweep \in Sweep /\ files[n] \subseteq Nat
  BY NoSweepIs DEF LifecycleInv, LifecycleTypes, flushRead
<1>1. sweep' = s /\ pending' = pending /\ objects' = objects /\ sweep.pc = "read"
      /\ meta' = meta /\ files' = files /\ raced' = raced
      /\ UNCHANGED <<keys, lastInc, call, recorded, raced, overlapped>>
  BY <1>t DEF flushRead, bounds, queue, keys, Sweep
<1>2. /\ s \in Sweep /\ s.due = sweep.due /\ s.pc = sweep.pc /\ s.again = sweep.again
      /\ s.toRead = sweep.toRead \ {n} /\ s.found = sweep.found \cup files[n]
      /\ s.live = sweep.live /\ s.reborn = sweep.reborn /\ s.shown = sweep.shown
      /\ s.names = sweep.names
  BY <1>t DEF Sweep
<1> HIDE DEF s
<1>3. Drops' = Drops
  BY <1>t, <1>1, <1>2, NoSweepIs, SMTT(30) DEF Drops
<1>4. ASSUME SweepKnows PROVE SweepKnows'
  <2>1. Entry' = Entry /\ Reborn' = Reborn
    BY <1>1, <1>2 DEF Entry, Reborn
  <2>2. ASSUME sweep.again, Entry.name \notin Reborn, NEW m \in meta
        PROVE  \/ m \in s.toRead
               \/ \A f \in files[m] : f \in Entry.files => f \in s.live \cup s.found \cup raced
    <3>1. m \in sweep.toRead \/ Spared(m, sweep.live \cup sweep.found)
      BY <1>1, <1>4, <2>2 DEF SweepKnows
    <3>2. CASE m = n
      BY <1>2, <3>2
    <3>3. CASE m # n
      BY <1>2, <3>1, <3>3 DEF Spared
    <3> QED
      BY <3>2, <3>3
  <2>3. ASSUME sweep.again, Entry.name \notin Reborn
        PROVE  (\A m \in meta : m \in sweep.toRead \/ Spared(m, sweep.live \cup sweep.found))'
    <3> SUFFICES ASSUME NEW m \in meta', m \notin s.toRead, NEW f \in files'[m], f \in Entry'.files
                 PROVE  f \in s.live \cup s.found \cup raced
      BY <1>1 DEF Spared
    <3> QED
      BY <1>1, <2>1, <2>2, <2>3
  <2> QED
    BY <1>1, <1>2, <2>1, <2>3 DEF SweepKnows
<1>5. overlapped \/ SweepKnows'
  BY <1>4 DEF LifecycleInv
<1> QED
  BY <1>t, <1>1, <1>2, <1>3, <1>5, SweepKeeps

\* The next entry, if there is one: its catalog is still to be read.
LEMMA NextEntryIs ==
  ASSUME NEW s \in Sweep
  PROVE  \/ NextEntry(s) = NoSweep
         \/ /\ NextEntry(s) \in Sweep /\ NextEntry(s).pc = "list"
            /\ \A j \in 1..Len(NextEntry(s).due) :
                 \E k \in 1..Len(s.due) : NextEntry(s).due[j] = s.due[k]
<1>1. s.due \in Seq(Drop) /\ s.due # <<>> /\ Len(s.due) \in Nat
  BY SMTT(30) DEF Sweep
<1>2. CASE Len(s.due) = 1
  BY <1>2 DEF NextEntry
<1>3. CASE Len(s.due) # 1
  <2> DEFINE r == [s EXCEPT !.pc = "list", !.due = Tail(s.due),
                            !.found = {}, !.shown = {}, !.toRead = {}]
  <2>1. Tail(s.due) \in Seq(Drop) /\ Len(Tail(s.due)) = Len(s.due) - 1
    BY <1>1, SMTT(30)
  <2>t. Tail(s.due) # <<>>
    <3>1. Len(s.due) - 1 # 0
      BY <1>1, <1>3, SMTT(30)
    <3>2. Len(<<>>) = 0
      OBVIOUS
    <3> QED
      BY <2>1, <3>1, <3>2
  <2>2. \A j \in 1..Len(Tail(s.due)) : j + 1 \in 1..Len(s.due) /\ Tail(s.due)[j] = s.due[j + 1]
    BY <1>1, SMTT(30)
  <2>3. r \in Sweep /\ r.pc = "list" /\ r.due = Tail(s.due)
    BY <2>1, <2>t DEF Sweep
  <2>4. NextEntry(s) = r
    BY <1>3 DEF NextEntry
  <2> HIDE DEF r
  <2> QED
    BY <2>2, <2>3, <2>4
<1> QED
  BY <1>2, <1>3

\* A sweep that goes on to the next entry, with the queue as it is.
LEMMA NextEntryKeeps ==
  ASSUME LifecycleInv, UNCHANGED <<keys, lastInc, call, recorded, raced, overlapped>>,
         NEW s \in Sweep, s.due = sweep.due, sweep \in Sweep, sweep' = NextEntry(s),
         pending' \in Seq(Drop), \A j \in 1..Len(pending') : pending'[j] \in Drops,
         objects' = objects
           \/ (sweep.pc = "delete" /\ objects' = objects \ (Entry.files \ sweep.live))
  PROVE  LifecycleInv' /\ Reclaims
<1>1. \/ sweep' = NoSweep
      \/ /\ sweep' \in Sweep /\ sweep'.pc = "list"
         /\ \A j \in 1..Len(sweep'.due) :
              \E k \in 1..Len(sweep.due) : sweep'.due[j] = sweep.due[k]
  BY NextEntryIs, SMTT(30)
<1>2. SweepKnows'
  BY <1>1, NoSweepIs DEF SweepKnows
<1>3. Drops' \subseteq Drops
  <2>1. \A k \in 1..Len(sweep.due) : sweep.due[k] \in Drops
    BY NoSweepIs DEF Drops
  <2>2. CASE sweep' = NoSweep
    BY <2>2 DEF Drops
  <2>3. CASE sweep' # NoSweep
    <3>1. \A j \in 1..Len(sweep'.due) : sweep'.due[j] \in Drops
      BY <1>1, <2>1, <2>3
    <3>2. Drops' = {pending'[k] : k \in 1..Len(pending')}
                     \cup {sweep'.due[k] : k \in 1..Len(sweep'.due)}
      BY <2>3 DEF Drops
    <3> QED
      BY <3>1, <3>2
  <2> QED
    BY <2>2, <2>3
<1> QED
  BY <1>1, <1>2, <1>3, SweepKeeps

\* It deletes the objects that it spared not, and goes on.
LEMMA FlushDeleteKeeps ==
  ASSUME LifecycleInv, flushDelete
  PROVE  LifecycleInv' /\ Reclaims
<1>t. pending \in Seq(Drop) /\ sweep \in Sweep
  BY NoSweepIs DEF LifecycleInv, LifecycleTypes, flushDelete
<1>1. /\ UNCHANGED <<keys, lastInc, call, recorded, raced, overlapped>>
      /\ sweep' = NextEntry(sweep) /\ pending' = pending /\ sweep.pc = "delete"
      /\ objects' = objects \/ objects' = objects \ (Entry.files \ sweep.live)
  BY DEF flushDelete, queue
<1>2. \A j \in 1..Len(pending) : pending[j] \in Drops
  BY DEF Drops
<1> QED
  BY <1>t, <1>1, <1>2, NextEntryKeeps

\* An entry that fails goes back to the queue, or the rest of the sweep does.
LEMMA FlushErrorKeeps ==
  ASSUME LifecycleInv, NEW n \in Name, flushError(n)
  PROVE  LifecycleInv' /\ Reclaims
<1>t. LifecycleTypes /\ pending \in Seq(Drop) /\ sweep \in Sweep /\ sweep # NoSweep
      /\ sweep.due \in Seq(Drop)
  BY NoSweepIs DEF LifecycleInv, LifecycleTypes, flushError, Sweep
<1>0. /\ UNCHANGED <<keys, lastInc, call, recorded, raced, overlapped>> /\ objects' = objects
  BY DEF flushError
<1>2. /\ \A j \in 1..Len(pending) : pending[j] \in Drops
      /\ \A j \in 1..Len(sweep.due) : sweep.due[j] \in Drops
  BY <1>t DEF Drops
<1>3. CASE sweep.again
  <2>1. pending' = <<Entry>> \o pending /\ sweep' = NextEntry(sweep)
    BY <1>3 DEF flushError
  <2>2. Entry \in Drops /\ Entry \in Drop
    BY <1>t, EntryIsDrop
  <2>3. pending' \in Seq(Drop) /\ \A j \in 1..Len(pending') : pending'[j] \in Drops
    <3>1. <<Entry>> \in Seq(Drop) /\ Len(<<Entry>>) = 1 /\ <<Entry>>[1] = Entry
      BY <2>2, SMTT(30)
    <3> QED
      BY <1>t, <1>2, <2>1, <2>2, <3>1, SMTT(30)
  <2> QED
    BY <1>t, <1>0, <2>1, <2>3, NextEntryKeeps
<1>4. CASE ~ sweep.again
  <2> DEFINE r == Reversed(sweep.due)
  <2>1. pending' = r \o pending /\ sweep' = NoSweep
    BY <1>4 DEF flushError
  <2>2. r \in Seq(Drop) /\ \A j \in 1..Len(r) : r[j] \in Drops
    <3>0. Len(sweep.due) \in Nat
      BY <1>t, SMTT(30)
    <3>1. \A k \in 1..Len(sweep.due) : Len(sweep.due) + 1 - k \in 1..Len(sweep.due)
      BY <3>0, SMTT(30)
    <3>2. r = [k \in 1..Len(sweep.due) |-> sweep.due[Len(sweep.due) + 1 - k]]
      BY DEF Reversed
    <3>3. \A k \in 1..Len(sweep.due) : r[k] \in Drop /\ r[k] \in Drops
      BY <1>t, <1>2, <3>1, <3>2, SMTT(30)
    <3> HIDE DEF r
    <3>5. r \in [1..Len(sweep.due) -> Drop]
      BY <3>2, <3>3
    <3>4. r \in Seq(Drop) /\ Len(r) = Len(sweep.due)
      BY <3>0, <3>5, SMTT(30)
    <3> QED
      BY <3>3, <3>4
  <2> HIDE DEF r
  <2>3. pending' \in Seq(Drop) /\ \A j \in 1..Len(pending') : pending'[j] \in Drops
    BY <1>t, <1>2, <2>1, <2>2, SMTT(30)
  <2>4. Drops' \subseteq Drops
    BY <2>1, <2>3 DEF Drops
  <2>5. SweepKnows'
    BY <2>1, NoSweepIs DEF SweepKnows
  <2> QED
    BY <1>0, <2>1, <2>3, <2>4, <2>5, SweepKeeps
<1> QED
  BY <1>3, <1>4

\* What it read of every table: it reads again, deletes, or drops the entry.
LEMMA FlushObservedKeeps ==
  ASSUME LifecycleInv, flushObserved
  PROVE  LifecycleInv' /\ Reclaims
<1>t. pending \in Seq(Drop) /\ sweep \in Sweep
  BY NoSweepIs DEF LifecycleInv, LifecycleTypes, flushObserved
<1>0. /\ UNCHANGED <<keys, lastInc, call, recorded, raced, overlapped>> /\ objects' = objects
      /\ pending' = pending /\ meta' = meta /\ files' = files /\ raced' = raced
      /\ sweep.pc = "read" /\ sweep.toRead = {}
  BY DEF flushObserved, queue, bounds, keys
<1>1. \A j \in 1..Len(pending) : pending[j] \in Drops
  BY DEF Drops
<1>2. Reborn \subseteq Name
  BY <1>t DEF Reborn, Sweep
<1>3. /\ Observed \in Sweep /\ Observed.due = sweep.due /\ Observed.reborn = Reborn
      /\ Observed.live = sweep.live \cup sweep.found /\ Observed.again = TRUE
      /\ Observed.shown = {}
  BY <1>t, <1>2 DEF Observed, Sweep
<1>4. CASE sweep' = NextEntry(Observed)
  BY <1>t, <1>0, <1>1, <1>3, <1>4, NextEntryKeeps
<1>5. CASE sweep' = [Observed EXCEPT !.pc = "list"] \/
           (sweep' = [Observed EXCEPT !.pc = "delete"] /\ sweep.again /\ Entry.name \notin Reborn)
  <2>1. /\ sweep' \in Sweep /\ sweep'.due = sweep.due /\ sweep'.reborn = Reborn
        /\ sweep'.live = sweep.live \cup sweep.found /\ sweep'.again = TRUE
        /\ sweep'.shown = {}
        /\ \/ sweep'.pc = "list"
           \/ sweep'.pc = "delete" /\ sweep.again /\ Entry.name \notin Reborn
    BY <1>3, <1>5 DEF Sweep
  <2>2. Drops' = Drops
    BY <1>t, <1>0, <2>1, NoSweepIs, SMTT(30) DEF Drops
  <2>3. Entry' = Entry /\ Reborn' = Reborn
    BY <2>1 DEF Entry, Reborn
  <2>4. ASSUME SweepKnows PROVE SweepKnows'
    <3>1. CASE sweep'.pc = "list"
      BY <3>1 DEF SweepKnows
    <3>2. CASE sweep'.pc = "delete" /\ sweep.again /\ Entry.name \notin Reborn
      <4>1. \A m \in meta : Spared(m, sweep.live \cup sweep.found)
        BY <1>0, <2>4, <3>2 DEF SweepKnows
      <4>2. (\A m \in meta : Spared(m, sweep.live))'
        <5> SUFFICES ASSUME NEW m \in meta', NEW f \in files'[m], f \in Entry'.files
                     PROVE  f \in sweep'.live \cup raced'
          BY DEF Spared
        <5> QED
          BY <1>0, <2>1, <2>3, <4>1 DEF Spared
      <4> QED
        BY <2>1, <2>3, <3>2, <4>2 DEF SweepKnows
    <3> QED
      BY <2>1, <3>1, <3>2
  <2>5. overlapped \/ SweepKnows'
    BY <2>4 DEF LifecycleInv
  <2> QED
    BY <1>t, <1>0, <2>1, <2>2, <2>5, SweepKeeps
<1> QED
  BY <1>4, <1>5 DEF flushObserved

-----------------------------------------------------------------------------

\* Nothing is listed, queued or running at first.
LEMMA LifecycleInit == Init => LifecycleInv
<1> SUFFICES ASSUME Init PROVE LifecycleInv
  OBVIOUS
<1>1. LifecycleTypes
  <2>1. pending \in Seq(Drop)
    BY SMTT(30) DEF Init
  <2>2. call \in [Call -> {NoCall} \cup CreateCall \cup DropCall]
    BY DEF Init
  <2> QED
    BY <2>1, <2>2 DEF Init, LifecycleTypes
<1>2. Drops = {} /\ \A c \in Call : call[c] = NoCall
  BY SMTT(30) DEF Init, Drops
<1>3. Minted
  BY <1>2, NoCallIs, SMTT(30) DEF Init, Minted
<1>4. Alone /\ (\A c \in Call : CallKnows(c)) /\ SweepKnows
  BY <1>2, NoCallIs, NoSweepIs DEF Init, Alone, Running, CallKnows, Creating, SweepKnows
<1>5. ListedIsWhole /\ LiveFilesStay
  BY DEF Init, ListedIsWhole, LiveFilesStay
<1> QED
  BY <1>1, <1>3, <1>4, <1>5 DEF LifecycleInv

\* Every step keeps the invariant.
LEMMA LifecycleStep == LifecycleInv /\ [Next]_vars => LifecycleInv'
<1> SUFFICES ASSUME LifecycleInv, [Next]_vars PROVE LifecycleInv'
  OBVIOUS
<1>1. ASSUME NEW c \in Call, CallStep(c) PROVE LifecycleInv'
  BY <1>1, KeyStepKeeps, MetaStepKeeps, DropStepKeeps DEF CallStep, KeyStep
<1>2. CASE SweepStep
  BY <1>2, FlushBeginKeeps, FlushListKeeps, FlushReadKeeps, FlushErrorKeeps,
     FlushObservedKeeps, FlushDeleteKeeps DEF SweepStep
<1>3. CASE UNCHANGED vars
  <2>0. /\ UNCHANGED <<keys, lastInc, call, recorded, raced, overlapped>> /\ objects' = objects
        /\ pending' = pending /\ sweep' = sweep /\ meta' = meta /\ files' = files /\ raced' = raced
    BY <1>3 DEF vars, keys
  <2>1. Drops' = Drops
    BY <2>0 DEF Drops
  <2>2. sweep' \in {NoSweep} \cup Sweep /\ pending' \in Seq(Drop)
    BY <2>0 DEF LifecycleInv, LifecycleTypes
  <2>3. Entry' = Entry /\ Reborn' = Reborn
    BY <2>0 DEF Entry, Reborn
  <2>4. overlapped \/ SweepKnows'
    BY <2>0, <2>3 DEF LifecycleInv, SweepKnows, Spared
  <2> QED
    BY <2>0, <2>1, <2>2, <2>4, SweepKeeps
<1> QED
  BY <1>1, <1>2, <1>3, BeginKeeps, AddFilesKeeps, CrashKeeps DEF Next

\* CreateTable, DropTable, AddFiles and flushPendingDrops keep the invariant, in
\* whatever order their steps and their failures come.
THEOREM LifecycleInductive == Spec => []LifecycleInv
  BY LifecycleInit, LifecycleStep, PTL DEF Spec

\* While no two calls have overlapped, a listed table has its record and its manifest,
\* and both are of one incarnation: CreateTable writes the list last, and DropTable
\* unlists the table first, whatever puts fail, applied or not, and wherever the
\* process dies.  Only a name whose put of the list was applied and reported an error is
\* rolled back while it is listed.
THEOREM ListedTablesAreWhole == Spec => []ListedIsWhole
<1>1. LifecycleInv => ListedIsWhole
  BY DEF LifecycleInv
<1> QED
  BY <1>1, LifecycleInductive, PTL

\* While no two calls have overlapped, flushPendingDrops deletes no object that a listed
\* table's manifest names, though a dropped table was created again or its files were
\* registered elsewhere, but for those registered in the window its comment admits.
THEOREM LiveTablesKeepFiles == Spec => []LiveFilesStay
<1>1. LifecycleInv => LiveFilesStay
  BY DEF LifecycleInv
<1> QED
  BY <1>1, LifecycleInductive, PTL

-----------------------------------------------------------------------------
\* A call that is over stays as it is.
LEMMA OkStays ==
  ASSUME LifecycleInv, [Next]_vars
  PROVE  \A d \in Call : call[d].pc = "ok" => call'[d] = call[d]
<1> SUFFICES ASSUME NEW d \in Call, call[d].pc = "ok" PROVE call'[d] = call[d]
  OBVIOUS
<1>t. call \in [Call -> {NoCall} \cup CreateCall \cup DropCall]
  BY DEF LifecycleInv, LifecycleTypes
<1>1. ASSUME NEW c \in Call, NEW n \in Name, createBegin(c, n) \/ dropBegin(c, n)
      PROVE  call'[d] = call[d]
  <2>1. c # d
    BY <1>1, NoCallIs DEF createBegin, dropBegin, Begins
  <2> QED
    BY <1>1, <1>t, <2>1 DEF createBegin, dropBegin
<1>2. ASSUME NEW c \in Call, CallStep(c) PROVE call'[d] = call[d]
  <2>1. c # d
    BY <1>2 DEF CallStep, createManifest, createTable, createMeta, rollbackTable,
       rollbackManifest, dropSnapshot, dropMeta, dropRecheck, dropTable, dropManifest,
       recordPendingDrop
  <2>2. \E r : call' = [call EXCEPT ![c] = r]
    BY <1>2 DEF CallStep, createManifest, createTable, createMeta, rollbackTable,
       rollbackManifest, dropSnapshot, dropMeta, dropRecheck, dropTable, dropManifest,
       recordPendingDrop, PutDone, Goto
  <2> QED
    BY <1>t, <2>1, <2>2
<1>3. CASE Crash
  <2>1. ~ Running(d)
    BY DEF Running
  <2> QED
    BY <1>3, <2>1 DEF Crash
<1>4. CASE UNCHANGED vars
  BY <1>4 DEF vars
<1>5. CASE SweepStep
  BY <1>5, FlushBeginKeeps, FlushListKeeps, FlushReadKeeps, FlushErrorKeeps,
     FlushObservedKeeps, FlushDeleteKeeps DEF SweepStep, Reclaims
<1>6. ASSUME NEW n \in Name, NEW f \in Inc, AddFiles(n, f) PROVE call'[d] = call[d]
  BY <1>6 DEF AddFiles
<1> QED
  BY <1>1, <1>2, <1>3, <1>4, <1>5, <1>6 DEF Next

\* Only the sweep deletes objects, for a drop it has, and only the last step of a
\* DropTable adds a drop.
LEMMA DropStep == LifecycleInv /\ DropInv /\ [Next]_vars => DropInv'
<1> SUFFICES ASSUME LifecycleInv, DropInv, [Next]_vars PROVE DropInv'
  OBVIOUS
<1>1. \A f : WasDropped(f) => WasDropped(f)'
  BY OkStays DEF WasDropped
<1> DEFINE ObjectsStay == \A f \in 1..lastInc' :
             f \in objects' \/ (f \in 1..lastInc /\ (f \in objects => \E e \in Drops : f \in e.files))
           DropsAreDone == \A e \in Drops' : e \in Drops \/ \A f \in e.files : WasDropped(f)'
<1>2. SUFFICES ObjectsStay /\ DropsAreDone
  <2>1. ASSUME ObjectsStay PROVE OnlyDroppedGo'
    <3> SUFFICES ASSUME NEW f \in 1..lastInc', f \notin objects' PROVE WasDropped(f)'
      BY DEF OnlyDroppedGo
    <3>1. f \in 1..lastInc /\ (f \in objects => \E e \in Drops : f \in e.files)
      BY <2>1
    <3> QED
      BY <1>1, <3>1 DEF DropInv, OnlyDroppedGo
  <2>2. ASSUME DropsAreDone PROVE \A e \in Drops' : \A f \in e.files : WasDropped(f)'
    BY <1>1, <2>2 DEF DropInv
  <2> QED
    BY <2>1, <2>2 DEF DropInv
<1>3. ASSUME lastInc' = lastInc, objects' = objects PROVE ObjectsStay
  BY <1>3
<1>4. ASSUME NEW c \in Call, NEW n \in Name, createBegin(c, n) \/ dropBegin(c, n)
      PROVE  ObjectsStay /\ DropsAreDone
  <2>1. pending' = pending /\ sweep' = sweep
    BY <1>4 DEF createBegin, dropBegin, queue
  <2>2. Drops' = Drops
    BY <2>1 DEF Drops
  <2>3. CASE createBegin(c, n)
    <3>1. lastInc \in Nat /\ lastInc' = lastInc + 1 /\ objects' = objects \cup {lastInc + 1}
      BY <2>3 DEF createBegin, LifecycleInv, LifecycleTypes
    <3>2. \A f \in 1..lastInc' : f \in 1..lastInc \/ f = lastInc + 1
      BY <3>1, SMTT(30)
    <3> QED
      BY <2>2, <3>1, <3>2
  <2>4. CASE dropBegin(c, n)
    BY <1>3, <2>2, <2>4 DEF dropBegin
  <2> QED
    BY <1>4, <2>3, <2>4
<1>5. ASSUME NEW c \in Call, CallStep(c) PROVE ObjectsStay /\ DropsAreDone
  <2>1. objects' = objects /\ lastInc' = lastInc
    BY <1>5 DEF CallStep, createManifest, createTable, createMeta, rollbackTable,
       rollbackManifest, dropSnapshot, dropMeta, dropRecheck, dropTable, dropManifest,
       recordPendingDrop
  <2>2. CASE dropSnapshot(c) \/ recordPendingDrop(c)
    <3>1. \A e \in Drops' : \/ e \in Drops
                            \/ /\ call'[c].pc = "ok" /\ call'[c].kind = "drop"
                               /\ e.files = call'[c].owned
      BY <2>2, DropStepKeeps
    <3>2. DropsAreDone
      BY <3>1 DEF WasDropped
    <3> QED
      BY <1>3, <2>1, <3>2
  <2>3. CASE ~ (dropSnapshot(c) \/ recordPendingDrop(c))
    <3>1. pending' = pending /\ sweep' = sweep
      BY <1>5, <2>3 DEF CallStep, createManifest, createTable, createMeta, rollbackTable,
         rollbackManifest, dropMeta, dropRecheck, dropTable, dropManifest, queue
    <3>2. Drops' = Drops
      BY <3>1 DEF Drops
    <3> QED
      BY <1>3, <2>1, <3>2
  <2> QED
    BY <2>2, <2>3
<1>6. CASE SweepStep
  <2>1. Reclaims
    BY <1>6, FlushBeginKeeps, FlushListKeeps, FlushReadKeeps, FlushErrorKeeps,
       FlushObservedKeeps, FlushDeleteKeeps DEF SweepStep
  <2> QED
    BY <2>1 DEF Reclaims
<1>7. ASSUME NEW n \in Name, NEW f \in Inc, AddFiles(n, f) PROVE ObjectsStay /\ DropsAreDone
  <2>1. objects' = objects /\ lastInc' = lastInc /\ pending' = pending /\ sweep' = sweep
    BY <1>7 DEF AddFiles, queue
  <2>2. Drops' = Drops
    BY <2>1 DEF Drops
  <2> QED
    BY <1>3, <2>1, <2>2
<1>8. CASE Crash
  <2>1. objects' = objects /\ lastInc' = lastInc /\ pending' = <<>> /\ sweep' = NoSweep
    BY <1>8 DEF Crash
  <2>2. Drops' = {}
    BY <2>1, SMTT(30) DEF Drops
  <2> QED
    BY <1>3, <2>1, <2>2
<1>9. CASE UNCHANGED vars
  <2>1. objects' = objects /\ lastInc' = lastInc /\ pending' = pending /\ sweep' = sweep
    BY <1>9 DEF vars
  <2>2. Drops' = Drops
    BY <2>1 DEF Drops
  <2> QED
    BY <1>3, <2>1, <2>2
<1> HIDE DEF ObjectsStay, DropsAreDone
<1> QED
  BY <1>4, <1>5, <1>6, <1>7, <1>8, <1>9 DEF Next

\* An object leaves the store only for a DropTable that has returned, though calls
\* overlap: recordPendingDrop is its last step, and FlushDroppedTableFiles deletes for
\* what was recorded.
THEOREM OnlyDroppedFilesGo == Spec => []OnlyDroppedGo
<1>1. Init => DropInv
  <2> SUFFICES ASSUME Init PROVE DropInv
    OBVIOUS
  <2>1. Drops = {} /\ 1..lastInc = {}
    BY SMTT(30) DEF Init, Drops
  <2> QED
    BY <2>1 DEF DropInv, OnlyDroppedGo
<1>2. DropInv => OnlyDroppedGo
  BY DEF DropInv
<1> QED
  BY <1>1, <1>2, DropStep, LifecycleInductive, PTL DEF Spec

=============================================================================

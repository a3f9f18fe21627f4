------------------------ MODULE ObjectRetirementProofs ------------------------
(***************************************************************************)
(* No sweep deletes an object that a listed table names or that a call is  *)
(* about to register, for any number of tables, paths, registrations and   *)
(* sweeps.  The argument: a path is never held by both sides at once       *)
(* (Exclusion), so while a sweep holds it no manifest gains it, and what   *)
(* the sweep saw of a manifest stays an upper bound (Observed).  And how   *)
(* the objects of a task's results come into the store (UploadManager): a  *)
(* task is reported durable only once all its objects are stored, a job    *)
(* settles once, and the gate of the uploads neither overflows nor leaks.  *)
(***************************************************************************)
EXTENDS ObjectRetirement, UploadManager, FiniteSetTheorems, TLAPS

\* A leaf is Zenon's unless it names the SMT solver.
USE ZenonT(60)

\* The call has declared its paths and not released them.
InFlight(r) == call[r].pc \in {"declared", "put", "ok", "failed"}

\* A path is held by registrations or by sweeps, never by both.
Exclusion == \A p \in Path : registering[p] = {} \/ retiring[p] = {}

\* A call in flight holds its paths, and has its table's state as it left it.
CallsHold ==
  \A r \in Register :
    /\ InFlight(r) => \A p \in call[r].paths : r \in registering[p]
    /\ InFlight(r) => call[r].seen \subseteq call[r].paths
    /\ InFlight(r) => \A p \in call[r].seen : objects[p] # 0
    /\ call[r].pc = "put" => call[r].kind = "create"
    /\ call[r].pc \in {"declared", "put"} =>
         (call[r].kind = "create" <=> call[r].table \notin listed)

\* One call at a time creates a table.
OneCreate ==
  \A q, r \in Register :
    /\ call[q].pc \in {"declared", "put"} /\ call[q].kind = "create"
    /\ call[r].pc \in {"declared", "put"} /\ call[r].kind = "create"
    => q = r

\* A manifest whose table is not listed belongs to the call that creates it.
UnlistedIsPut ==
  \A t \in Table \ listed :
    \/ manifest[t] = {}
    \/ \E r \in Register : /\ call[r].pc = "put" /\ call[r].table = t
                           /\ manifest[t] = call[r].paths

\* A sweep holds its marked paths, and decides only about those.
SweepsHold ==
  \A s \in Sweep :
    /\ \A p \in sweep[s].marked : s \in retiring[p]
    /\ sweep[s].left \subseteq sweep[s].marked
    /\ sweep[s].doomed \subseteq sweep[s].marked \ sweep[s].live
    /\ sweep[s].doomed # {} => sweep[s].pc = "reading" /\ sweep[s].toRead = {}

\* What a sweep has read so far bounds what the manifests name.
Observed ==
  \A s \in Sweep : sweep[s].pc = "reading" =>
    \A p \in sweep[s].marked : \A t \in listed \ sweep[s].toRead :
      p \in manifest[t] => p \in sweep[s].live

\* The entries that were vouched for are in their manifest and have an object.
Vouched ==
  \A t \in Table : \A p \in vouched[t] : p \in manifest[t] /\ objects[p] # 0

IInv ==
  /\ TypeOK
  /\ Exclusion
  /\ CallsHold
  /\ OneCreate
  /\ UnlistedIsPut
  /\ SweepsHold
  /\ Observed
  /\ Vouched

\* The table a call that is not in progress refers to is a table.
LEMMA NoCallType == NoCall \in Call
<1>1. (CHOOSE t \in Table : TRUE) \in Table
  BY StartAssumption
<1> QED BY <1>1 DEF NoCall, Call, Kind

LEMMA NoSweepType == NoSweep \in Swept
BY DEF NoSweep, Swept

LEMMA InitInv == Init => IInv
<1> SUFFICES ASSUME Init PROVE IInv
  OBVIOUS
<1>1. TypeOK
  <2>1. call \in [Register -> Call]
    BY NoCallType DEF Init
  <2>2. sweep \in [Sweep -> Swept]
    BY NoSweepType DEF Init
  <2>3. objects \in [Path -> Time] /\ now \in Time
    BY TimeAssumption, SMTT(30) DEF Init, Time
  <2> QED BY <2>1, <2>2, <2>3, StartAssumption DEF Init, TypeOK
<1>2. Exclusion /\ CallsHold /\ OneCreate
  BY DEF Init, Exclusion, CallsHold, OneCreate, InFlight, NoCall
<1>3. UnlistedIsPut
  BY StartAssumption DEF Init, UnlistedIsPut
<1>4. SweepsHold /\ Observed
  BY DEF Init, SweepsHold, Observed, NoSweep
<1>5. Vouched
  <2> SUFFICES ASSUME NEW t \in Table, NEW p \in Loaded[t]
               PROVE  objects[p] # 0
    BY DEF Init, Vouched
  <2>1. t \in Listed /\ p \in Path
    BY StartAssumption
  <2>2. \E q \in Listed : p \in Loaded[q]
    BY <2>1
  <2> QED BY <2>1, <2>2, SMTT(30) DEF Init
<1> QED BY <1>1, <1>2, <1>3, <1>4, <1>5 DEF IInv

-----------------------------------------------------------------------------
\* Registrations.

LEMMA PutInv ==
  ASSUME IInv, NEW u \in Path, Upload(u) PROVE IInv'
<1> USE DEF Upload, catalogVars, queueVars
<1>1. TypeOK'
  BY TimeAssumption, SMTT(30) DEF IInv, TypeOK, Time
<1>2. now + 1 # 0 /\ \A p \in Path : objects'[p] # 0 \/ objects'[p] = objects[p]
  BY TimeAssumption, SMTT(30) DEF IInv, TypeOK, Time
<1>3. Exclusion' /\ OneCreate' /\ UnlistedIsPut' /\ SweepsHold' /\ Observed'
  BY SMTT(30) DEF IInv, Exclusion, OneCreate, UnlistedIsPut, SweepsHold, Observed
<1>4. CallsHold' /\ Vouched'
  BY <1>2, SMTT(30) DEF IInv, TypeOK, Call, CallsHold, Vouched, InFlight
<1> QED BY <1>1, <1>3, <1>4 DEF IInv

LEMMA BeginInv ==
  ASSUME IInv, NEW r \in Register, NEW k \in Kind, NEW t \in Table,
         NEW P \in SUBSET Path, beginRegistration(r, k, t, P)
  PROVE  IInv'
<1> USE DEF beginRegistration, catalogVars, queueVars
<1>1. TypeOK'
  BY DEF IInv, TypeOK, Call
<1>2. Exclusion'
  BY DEF IInv, TypeOK, Exclusion, Refused
<1>3. CallsHold'
  BY SMTT(30) DEF IInv, TypeOK, CallsHold, InFlight, Call
<1>4. OneCreate'
  BY SMTT(30) DEF IInv, TypeOK, OneCreate, Call
<1>5. UnlistedIsPut'
  BY SMTT(30) DEF IInv, TypeOK, UnlistedIsPut, Call, NoCall
<1>6. SweepsHold' /\ Observed' /\ Vouched'
  BY DEF IInv, SweepsHold, Observed, Vouched
<1> QED BY <1>1, <1>2, <1>3, <1>4, <1>5, <1>6 DEF IInv

\* While a call holds its paths no sweep does.
LEMMA HeldIsUnmarked ==
  ASSUME IInv, NEW r \in Register, InFlight(r), NEW s \in Sweep
  PROVE  call[r].paths \cap sweep[s].marked = {}
BY DEF IInv, TypeOK, Call, Swept, Exclusion, CallsHold, SweepsHold

\* A call that moves on keeps its other fields.
LEMMA CallMoves ==
  ASSUME NEW c \in Call, NEW p \in {"put", "ok", "failed", "done"}
  PROVE  [c EXCEPT !.pc = p] \in Call
BY DEF Call

LEMMA AddFilesInv ==
  ASSUME IInv, NEW r \in Register, addFiles(r) PROVE IInv'
<1> USE DEF addFiles, queueVars
<1>0. PICK answer \in {"ok", "failed"} : call' = [call EXCEPT ![r].pc = answer]
  BY DEF Applied
<1>1. TypeOK'
  <2>0. call[r] \in Call /\ [call[r] EXCEPT !.pc = answer] \in Call
    BY CallMoves DEF IInv, TypeOK
  <2>1. call' \in [Register -> Call]
    BY <1>0, <2>0 DEF IInv, TypeOK
  <2>2. /\ call[r].table \in Table /\ call[r].paths \subseteq Path
        /\ call[r].seen \subseteq Path
    BY <2>0 DEF Call
  <2> QED BY <2>1, <2>2 DEF IInv, TypeOK, Vouch
<1>2. Exclusion' /\ SweepsHold'
  BY DEF IInv, Exclusion, SweepsHold
<1>3. CallsHold' /\ OneCreate'
  BY <1>0, SMTT(30) DEF IInv, TypeOK, CallsHold, OneCreate, InFlight, Call
<1>4. UnlistedIsPut'
  <2>1. call[r].table \in listed
    BY DEF IInv, CallsHold
  <2>2. \A q \in Register : call[q].pc = "put" => call'[q] = call[q]
    BY <1>0 DEF IInv, TypeOK
  <2> QED BY <2>1, <2>2, SMTT(30) DEF IInv, TypeOK, UnlistedIsPut
<1>5. Observed'
  <2>1. \A s \in Sweep : call[r].paths \cap sweep[s].marked = {}
    BY HeldIsUnmarked DEF InFlight
  <2> QED BY <2>1 DEF IInv, TypeOK, Call, Observed
<1>6. Vouched'
  BY DEF IInv, TypeOK, Call, Vouched, Vouch, CallsHold, InFlight
<1> QED BY <1>1, <1>2, <1>3, <1>4, <1>5, <1>6 DEF IInv

LEMMA CompactInv ==
  ASSUME IInv, NEW r \in Register, NEW old \in SUBSET Path,
         CommitCompaction(r, old)
  PROVE  IInv'
<1> USE DEF CommitCompaction, queueVars
<1>0. PICK answer \in {"ok", "failed"}, gone \in {old, {}} :
        call' = [call EXCEPT ![r] = [@ EXCEPT !.pc = answer, !.old = gone]]
  BY DEF Applied
<1>1. TypeOK'
  <2>a. call[r] \in Call
    BY DEF IInv, TypeOK
  <2>0. [call[r] EXCEPT !.pc = answer, !.old = gone] \in Call
    BY <2>a DEF Call
  <2>1. call' \in [Register -> Call]
    BY <1>0, <2>0 DEF IInv, TypeOK
  <2>2. /\ call[r].table \in Table /\ call[r].paths \subseteq Path
        /\ call[r].seen \subseteq Path
    BY <2>a DEF Call
  <2> QED BY <2>1, <2>2 DEF IInv, TypeOK, Vouch
<1>2. Exclusion' /\ SweepsHold'
  BY DEF IInv, Exclusion, SweepsHold
<1>3. CallsHold' /\ OneCreate'
  <2>1. \A q \in Register : q # r => call'[q] = call[q]
    BY <1>0 DEF IInv, TypeOK
  <2>2. /\ call'[r].pc \in {"ok", "failed"} /\ call'[r].kind = call[r].kind
        /\ call'[r].table = call[r].table /\ call'[r].paths = call[r].paths
        /\ call'[r].seen = call[r].seen
    <3>1. call[r] \in Call /\ call'[r] = [call[r] EXCEPT !.pc = answer, !.old = gone]
      BY <1>0 DEF IInv, TypeOK
    <3> HIDE DEF CommitCompaction
    <3> QED BY <3>1, SMTT(30) DEF Call
  <2>3. /\ call[r].pc = "declared" /\ registering' = registering
        /\ objects' = objects /\ listed' = listed
    OBVIOUS
  <2> HIDE DEF CommitCompaction
  <2> QED BY <2>1, <2>2, <2>3, SMTT(30) DEF IInv, CallsHold, OneCreate, InFlight
<1>4. UnlistedIsPut'
  <2>1. call[r].table \in listed
    BY DEF IInv, CallsHold
  <2>2. \A q \in Register : call[q].pc = "put" => call'[q] = call[q]
    BY <1>0 DEF IInv, TypeOK
  <2> QED BY <2>1, <2>2, SMTT(30) DEF IInv, TypeOK, UnlistedIsPut
<1>5. Observed'
  <2>1. \A s \in Sweep : call[r].paths \cap sweep[s].marked = {}
    BY HeldIsUnmarked DEF InFlight
  <2> QED BY <2>1 DEF IInv, TypeOK, Call, Observed
<1>6. Vouched'
  BY DEF IInv, TypeOK, Call, Vouched, Vouch, CallsHold, InFlight
<1> QED BY <1>1, <1>2, <1>3, <1>4, <1>5, <1>6 DEF IInv

LEMMA PutManifestInv ==
  ASSUME IInv, NEW r \in Register, putManifest(r) PROVE IInv'
<1> USE DEF putManifest, queueVars
<1>1. TypeOK'
  <2>0. call[r] \in Call /\ [call[r] EXCEPT !.pc = "put"] \in Call
    BY CallMoves DEF IInv, TypeOK
  <2>1. call' \in [Register -> Call]
    BY <2>0 DEF IInv, TypeOK
  <2>2. /\ call[r].table \in Table /\ call[r].paths \subseteq Path
        /\ call[r].seen \subseteq Path
    BY <2>0 DEF Call
  <2> QED BY <2>1, <2>2 DEF IInv, TypeOK, Vouch
<1>2. Exclusion' /\ SweepsHold'
  BY DEF IInv, Exclusion, SweepsHold
<1>3. CallsHold' /\ OneCreate'
  BY SMTT(30) DEF IInv, TypeOK, CallsHold, OneCreate, InFlight, Call
<1>4. UnlistedIsPut'
  <2> SUFFICES ASSUME NEW t \in Table \ listed
               PROVE  \/ manifest'[t] = {}
                      \/ \E q \in Register :
                           /\ call'[q].pc = "put" /\ call'[q].table = t
                           /\ manifest'[t] = call'[q].paths
    BY DEF UnlistedIsPut
  <2>1. CASE t = call[r].table
    BY <2>1, SMTT(30) DEF IInv, TypeOK, Call
  <2>2. CASE t # call[r].table
    BY <2>2, SMTT(30) DEF IInv, TypeOK, Call, UnlistedIsPut
  <2> QED BY <2>1, <2>2
<1>5. Observed'
  BY SMTT(30) DEF IInv, TypeOK, Call, Observed, CallsHold
<1>6. Vouched'
  <2>1. manifest[call[r].table] = {}
    <3>1. \A q \in Register : call[q].pc = "put" => q = r
      BY DEF IInv, TypeOK, Call, CallsHold, OneCreate
    <3> QED BY <3>1 DEF IInv, TypeOK, Call, UnlistedIsPut, CallsHold
  <2> QED BY <2>1 DEF IInv, TypeOK, Call, Vouched, Vouch, CallsHold, InFlight
<1> QED BY <1>1, <1>2, <1>3, <1>4, <1>5, <1>6 DEF IInv

LEMMA PutMetaInv ==
  ASSUME IInv, NEW r \in Register, putMeta(r) PROVE IInv'
<1> USE DEF putMeta, queueVars
<1>1. TypeOK'
  <2>0. call[r] \in Call
    BY DEF IInv, TypeOK
  <2>1. call[r].table \in Table /\ [call[r] EXCEPT !.pc = "ok"] \in Call
    BY <2>0, CallMoves DEF Call
  <2> QED BY <2>1 DEF IInv, TypeOK
<1>2. Exclusion' /\ SweepsHold' /\ Vouched'
  BY DEF IInv, Exclusion, SweepsHold, Vouched
<1>3. CallsHold' /\ OneCreate'
  <2>1. \A q \in Register :
           call[q].pc \in {"declared", "put"} /\ call[q].kind = "create" => q = r
    BY DEF IInv, CallsHold, OneCreate
  <2> QED BY <2>1, SMTT(30) DEF IInv, TypeOK, CallsHold, OneCreate, InFlight, Call
<1>4. UnlistedIsPut'
  BY DEF IInv, TypeOK, UnlistedIsPut, Call
<1>5. Observed'
  <2>1. \A s \in Sweep : call[r].paths \cap sweep[s].marked = {}
    BY HeldIsUnmarked DEF InFlight
  <2>2. manifest[call[r].table] \subseteq call[r].paths
    <3>1. \A q \in Register : call[q].pc = "put" => q = r
      BY DEF IInv, TypeOK, Call, CallsHold, OneCreate
    <3> QED BY <3>1, SMTT(30) DEF IInv, TypeOK, Call, UnlistedIsPut, CallsHold
  <2> QED BY <2>1, <2>2 DEF IInv, TypeOK, Call, Observed
<1> QED BY <1>1, <1>2, <1>3, <1>4, <1>5 DEF IInv

LEMMA FailsInv ==
  ASSUME IInv, NEW r \in Register, Fails(r) PROVE IInv'
<1> USE DEF Fails, queueVars
<1>1. TypeOK'
  <2>0. call[r] \in Call /\ [call[r] EXCEPT !.pc = "failed"] \in Call
    BY CallMoves DEF IInv, TypeOK
  <2>1. call' \in [Register -> Call]
    BY <2>0 DEF IInv, TypeOK
  <2>2. /\ call[r].table \in Table /\ call[r].paths \subseteq Path
        /\ call[r].seen \subseteq Path
    BY <2>0 DEF Call
  <2> QED BY <2>1, <2>2 DEF IInv, TypeOK, Vouch
<1>2. Exclusion' /\ SweepsHold'
  BY DEF IInv, Exclusion, SweepsHold
<1>3. CallsHold' /\ OneCreate'
  BY SMTT(30) DEF IInv, TypeOK, CallsHold, OneCreate, InFlight, Call
<1>4. UnlistedIsPut'
  <2> SUFFICES ASSUME NEW t \in Table \ listed, manifest'[t] # {}
               PROVE  \E q \in Register :
                        /\ call'[q].pc = "put" /\ call'[q].table = t
                        /\ manifest'[t] = call'[q].paths
    BY DEF UnlistedIsPut
  <2>1. manifest'[t] = manifest[t]
    BY DEF IInv, TypeOK
  <2>2. PICK q \in Register : /\ call[q].pc = "put" /\ call[q].table = t
                              /\ manifest[t] = call[q].paths
    BY <2>1 DEF IInv, UnlistedIsPut
  <2>3. q # r
    BY <2>1, <2>2 DEF IInv, TypeOK, Call
  <2>4. call'[q] = call[q]
    BY <2>3 DEF IInv, TypeOK
  <2> QED BY <2>1, <2>2, <2>4
<1>5. Observed' /\ Vouched'
  BY DEF IInv, TypeOK, Call, Observed, Vouched, Vouch
<1> QED BY <1>1, <1>2, <1>3, <1>4, <1>5 DEF IInv

LEMMA EndInv ==
  ASSUME IInv, NEW r \in Register, NEW b \in BOOLEAN, endRegistration(r, b)
  PROVE  IInv'
<1> USE DEF endRegistration, catalogVars
<1>0. [NoCall EXCEPT !.pc = "done"] \in Call
  BY NoCallType DEF Call
<1>1. TypeOK'
  BY <1>0 DEF IInv, TypeOK, Call, Release
<1>2. Exclusion' /\ SweepsHold' /\ Observed' /\ Vouched'
  BY DEF IInv, TypeOK, Exclusion, SweepsHold, Observed, Vouched, Release
<1>3. CallsHold' /\ OneCreate'
  BY SMTT(30) DEF IInv, TypeOK, CallsHold, OneCreate, InFlight, Call, Release, NoCall
<1>4. UnlistedIsPut'
  BY DEF IInv, TypeOK, UnlistedIsPut, Call
<1> QED BY <1>1, <1>2, <1>3, <1>4 DEF IInv

-----------------------------------------------------------------------------
\* Sweeps.

LEMMA ListTablesInv ==
  ASSUME IInv, NEW s \in Sweep, ListTables(s) PROVE IInv'
<1> USE DEF ListTables, catalogVars, queueVars
<1>0. sweep[s] \in Swept
  BY DEF IInv, TypeOK
<1>1. TypeOK'
  <2>1. manifest \in [Table -> SUBSET Path] /\ listed \subseteq Table
    BY DEF IInv, TypeOK
  <2>2. [sweep[s] EXCEPT !.pc = "reading", !.toRead = listed] \in Swept
    BY <1>0, <2>1 DEF Swept
  <2>3. sweep' \in [Sweep -> Swept]
    BY <2>2 DEF IInv, TypeOK
  <2> QED BY <2>3 DEF IInv, TypeOK
<1>2. Exclusion' /\ CallsHold' /\ OneCreate' /\ UnlistedIsPut' /\ Vouched'
  BY SMTT(30)
     DEF IInv, Exclusion, CallsHold, InFlight, OneCreate, UnlistedIsPut, Vouched
<1>3. SweepsHold' /\ Observed'
  BY <1>0, SMTT(30) DEF IInv, TypeOK, Swept, SweepsHold, Observed
<1> QED BY <1>1, <1>2, <1>3 DEF IInv

LEMMA GetManifestInv ==
  ASSUME IInv, NEW s \in Sweep, NEW t \in Table, GetManifest(s, t) PROVE IInv'
<1> USE DEF GetManifest, catalogVars, queueVars
<1>0. sweep[s] \in Swept
  BY DEF IInv, TypeOK
<1>1. TypeOK'
  <2>1. manifest \in [Table -> SUBSET Path] /\ listed \subseteq Table
    BY DEF IInv, TypeOK
  <2>2. [sweep[s] EXCEPT !.toRead = @ \ {t}, !.live = @ \cup manifest[t]] \in Swept
    BY <1>0, <2>1 DEF Swept
  <2>3. sweep' \in [Sweep -> Swept]
    BY <2>2 DEF IInv, TypeOK
  <2> QED BY <2>3 DEF IInv, TypeOK
<1>2. Exclusion' /\ CallsHold' /\ OneCreate' /\ UnlistedIsPut' /\ Vouched'
  BY SMTT(30)
     DEF IInv, Exclusion, CallsHold, InFlight, OneCreate, UnlistedIsPut, Vouched
<1>3. SweepsHold' /\ Observed'
  BY <1>0, SMTT(30) DEF IInv, TypeOK, Swept, SweepsHold, Observed
<1> QED BY <1>1, <1>2, <1>3 DEF IInv

LEMMA ReadErrorInv ==
  ASSUME IInv, NEW s \in Sweep, ReadError(s) PROVE IInv'
<1> USE DEF ReadError, catalogVars, queueVars
<1>0. sweep[s] \in Swept
  BY DEF IInv, TypeOK
<1>1. TypeOK'
  <2>1. manifest \in [Table -> SUBSET Path] /\ listed \subseteq Table
    BY DEF IInv, TypeOK
  <2>2. [sweep[s] EXCEPT !.pc = "returning", !.left = {}, !.unproven = @ \cup sweep[s].marked] \in Swept
    BY <1>0, <2>1 DEF Swept
  <2>3. sweep' \in [Sweep -> Swept]
    BY <2>2 DEF IInv, TypeOK
  <2> QED BY <2>3 DEF IInv, TypeOK
<1>2. Exclusion' /\ CallsHold' /\ OneCreate' /\ UnlistedIsPut' /\ Vouched'
  BY SMTT(30)
     DEF IInv, Exclusion, CallsHold, InFlight, OneCreate, UnlistedIsPut, Vouched
<1>3. SweepsHold' /\ Observed'
  BY <1>0, SMTT(30) DEF IInv, TypeOK, Swept, SweepsHold, Observed
<1> QED BY <1>1, <1>2, <1>3 DEF IInv

LEMMA PreserveInv ==
  ASSUME IInv, NEW s \in Sweep, NEW p \in Path, Preserve(s, p) PROVE IInv'
<1> USE DEF Preserve, catalogVars, queueVars
<1>0. sweep[s] \in Swept
  BY DEF IInv, TypeOK
<1>1. TypeOK'
  <2>1. manifest \in [Table -> SUBSET Path] /\ listed \subseteq Table
    BY DEF IInv, TypeOK
  <2>2. [sweep[s] EXCEPT !.left = @ \ {p}] \in Swept
    BY <1>0, <2>1 DEF Swept
  <2>3. sweep' \in [Sweep -> Swept]
    BY <2>2 DEF IInv, TypeOK
  <2> QED BY <2>3 DEF IInv, TypeOK
<1>2. Exclusion' /\ CallsHold' /\ OneCreate' /\ UnlistedIsPut' /\ Vouched'
  BY SMTT(30)
     DEF IInv, Exclusion, CallsHold, InFlight, OneCreate, UnlistedIsPut, Vouched
<1>3. SweepsHold' /\ Observed'
  BY <1>0, SMTT(30) DEF IInv, TypeOK, Swept, SweepsHold, Observed
<1> QED BY <1>1, <1>2, <1>3 DEF IInv

LEMMA DoomInv ==
  ASSUME IInv, NEW s \in Sweep, NEW p \in Path, Doom(s, p) PROVE IInv'
<1> USE DEF Doom, catalogVars, queueVars
<1>0. sweep[s] \in Swept
  BY DEF IInv, TypeOK
<1>1. TypeOK'
  <2>1. manifest \in [Table -> SUBSET Path] /\ listed \subseteq Table
    BY DEF IInv, TypeOK
  <2>2. [sweep[s] EXCEPT !.left = @ \ {p}, !.doomed = {p}] \in Swept
    BY <1>0, <2>1 DEF Swept
  <2>3. sweep' \in [Sweep -> Swept]
    BY <2>2 DEF IInv, TypeOK
  <2> QED BY <2>3 DEF IInv, TypeOK
<1>2. Exclusion' /\ CallsHold' /\ OneCreate' /\ UnlistedIsPut' /\ Vouched'
  BY SMTT(30)
     DEF IInv, Exclusion, CallsHold, InFlight, OneCreate, UnlistedIsPut, Vouched
<1>3. SweepsHold' /\ Observed'
  BY <1>0, SMTT(30) DEF IInv, TypeOK, Swept, SweepsHold, Observed
<1> QED BY <1>1, <1>2, <1>3 DEF IInv

LEMMA DeleteErrorInv ==
  ASSUME IInv, NEW s \in Sweep, DeleteError(s) PROVE IInv'
<1> USE DEF DeleteError, catalogVars, queueVars
<1>0. sweep[s] \in Swept
  BY DEF IInv, TypeOK
<1>1. TypeOK'
  <2>1. manifest \in [Table -> SUBSET Path] /\ listed \subseteq Table
    BY DEF IInv, TypeOK
  <2>2. [sweep[s] EXCEPT !.doomed = {}, !.unproven = @ \cup sweep[s].doomed] \in Swept
    BY <1>0, <2>1 DEF Swept
  <2>3. sweep' \in [Sweep -> Swept]
    BY <2>2 DEF IInv, TypeOK
  <2> QED BY <2>3 DEF IInv, TypeOK
<1>2. Exclusion' /\ CallsHold' /\ OneCreate' /\ UnlistedIsPut' /\ Vouched'
  BY SMTT(30)
     DEF IInv, Exclusion, CallsHold, InFlight, OneCreate, UnlistedIsPut, Vouched
<1>3. SweepsHold' /\ Observed'
  BY <1>0, SMTT(30) DEF IInv, TypeOK, Swept, SweepsHold, Observed
<1> QED BY <1>1, <1>2, <1>3 DEF IInv

\* What a sweep is about to delete is in no manifest, and no call holds it.
LEMMA DoomedIsUnreferenced ==
  ASSUME IInv, NEW s \in Sweep, NEW p \in sweep[s].doomed
  PROVE  /\ p \in Path /\ registering[p] = {}
         /\ \A t \in Table : p \notin manifest[t]
<1>1. p \in Path /\ p \in sweep[s].marked /\ p \notin sweep[s].live
  BY DEF IInv, TypeOK, Swept, SweepsHold
<1>2. registering[p] = {}
  BY <1>1 DEF IInv, TypeOK, Exclusion, SweepsHold
<1>3. ASSUME NEW t \in Table, p \in manifest[t] PROVE FALSE
  <2>1. CASE t \in listed
    BY <1>1, <1>3, <2>1 DEF IInv, SweepsHold, Observed
  <2>2. CASE t \notin listed
    <3>1. PICK r \in Register : /\ call[r].pc = "put"
                                /\ manifest[t] = call[r].paths
      BY <1>3, <2>2 DEF IInv, UnlistedIsPut
    <3> QED BY <3>1, <1>2, <1>3 DEF IInv, CallsHold, InFlight
  <2> QED BY <2>1, <2>2
<1> QED BY <1>1, <1>2, <1>3

LEMMA DeleteInv ==
  ASSUME IInv, NEW s \in Sweep, Delete(s) PROVE IInv'
<1> USE DEF Delete, catalogVars, queueVars
<1>0. sweep[s] \in Swept
  BY DEF IInv, TypeOK
<1>1. TypeOK'
  <2>1. [sweep[s] EXCEPT !.doomed = {}] \in Swept
    BY <1>0 DEF Swept
  <2>2. objects' \in [Path -> Time]
    BY TimeAssumption, SMTT(30) DEF IInv, TypeOK, Time
  <2> QED BY <2>1, <2>2 DEF IInv, TypeOK
<1>2. Exclusion' /\ OneCreate' /\ UnlistedIsPut'
  BY SMTT(30) DEF IInv, Exclusion, OneCreate, UnlistedIsPut
<1>3. SweepsHold' /\ Observed'
  BY <1>0, SMTT(30) DEF IInv, TypeOK, Swept, SweepsHold, Observed
<1>4. \A p \in Path : p \notin sweep[s].doomed => objects'[p] = objects[p]
  BY DEF IInv, TypeOK
<1>5. CallsHold'
  <2>1. \A r \in Register : InFlight(r) =>
          call[r].seen \subseteq Path /\ call[r].seen \cap sweep[s].doomed = {}
    BY DoomedIsUnreferenced DEF IInv, TypeOK, Call, CallsHold
  <2> QED BY <2>1, <1>4, SMTT(30) DEF IInv, CallsHold, InFlight
<1>6. Vouched'
  <2>1. \A t \in Table : vouched[t] \subseteq Path
                         /\ vouched[t] \cap sweep[s].doomed = {}
    BY DoomedIsUnreferenced DEF IInv, TypeOK, Vouched
  <2> QED BY <2>1, <1>4 DEF IInv, Vouched
<1> QED BY <1>1, <1>2, <1>3, <1>5, <1>6 DEF IInv

LEMMA MarkInv ==
  ASSUME IInv, NEW s \in Sweep, NEW W \in SUBSET (Path \X Time),
         NEW b \in BOOLEAN, markRetiring(s, W, b),
         queue' \subseteq Path \X Time, abandoned' \subseteq Path
  PROVE  IInv'
<1> DEFINE P == {w[1] : w \in W}
           M == P \ Busy(P)
           new == [NoSweep EXCEPT !.pc = IF M = {} THEN "returning" ELSE "marked",
                     !.wants = W, !.marked = M, !.left = M,
                     !.unproven = Busy(P), !.queued = b]
<1>1. P \subseteq Path /\ Busy(P) \subseteq Path /\ M \subseteq Path
  BY DEF Busy
<1>2. /\ retiring' = [p \in Path |-> IF p \in M THEN retiring[p] \cup {s}
                                             ELSE retiring[p]]
      /\ sweep' = [sweep EXCEPT ![s] = new]
      /\ UNCHANGED <<now, objects, listed, manifest, vouched, registering, call>>
  BY DEF markRetiring, catalogVars
<1>3. \A p \in M : registering[p] = {}
  BY <1>1 DEF Busy
<1> HIDE DEF P, M
<1>4. TypeOK'
  <2>1. new \in Swept
    BY <1>1 DEF NoSweep, Swept
  <2>2. retiring' \in [Path -> SUBSET Sweep]
    BY <1>2 DEF IInv, TypeOK
  <2> HIDE DEF new
  <2> QED BY <1>2, <2>1, <2>2 DEF IInv, TypeOK
<1>5. Exclusion'
  BY <1>2, <1>3 DEF IInv, TypeOK, Exclusion
<1>6. CallsHold' /\ OneCreate' /\ UnlistedIsPut' /\ Vouched'
  BY <1>2, SMTT(30) DEF IInv, CallsHold, InFlight, OneCreate, UnlistedIsPut, Vouched
<1>7. /\ sweep'[s].marked = M /\ sweep'[s].left = M /\ sweep'[s].doomed = {}
      /\ sweep'[s].pc # "reading"
      /\ \A z \in Sweep : z # s => sweep'[z] = sweep[z]
  BY <1>2 DEF IInv, TypeOK, NoSweep
<1>8. \A p \in Path : /\ p \in M => s \in retiring'[p]
                      /\ retiring[p] \subseteq retiring'[p]
  BY <1>2 DEF IInv, TypeOK
<1>9. \A z \in Sweep : sweep[z].marked \subseteq Path
  BY DEF IInv, TypeOK, Swept
<1>10. SweepsHold' /\ Observed'
  BY <1>1, <1>2, <1>7, <1>8, <1>9, SMTT(30) DEF IInv, SweepsHold, Observed
<1> QED BY <1>4, <1>5, <1>6, <1>10 DEF IInv

LEMMA UnmarkInv ==
  ASSUME IInv, NEW s \in Sweep, unmarkRetiring(s) PROVE IInv'
<1>1. /\ retiring' = [p \in Path |-> IF p \in sweep[s].marked
                                     THEN retiring[p] \ {s} ELSE retiring[p]]
      /\ sweep' = [sweep EXCEPT ![s] = NoSweep]
      /\ UNCHANGED <<now, objects, listed, manifest, vouched, registering,
                     abandoned, call>>
  BY DEF unmarkRetiring, catalogVars, Release
<1>2. TypeOK'
  <2>1. sweep[s].wants \subseteq Path \X Time
    BY DEF IInv, TypeOK, Swept
  <2>2. queue' \subseteq Path \X Time
    BY <2>1 DEF unmarkRetiring, IInv, TypeOK
  <2>3. retiring' \in [Path -> SUBSET Sweep]
    BY <1>1 DEF IInv, TypeOK
  <2> QED BY <1>1, <2>2, <2>3, NoSweepType DEF IInv, TypeOK
<1>3. Exclusion'
  BY <1>1 DEF IInv, TypeOK, Exclusion
<1>4. CallsHold' /\ OneCreate' /\ UnlistedIsPut' /\ Vouched'
  BY <1>1, SMTT(30) DEF IInv, CallsHold, InFlight, OneCreate, UnlistedIsPut, Vouched
<1>5. \A z \in Sweep : /\ sweep[z].marked \subseteq Path
                       /\ z # s => sweep'[z] = sweep[z]
                       /\ z # s => \A p \in sweep[z].marked : z \in retiring'[p]
  BY <1>1 DEF IInv, TypeOK, Swept, SweepsHold
<1>6. SweepsHold' /\ Observed'
  BY <1>1, <1>5, SMTT(30) DEF IInv, TypeOK, SweepsHold, Observed, NoSweep
<1> QED BY <1>2, <1>3, <1>4, <1>6 DEF IInv

-----------------------------------------------------------------------------

LEMMA StutterInv == ASSUME IInv, UNCHANGED vars PROVE IInv'
<1>1. TypeOK' /\ Exclusion'
  BY DEF vars, IInv, TypeOK, Exclusion
<1>2. CallsHold' /\ OneCreate' /\ UnlistedIsPut' /\ Vouched'
  BY SMTT(30) DEF vars, IInv, CallsHold, InFlight, OneCreate, UnlistedIsPut, Vouched
<1>3. SweepsHold' /\ Observed'
  BY SMTT(30) DEF vars, IInv, SweepsHold, Observed
<1> QED
  BY <1>1, <1>2, <1>3 DEF IInv

LEMMA StepInv == ASSUME IInv, [Next]_vars PROVE IInv'
<1>1. CASE \E p \in Path : Upload(p)
  BY <1>1, PutInv
<1>2. ASSUME NEW r \in Register, RegisterStep(r) PROVE IInv'
  BY <1>2, BeginInv, AddFilesInv, PutManifestInv, PutMetaInv, FailsInv,
     CompactInv, EndInv DEF RegisterStep
<1>3. ASSUME NEW s \in Sweep, SweepStep(s) PROVE IInv'
  <2>1. CASE FlushDeferredDeletes(s)
    <3>1. PICK cutoff \in Time :
            LET due == {e \in queue : e[2] <= cutoff} IN
            markRetiring(s, due, TRUE) /\ queue' = queue \ due
            /\ UNCHANGED abandoned
      BY <2>1 DEF FlushDeferredDeletes
    <3> DEFINE due == {e \in queue : e[2] <= cutoff}
    <3>2. due \in SUBSET (Path \X Time) /\ markRetiring(s, due, TRUE)
          /\ queue' \subseteq Path \X Time /\ abandoned' \subseteq Path
      BY <3>1 DEF IInv, TypeOK
    <3> HIDE DEF due
    <3> QED BY <3>2, MarkInv
  <2>2. CASE reclaimPendingObjects(s)
    <3>1. abandoned \X {MaxTime} \in SUBSET (Path \X Time)
      BY TimeAssumption, SMTT(30) DEF IInv, TypeOK, Time
    <3>2. queue' \subseteq Path \X Time /\ abandoned' \subseteq Path
      BY <2>2 DEF reclaimPendingObjects, IInv, TypeOK
    <3> QED BY <2>2, <3>1, <3>2, MarkInv DEF reclaimPendingObjects
  <2> QED BY <1>3, <2>1, <2>2, ListTablesInv, ReadErrorInv, GetManifestInv,
             PreserveInv, DoomInv, DeleteInv, DeleteErrorInv, UnmarkInv
          DEF SweepStep
<1> QED BY <1>1, <1>2, <1>3, StutterInv DEF Next

\* IInv is inductive.
THEOREM Inductive == Spec => []IInv
BY InitInv, StepInv, PTL DEF Spec

\* An entry registered while its object was there keeps its object for as long
\* as a listed table names it: retirement cannot dangle a live manifest entry.
THEOREM Stays == Spec => []RegisteredBytesStay
<1>1. IInv => RegisteredBytesStay
  BY DEF IInv, TypeOK, Vouched, RegisteredBytesStay
<1> QED BY Inductive, <1>1, PTL

\* A sweep deletes nothing that a listed table names, or that a registration in
\* flight is about to name, at the moment of the delete.
THEOREM Unreferenced == Spec => DeletesOnlyUnreferenced
<1>1. ASSUME IInv, [Next]_vars
      PROVE  [\A p \in Path : objects[p] # 0 /\ objects'[p] = 0 =>
                /\ \A t \in listed : p \notin manifest[t]
                /\ registering[p] = {}]_vars
  <2> SUFFICES ASSUME NEW p \in Path, objects[p] # 0, objects'[p] = 0
               PROVE  /\ \A t \in listed : p \notin manifest[t]
                      /\ registering[p] = {}
    OBVIOUS
  <2>1. objects' # objects
    OBVIOUS
  <2>2. PICK s \in Sweep : Delete(s)
    <3>1. ~ \E u \in Path : Upload(u)
      <4> SUFFICES ASSUME NEW u \in Path, Upload(u) PROVE FALSE
        OBVIOUS
      <4>1. now \in Nat /\ objects \in [Path -> Time]
        BY <1>1, SMTT(30) DEF IInv, TypeOK, Time
      <4> QED BY <4>1, SMTT(30) DEF Upload
    <3>2. ~ \E r \in Register : RegisterStep(r)
      BY <2>1 DEF RegisterStep, beginRegistration, addFiles, putManifest,
                  putMeta, Fails, CommitCompaction, endRegistration
    <3>3. \A s \in Sweep : SweepStep(s) => Delete(s)
      BY <2>1 DEF SweepStep, FlushDeferredDeletes, reclaimPendingObjects,
                  markRetiring, ListTables, ReadError, GetManifest, Preserve,
                  Doom, DeleteError, unmarkRetiring
    <3> QED BY <1>1, <2>1, <3>1, <3>2, <3>3 DEF Next, vars
  <2>3. p \in sweep[s].doomed
    BY <2>2 DEF Delete
  <2> QED BY <1>1, <2>3, DoomedIsUnreferenced DEF IInv, TypeOK
<1> QED BY Inductive, <1>1, PTL DEF Spec, DeletesOnlyUnreferenced

-----------------------------------------------------------------------------
\* The uploads of the results of tasks: UploadManager, whose state is its own.

\* What becomes of a job, the steps of StartTask and what is published of a task.
JobState ==
  {"none", "queued", "waiting", "running", "completed", "cancelled", "failed", "elided"}
StartState == {"idle", "queue", "start", "done"}
Verdict == {"none", "durable", "failed"}

\* A call that takes jobs from the queue: its next step, and what it took.
Taking ==
  [pc : {"idle", "release", "start", "wait", "flushed", "expired", "cancel", "elide",
         "stopped"},
   jobs : SUBSET Job]

\* The types that the proof needs.
UploadTypes ==
  /\ pending \subseteq Job
  /\ start \in [Task -> StartState]
  /\ releasing \in Taking /\ draining \in Taking
  /\ job \in [Job -> JobState]
  /\ published \in [Task -> Verdict]

\* Nothing has become of the jobs of a task that StartTask has not handed over.
NewJobs ==
  \A t \in Task : start[t] # "done" => \A j \in JobsOf(t) : job[j] = "none"

\* Who holds a queued job: the queue, or the call that took it.
QueuedOnce ==
  /\ \A j \in pending \cup releasing.jobs \cup draining.jobs : job[j] = "queued"
  /\ pending \cap releasing.jobs = {}
  /\ pending \cap draining.jobs = {}
  /\ releasing.jobs \cap draining.jobs = {}

\* The object of a job that is completed exists.
CompletedStored == \A j \in Job : job[j] = "completed" => j \in stored

\* What is published as durable has completed.
DurableCompleted ==
  \A t \in Task :
    published[t] = "durable" => \A j \in JobsOf(t) : job[j] = "completed"

\* The inductive invariant.
UploadInv ==
  /\ UploadTypes /\ NewJobs /\ QueuedOnce /\ CompletedStored /\ DurableCompleted

\* Nothing is queued at first.
LEMMA UploadStarts ==
  ASSUME UploadInit PROVE UploadInv
<1> USE DEF UploadInit
<1>1. UploadTypes
  BY DEF UploadTypes, Taking, JobState, StartState, Verdict
<1>2. NewJobs
  BY DEF NewJobs, JobsOf
<1>4. QueuedOnce
  BY DEF QueuedOnce
<1>3. CompletedStored /\ DurableCompleted
  BY DEF CompletedStored, DurableCompleted
<1> QED
  BY <1>1, <1>2, <1>3, <1>4 DEF UploadInv

\* The steps of StartTask.
LEMMA TaskKeeps ==
  ASSUME UploadInv, NEW t \in Task, TaskStep(t)
  PROVE  UploadInv'
<1> DEFINE J == JobsOf(t)
<1>j. J \subseteq Job /\ \A j \in Job : j \in J <=> Owner[j] = t
  BY DEF JobsOf
<1>1. /\ releasing' = releasing /\ draining' = draining
      /\ stored' = stored /\ published' = published
      /\ start[t] # "done"
  BY DEF TaskStep, queryState, Queue, StartJobs,
         files
<1>s. PICK s \in StartState : start' = [start EXCEPT ![t] = s]
  BY DEF TaskStep, queryState, Queue, StartJobs,
     StartState
<1>2. \/ job' = job /\ pending' = pending
      \/ /\ start' = [start EXCEPT ![t] = "done"]
         /\ \E v \in JobState \ {"completed"} :
              /\ job' = [j \in Job |-> IF j \in J THEN v ELSE job[j]]
              /\ \/ pending' = pending
                 \/ v = "queued" /\ pending' = pending \cup J
  <2>1. CASE queryState(t)
    BY <2>1 DEF queryState, JobState, Become
  <2>2. CASE Queue(t)
    BY <2>2 DEF Queue, JobState, Become
  <2>3. CASE StartJobs(t)
    BY <2>3 DEF StartJobs, JobState, Become, scope
  <2> QED
    BY <2>1, <2>2, <2>3 DEF TaskStep
<1>n. \A j \in J : job[j] = "none"
  BY <1>1 DEF UploadInv, NewJobs
<1> HIDE DEF J
<1>3. UploadTypes'
  BY <1>1, <1>s, <1>2, <1>j, SMTT(30) DEF UploadInv, UploadTypes, Taking
<1>4. NewJobs'
  BY <1>1, <1>s, <1>2, <1>j DEF UploadInv, UploadTypes, NewJobs, JobsOf
<1>5. QueuedOnce'
  BY <1>1, <1>s, <1>2, <1>j, <1>n, SMTT(30)
     DEF UploadInv, UploadTypes, Taking, QueuedOnce
<1>6. CompletedStored'
  BY <1>1, <1>s, <1>2, <1>j DEF UploadInv, UploadTypes, CompletedStored
<1>7. DurableCompleted'
  BY <1>1, <1>s, <1>2, <1>j, <1>n, SMTT(30)
     DEF UploadInv, UploadTypes, DurableCompleted,
     JobsOf
<1> QED
  BY <1>3, <1>4, <1>5, <1>6, <1>7 DEF UploadInv

\* A step of CancelQuery, ReleaseQuery, Flush or Drain settles or starts queued jobs
\* (J), which it then holds no more, and hands the others on.
Handles(J) ==
  /\ J \subseteq pending \cup releasing.jobs \cup draining.jobs
  /\ \/ job' = job
     \/ \E v \in {"waiting", "elided"} :
          job' = [j \in Job |-> IF j \in J THEN v ELSE job[j]]
  /\ start' = start /\ stored' = stored /\ published' = published

\* It keeps the invariant.
LEMMA HandlesKeeps ==
  ASSUME UploadInv, NEW J, Handles(J),
         releasing' \in Taking, draining' \in Taking, pending' \subseteq Job,
         pending' \cup releasing'.jobs \cup draining'.jobs
           \subseteq (pending \cup releasing.jobs \cup draining.jobs) \ J,
         pending' \cap releasing'.jobs = {}, pending' \cap draining'.jobs = {},
         releasing'.jobs \cap draining'.jobs = {}
  PROVE  UploadInv'
<1>j. J \subseteq Job /\ \A j \in J : job[j] = "queued"
  BY DEF UploadInv, UploadTypes, Taking, QueuedOnce, Handles
<1>1. UploadTypes'
  BY DEF UploadInv, UploadTypes, JobState, Handles
<1>2. NewJobs'
  BY <1>j DEF UploadInv, UploadTypes, NewJobs, JobsOf, Handles
<1>3. QueuedOnce'
  BY SMTT(30) DEF UploadInv, UploadTypes, Taking, QueuedOnce, Handles
<1>4. CompletedStored'
  BY DEF UploadInv, UploadTypes, CompletedStored, Handles
<1>5. DurableCompleted'
  BY <1>j, SMTT(30) DEF UploadInv, UploadTypes, DurableCompleted, JobsOf, Handles
<1> QED
  BY <1>1, <1>2, <1>3, <1>4, <1>5 DEF UploadInv

\* The broadcasts' handlers and Worker.Drain.
\* The steps of CancelQuery, ReleaseQuery and the drain.
CallStep ==
  \/ \E b \in 1..Handlers : CancelQuery(b) \/ CancelStep(b)
  \/ ReleaseQuery \/ ReleaseStep
  \/ BeginDrain \/ DrainStep

\* Each takes from the queue what it handles, and hands over only what it took.
LEMMA CallKeeps ==
  ASSUME UploadInv, CallStep
  PROVE  UploadInv' /\ \E J : Handles(J)
<1> USE DEF scope, files, bounds, Become
<1>t. UploadTypes /\ QueuedOnce
  BY DEF UploadInv
<1>1. CASE \/ \E b \in 1..Handlers : CancelQuery(b) \/ CancelCtx(b) \/ Purge(b)
           \/ ReleaseQuery \/ BeginDrain \/ flushWait
           \/ Drain \/ drainCancel
  <2>1. Handles({})
    BY <1>1 DEF Handles, CancelQuery, CancelCtx, Purge,
       ReleaseQuery, BeginDrain, flushWait, Drain,
       drainCancel
  <2>2. /\ releasing' \in Taking /\ draining' \in Taking /\ pending' = pending
        /\ releasing'.jobs \in {releasing.jobs, {}}
        /\ draining'.jobs \in {draining.jobs, {}}
    <3>1. /\ pending' = pending
          /\ \/ releasing' = releasing
             \/ \E k \in {"release", "idle"} : releasing' = [pc |-> k, jobs |-> {}]
      BY <1>1 DEF CancelQuery, CancelCtx, Purge, ReleaseQuery, BeginDrain, flushWait,
         Drain, drainCancel
    <3>2. \/ draining' = draining
          \/ \E k \in {"release", "flushed"} : draining' = [pc |-> k, jobs |-> {}]
          \/ \E k \in {"flushed", "expired", "cancel", "stopped", "elide"} :
               draining' = [draining EXCEPT !.pc = k]
      BY <1>1 DEF CancelQuery, CancelCtx, Purge, ReleaseQuery, BeginDrain, flushWait,
         Drain, drainCancel
    <3> QED
      BY <3>1, <3>2, <1>t, SMTT(30) DEF UploadTypes, Taking
  <2> QED
    BY <2>1, <2>2, <1>t, HandlesKeeps DEF UploadTypes, QueuedOnce
<1>2. CASE (\E b \in 1..Handlers : elidePending(b)) \/ drainElide
  <2>1. Handles(pending)
    BY <1>2 DEF Handles, elidePending, drainElide
  <2>2. /\ releasing' \in Taking /\ draining' \in Taking /\ pending' = {}
        /\ releasing'.jobs = releasing.jobs /\ draining'.jobs = draining.jobs
    BY <1>2, <1>t DEF UploadTypes, Taking, elidePending, drainElide
  <2> QED
    BY <2>1, <2>2, <1>t, HandlesKeeps DEF UploadTypes, QueuedOnce
<1>3. CASE releasePending \/ flushPending
  <2>1. Handles({})
    BY <1>3 DEF Handles, releasePending, flushPending
  <2>2. /\ releasing' \in Taking /\ draining' \in Taking /\ pending' = {}
        /\ \/ releasing'.jobs = pending /\ draining' = draining
           \/ releasing' = releasing /\ draining'.jobs = pending
    BY <1>3, <1>t, SMTT(30) DEF UploadTypes, Taking, releasePending, flushPending,
       TakePending
  <2> QED
    BY <2>1, <2>2, <1>t, HandlesKeeps DEF UploadTypes, QueuedOnce
<1>4. CASE releaseStart
  <2>1. Handles(releasing.jobs)
    BY <1>4 DEF Handles, releaseStart
  <2>2. /\ releasing' \in Taking /\ draining' = draining /\ pending' = pending
        /\ releasing'.jobs = {}
    BY <1>4, <1>t DEF UploadTypes, Taking, releaseStart
  <2> QED
    BY <2>1, <2>2, <1>t, HandlesKeeps DEF UploadTypes, QueuedOnce
<1>5. CASE flushStart
  <2>1. Handles(draining.jobs)
    BY <1>5 DEF Handles, flushStart
  <2>2. /\ draining' \in Taking /\ releasing' = releasing /\ pending' = pending
        /\ draining'.jobs = {}
    BY <1>5, <1>t DEF UploadTypes, Taking, flushStart
  <2> QED
    BY <2>1, <2>2, <1>t, HandlesKeeps DEF UploadTypes, QueuedOnce
<1> QED
  BY <1>1, <1>2, <1>3, <1>4, <1>5
        DEF CallStep, CancelStep, ReleaseStep, DrainStep

\* A job of runJob goes on, or ends and may publish for its task.
LEMMA JobKeeps ==
  ASSUME UploadInv, NEW j \in Job, JobStep(j)
  PROVE  /\ UploadInv'
         /\ job[j] \in {"waiting", "running"}
         /\ \A k \in Job \ {j} : job'[k] = job[k]
<1> USE DEF scope, calls, bounds, Become
<1>1. /\ job[j] \in {"waiting", "running"}
      /\ pending' = pending /\ start' = start
      /\ releasing' = releasing /\ draining' = draining
      /\ stored \subseteq stored'
  BY DEF JobStep, acquireSlot, uploadOnce
<1>2. PICK v \in JobState \ {"none", "queued"} :
        /\ job' = [k \in Job |-> IF k \in {j} THEN v ELSE job[k]]
        /\ v = "completed" => j \in stored'
        /\ \/ published' = published
           \/ published' = Publish(Owner[j], job')
  <2>1. CASE job' = job /\ published' = published
    <3>1. job' = [k \in Job |-> IF k \in {j} THEN job[j] ELSE job[k]]
      BY <2>1 DEF UploadInv, UploadTypes
    <3> QED
      BY <3>1, <2>1, <1>1 DEF JobState
  <2>2. CASE ~ (job' = job /\ published' = published)
    BY <2>2 DEF JobStep, acquireSlot, uploadOnce, Settle,
       JobState
  <2> QED
    BY <2>1, <2>2
<1>3. UploadTypes'
  BY <1>1, <1>2 DEF UploadInv, UploadTypes, Publish, Verdict
<1>4. NewJobs'
  BY <1>1, <1>2 DEF UploadInv, UploadTypes, NewJobs, JobsOf
<1>5. QueuedOnce'
  BY <1>1, <1>2 DEF UploadInv, UploadTypes, Taking, QueuedOnce
<1>6. CompletedStored'
  BY <1>1, <1>2 DEF UploadInv, UploadTypes, CompletedStored
<1>7. DurableCompleted'
  <2> SUFFICES ASSUME NEW t \in Task, published'[t] = "durable",
                      NEW k \in JobsOf(t)
               PROVE  job'[k] = "completed"
    BY DEF DurableCompleted, JobsOf
  <2>k. k \in Job /\ Owner[k] = t
    BY DEF JobsOf
  <2>1. CASE published'[t] = published[t]
    <3>1. \A i \in JobsOf(t) : job[i] = "completed"
      BY <2>1 DEF UploadInv, DurableCompleted
    <3> QED
      BY <3>1, <2>k, <1>1, <1>2 DEF UploadInv, UploadTypes
  <2>2. CASE published'[t] # published[t]
    <3>1. t = Owner[j] /\ published' = Publish(t, job')
      BY <2>2, <1>2 DEF UploadInv, UploadTypes, Publish
    <3>2. /\ ~ \E i \in JobsOf(t) : job'[i] \notin {"completed", "failed"}
          /\ ~ \E i \in JobsOf(t) : job'[i] = "failed"
      BY <3>1, <2>2 DEF UploadInv, UploadTypes, Publish
    <3> QED
      BY <3>2
  <2> QED
    BY <2>1, <2>2
<1>8. \A k \in Job \ {j} : job'[k] = job[k]
  BY <1>2
<1> QED
  BY <1>1, <1>3, <1>4, <1>5, <1>6, <1>7, <1>8 DEF UploadInv

\* Every step keeps the invariant, and settles no job twice.
LEMMA UploadStep ==
  ASSUME UploadInv, [UploadNext]_uploadVars
  PROVE  UploadInv' /\ \A j \in Job : job[j] \in Settled => job'[j] = job[j]
<1>1. CASE \E t \in Task : TaskStep(t)
  <2> PICK t \in Task : TaskStep(t)
    BY <1>1
  <2>1. UploadInv'
    BY TaskKeeps
  <2>2. \A j \in Job : job[j] # "none" => job'[j] = job[j]
    BY SMTT(30) DEF UploadInv, UploadTypes, NewJobs, JobsOf, Become,
       TaskStep, queryState, Queue, StartJobs
  <2> QED
    BY <2>1, <2>2 DEF Settled
<1>2. CASE CallStep
  <2>1. UploadInv' /\ \E J : Handles(J)
    BY <1>2, CallKeeps
  <2>2. \A j \in Job : job[j] # "queued" => job'[j] = job[j]
    BY <2>1 DEF UploadInv, QueuedOnce, Handles
  <2> QED
    BY <2>1, <2>2 DEF Settled
<1>3. CASE \E j \in Job : JobStep(j)
  BY <1>3, JobKeeps DEF Settled
<1>4. CASE UNCHANGED uploadVars
  BY <1>4 DEF uploadVars, scope, calls, files, UploadInv,
     UploadTypes, NewJobs, QueuedOnce, CompletedStored, DurableCompleted
<1> QED
  BY <1>1, <1>2, <1>3, <1>4 DEF UploadNext, CallStep

\* The invariant of the uploads holds in every reachable state.
THEOREM UploadInductive == UploadSpec => []UploadInv
<1>1. UploadInit => UploadInv
  BY UploadStarts
<1>2. UploadInv /\ [UploadNext]_uploadVars => UploadInv'
  BY UploadStep
<1> QED
  BY <1>1, <1>2, PTL DEF UploadSpec

\* A task is published as durable only when every object of it is in the store:
\* maybePublishTask counts the jobs that runJob completed after their upload, and a
\* cancelled, failed or elided one never counts.
THEOREM DurableObjectsExist == UploadSpec => []DurableIsStored
<1>1. UploadInv => DurableIsStored
  BY DEF UploadInv, CompletedStored, DurableCompleted, DurableIsStored,
     JobsOf
<1> QED
  BY <1>1, UploadInductive, PTL

\* An upload that ended stays as it ended: a cancel, a release, the drain and runJob
\* cannot settle a job one after the other.
THEOREM JobsSettleOnce == UploadSpec => SettlesOnce
<1>1. UploadInv /\ [UploadNext]_uploadVars
        => [\A j \in Job : job[j] \in Settled => job'[j] = job[j]]_uploadVars
  BY UploadStep
<1> QED
  BY <1>1, UploadInductive, PTL DEF UploadSpec, SettlesOnce

\* The uploads that hold a slot of the gate.
Running == {j \in Job : job[j] = "running"}

\* The counter of the gate is their number.
GateCounts == slots \in 0..Slots /\ slots = Cardinality(Running)

\* What the gate of the uploads is for.
GateHolds == Cardinality(Running) <= Slots

\* The uploads are finitely many.
LEMMA RunningFinite == IsFiniteSet(Running) /\ Cardinality(Running) \in Nat
<1>1. Running \subseteq Job
  BY DEF Running
<1>2. IsFiniteSet(Running)
  BY <1>1, FS_Subset, UploadAssumption
<1> QED
  BY <1>2, FS_CardinalityType

\* Only runJob takes and gives slots.
LEMMA OthersLeaveGate ==
  ASSUME UploadInv, CallStep \/ \E t \in Task : TaskStep(t)
  PROVE  slots' = slots /\ Running' = Running
<1>1. CASE CallStep
  <2>1. PICK J : Handles(J)
    BY <1>1, CallKeeps
  <2>2. \A j \in Job : job'[j] = "running" <=> job[j] = "running"
    BY <2>1 DEF UploadInv, UploadTypes, Taking, QueuedOnce, Handles
  <2>3. slots' = slots
    BY <1>1 DEF CallStep, CancelQuery, CancelStep, CancelCtx, elidePending, Purge,
       ReleaseQuery, ReleaseStep, releasePending, releaseStart, BeginDrain, DrainStep,
       flushPending, flushStart, flushWait, Drain, drainCancel, drainElide
  <2> QED
    BY <2>2, <2>3 DEF Running
<1>2. ASSUME NEW t \in Task, TaskStep(t) PROVE slots' = slots /\ Running' = Running
  <2>0. /\ start[t] # "done"
        /\ job' = job \/ \E new \in {"cancelled", "queued", "waiting"} : Become(JobsOf(t), new)
    BY <1>2 DEF TaskStep, queryState, Queue, StartJobs
  <2>n. \A j \in JobsOf(t) : job[j] = "none"
    BY <2>0 DEF UploadInv, NewJobs
  <2>1. \A j \in Job : job'[j] = "running" <=> job[j] = "running"
    BY <2>0, <2>n DEF Become
  <2>2. slots' = slots
    BY <1>2 DEF TaskStep, queryState, Queue, StartJobs
  <2> QED
    BY <2>1, <2>2 DEF Running
<1> QED
  BY <1>1, <1>2

\* A job takes a free slot, gives its own back, or does neither.
LEMMA JobSlots ==
  ASSUME UploadInv, NEW j \in Job, JobStep(j)
  PROVE  \/ j \notin Running /\ Running' = Running \cup {j}
            /\ slots < Slots /\ slots' = slots + 1
         \/ j \in Running /\ Running' = Running \ {j} /\ slots' = slots - 1
         \/ Running' = Running /\ slots' = slots
<1> DEFINE Ends(v) == job' = [k \in Job |-> IF k \in {j} THEN v ELSE job[k]]
<1>1. \/ job[j] = "waiting" /\ Ends("running") /\ slots < Slots /\ slots' = slots + 1
      \/ job[j] = "waiting" /\ Ends("cancelled") /\ slots' = slots
      \/ /\ job[j] = "running" /\ slots' = slots - 1
         /\ \E v \in {"cancelled", "completed", "failed"} : Ends(v)
      \/ job' = job /\ slots' = slots
  BY DEF JobStep, acquireSlot, uploadOnce, Settle, Become, releaseSlot
<1> QED
  BY <1>1 DEF Running

\* Every step keeps the count of the gate.
LEMMA GateStep ==
  ASSUME UploadInv, GateCounts, [UploadNext]_uploadVars
  PROVE  GateCounts'
<1>1. CASE CallStep \/ \E t \in Task : TaskStep(t)
  BY <1>1, OthersLeaveGate DEF GateCounts
<1>2. ASSUME NEW j \in Job, JobStep(j) PROVE GateCounts'
  <2>1. CASE /\ j \notin Running /\ Running' = Running \cup {j}
             /\ slots < Slots /\ slots' = slots + 1
    <3>1. Cardinality(Running') = Cardinality(Running) + 1
      BY <2>1, RunningFinite, FS_AddElement
    <3> QED
      BY <2>1, <3>1, UploadAssumption, SMTT(30) DEF GateCounts
  <2>2. CASE j \in Running /\ Running' = Running \ {j} /\ slots' = slots - 1
    <3>1. Cardinality(Running') = Cardinality(Running) - 1
      BY <2>2, RunningFinite, FS_RemoveElement
    <3>2. Cardinality(Running') \in Nat
      BY <2>2, RunningFinite, FS_RemoveElement, FS_CardinalityType
    <3> QED
      BY <2>2, <3>1, <3>2, UploadAssumption, SMTT(30) DEF GateCounts
  <2>3. CASE Running' = Running /\ slots' = slots
    BY <2>3 DEF GateCounts
  <2> QED
    BY <1>2, <2>1, <2>2, <2>3, JobSlots
<1>3. CASE UNCHANGED uploadVars
  BY <1>3 DEF uploadVars, GateCounts, Running
<1> QED
  BY <1>1, <1>2, <1>3 DEF UploadNext, CallStep

\* No more uploads are under way than the gate has slots, and none of its slots leaks:
\* acquireSlot and the release at the end of runJob pair up on every way out of it.
THEOREM UploadsFitGate == UploadSpec => [](GateHolds /\ slots = Cardinality(Running))
<1>1. UploadInit => GateCounts
  <2> SUFFICES ASSUME UploadInit PROVE GateCounts
    OBVIOUS
  <2>1. Running = {} /\ slots = 0
    BY DEF UploadInit, Running
  <2> QED
    BY <2>1, FS_EmptySet, UploadAssumption, SMTT(30) DEF GateCounts
<1>2. UploadInv /\ GateCounts /\ [UploadNext]_uploadVars => GateCounts'
  BY GateStep
<1>3. GateCounts => GateHolds /\ slots = Cardinality(Running)
  BY UploadAssumption, SMTT(30) DEF GateCounts, GateHolds
<1> QED
  BY <1>1, <1>2, <1>3, UploadInductive, PTL DEF UploadSpec

=============================================================================

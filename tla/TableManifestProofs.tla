------------------------- MODULE TableManifestProofs -------------------------
(***************************************************************************)
(* The safety of the manifest protocol, for any set of statements and      *)
(* compactors and any initial files: IInv of TableManifest is inductive,   *)
(* and the invariants the clients care about follow from it.  One lemma    *)
(* per action shows that the action preserves IInv.                        *)
(*                                                                         *)
(* The steps that bring a writer to its update of the manifest come first. *)
(* The actions that only move one writer along share QuietReturn and       *)
(* QuietMove; BeginIInv covers the plans that statements and compactors    *)
(* make, and UploadIInv the objects they write.  The updates and the       *)
(* removal of objects follow, and then the theorems.                       *)
(***************************************************************************)
EXTENDS TableManifest, TLAPS

\* A leaf is Zenon's unless it names the SMT solver.
USE ZenonT(60)

\* The initial table satisfies the inductive invariant.
LEMMA InitIInv == Init => IInv
<1> SUFFICES ASSUME Init PROVE IInv
  OBVIOUS
<1>1. TypeOK
  <2>1. NoOp \in Op
    BY DEF NoOp, Op
  <2> QED
    BY <2>1, SeedAssumption, SMTT(30) DEF Init, SeedRow, TypeOK, Place, Row, Root, PC,
                                Returned
<1>2. PathsMinted /\ RemovedStaysRemoved /\ NoDanglingFile
  BY DEF Init, Writer, PathsMinted, RemovedStaysRemoved, NoDanglingFile, NoOp
<1>3. SingleCopy
  BY SeedAssumption, SMTT(30) DEF Init, SeedRow, SingleCopy, LivePlaces
<1>4. MarkersApply /\ OutputsPrivate /\ OutputsHoldPlan /\ StatementPlans
      /\ CompactionPlans
  BY DEF Init, Writer, MarkersApply, OutputsPrivate, OutputsHoldPlan,
         StatementPlans, CompactionPlans, InFlight, Active
<1>5. ValidatedAtBase
  BY SMTT(30) DEF Init, ValidatedAtBase, Active, NoOp
<1>6. RootsAccounted
  BY DEF Init, SeedRow, RootsAccounted, LivePlaces
<1> QED
  BY <1>1, <1>2, <1>3, <1>4, <1>5, <1>6 DEF IInv

\* A step in which one writer only moves: it returns, or goes on with the same
\* plan, and touches neither the manifest nor the store nor the queue.
Quiet(w, label, o) ==
  /\ Goto(w, label, o)
  /\ UNCHANGED pending
  /\ UNCHANGED manifestVars
  /\ UNCHANGED storeVars

\* A writer that returns without committing leaves nothing behind but, perhaps,
\* an object nobody names.
LEMMA QuietReturn ==
  ASSUME IInv, NEW w \in Writer, NEW label \in Returned, NEW o,
         w \in Stmt => w \notin landed /\ label # "ok",
         tries' \in [Writer -> Nat],
         Quiet(w, label, o)
  PROVE  IInv'
<1>1. /\ pc' = [pc EXCEPT ![w] = label]
      /\ op' = [op EXCEPT ![w] = NoOp]
  BY DEF Quiet, Goto
<1>2. NoOp \in Op
  BY DEF NoOp, Op
<1>3. TypeOK'
  BY <1>1, <1>2 DEF IInv, Quiet, manifestVars, storeVars, TypeOK, PC
<1>4. PathsMinted'
  BY <1>1 DEF IInv, Quiet, manifestVars, storeVars, PathsMinted, NoOp, TypeOK
<1>5. SingleCopy' /\ NoDanglingFile' /\ MarkersApply' /\ RootsAccounted'
  BY DEF IInv, Quiet, manifestVars, storeVars, SingleCopy, NoDanglingFile,
         MarkersApply, RootsAccounted, LivePlaces
<1>6. RemovedStaysRemoved'
  BY <1>1 DEF IInv, Quiet, manifestVars, RemovedStaysRemoved, Returned, Reported,
              TypeOK, Writer
<1>7. OutputsPrivate'
  BY <1>1, SMTT(30) DEF IInv, Quiet, manifestVars, storeVars, OutputsPrivate, InFlight,
              Returned, Reported, TypeOK, NoOp
<1>8. OutputsHoldPlan'
  BY <1>1 DEF IInv, Quiet, storeVars, OutputsHoldPlan, Returned, Reported, TypeOK
<1>9. StatementPlans'
  BY <1>1, SMTT(30) DEF IInv, Quiet, manifestVars, storeVars, StatementPlans, Active,
              Returned, Reported, TypeOK, Writer
<1>10. CompactionPlans'
  BY <1>1, SMTT(30)
     DEF IInv, Quiet, storeVars, CompactionPlans, Active, Returned, Reported,
              TypeOK, Writer
<1>11. ValidatedAtBase'
  BY <1>1, SMTT(30) DEF IInv, Quiet, manifestVars, ValidatedAtBase, Active, Returned,
              Reported, TypeOK, NoOp, DMLConflict, CompactionConflict, MarksOf
<1> QED
  BY <1>3, <1>4, <1>5, <1>6, <1>7, <1>8, <1>9, <1>10, <1>11 DEF IInv

\* A writer that goes on with the plan it had, having validated it if it claims
\* the manifest's revision.
LEMMA QuietMove ==
  ASSUME IInv, NEW w \in Writer, NEW o \in Op,
         NEW label \in {"get", "update", "conflict"},
         pc[w] \in {"get", "update"},
         /\ o.reads = op[w].reads
         /\ o.marks = op[w].marks
         /\ o.adds = op[w].adds
         /\ o.out = op[w].out
         /\ o.base <= rev,
         label \in {"get", "update"} /\ o.base = rev =>
           IF w \in Stmt THEN ~ DMLConflict(o) ELSE ~ CompactionConflict(o),
         tries' \in [Writer -> Nat],
         Quiet(w, label, o)
  PROVE  IInv'
<1>1. /\ pc' = [pc EXCEPT ![w] = label]
      /\ op' = [op EXCEPT ![w] = o]
  BY DEF Quiet, Goto, Returned, Reported
<1>3. TypeOK'
  BY <1>1 DEF IInv, Quiet, manifestVars, storeVars, TypeOK, PC
<1>4. PathsMinted'
  BY <1>1 DEF IInv, Quiet, manifestVars, storeVars, PathsMinted, TypeOK
<1>5. SingleCopy' /\ NoDanglingFile' /\ MarkersApply' /\ RootsAccounted'
  BY DEF IInv, Quiet, manifestVars, storeVars, SingleCopy, NoDanglingFile,
         MarkersApply, RootsAccounted, LivePlaces
<1>6. RemovedStaysRemoved'
  BY <1>1 DEF IInv, Quiet, manifestVars, RemovedStaysRemoved, TypeOK, Writer
<1>7. OutputsPrivate'
  BY <1>1, SMTT(30)
     DEF IInv, Quiet, manifestVars, storeVars, OutputsPrivate, InFlight, TypeOK
<1>8. OutputsHoldPlan'
  BY <1>1, SMTT(30) DEF IInv, Quiet, storeVars, OutputsHoldPlan, TypeOK
<1>9. StatementPlans'
  BY <1>1, SMTT(30)
     DEF IInv, Quiet, manifestVars, storeVars, StatementPlans, Active, TypeOK,
              Writer
<1>10. CompactionPlans'
  BY <1>1, SMTT(30) DEF IInv, Quiet, storeVars, CompactionPlans, Active, TypeOK, Writer
<1>11. ValidatedAtBase'
  BY <1>1, SMTT(30) DEF IInv, Quiet, manifestVars, ValidatedAtBase, Active, TypeOK,
              DMLConflict, CompactionConflict, MarksOf
<1> QED
  BY <1>3, <1>4, <1>5, <1>6, <1>7, <1>8, <1>9, <1>10, <1>11 DEF IInv

\* An error before the commit's update.
LEMMA FailsIInv ==
  ASSUME IInv, NEW w \in Writer, NEW label \in {"refused", "idle"}, Fails(w, label)
  PROVE  IInv'
<1>1. Quiet(w, label, op[w]) /\ label \in Returned /\ tries' \in [Writer -> Nat]
  BY DEF Fails, Quiet, Returned, Reported, IInv, TypeOK
<1>2. w \in Stmt => w \notin landed
  BY DEF Fails, IInv, StatementPlans
<1> QED
  BY <1>1, <1>2, QuietReturn

\* An update that fails without being applied.
LEMMA UpdateErrorIInv ==
  ASSUME IInv, NEW w \in Writer, NEW label \in {"unknown", "idle"}, UpdateError(w, label)
  PROVE  IInv'
<1>1. Quiet(w, label, NoOp) /\ label \in Returned /\ tries' \in [Writer -> Nat]
  BY DEF UpdateError, Quiet, Returned, Reported, IInv, TypeOK
<1>2. w \in Stmt => w \notin landed
  BY DEF UpdateError, IInv, StatementPlans
<1> QED
  BY <1>1, <1>2, QuietReturn

\* A lost race for the revision: the writer's base is older than the manifest.
LEMMA MismatchIInv ==
  ASSUME IInv, NEW w \in Writer, NEW giveUp \in {"refused", "idle"}, Mismatch(w, giveUp)
  PROVE  IInv'
<1> DEFINE o == [op[w] EXCEPT !.retry = @ + 1]
<1>1. op[w] \in Op /\ tries' \in [Writer -> Nat]
  BY DEF IInv, TypeOK, Mismatch
<1>2. /\ o \in Op
      /\ o.reads = op[w].reads
      /\ o.marks = op[w].marks
      /\ o.adds = op[w].adds
      /\ o.out = op[w].out
      /\ o.base = op[w].base
  BY <1>1, SMTT(30) DEF Op
<1>3. CASE op[w].retry + 1 < MaxRetries
  <2>1. /\ Quiet(w, "get", o)
        /\ pc[w] = "update"
        /\ op[w].base <= rev
        /\ op[w].base # rev
    BY <1>3 DEF Mismatch, Quiet, IInv, ValidatedAtBase, Active
  <2> HIDE DEF o
  <2> QED
    BY <1>1, <1>2, <2>1, QuietMove
<1>4. CASE ~ (op[w].retry + 1 < MaxRetries)
  <2>1. Quiet(w, giveUp, o)
    BY <1>4 DEF Mismatch, Quiet
  <2>2. w \in Stmt => w \notin landed
    BY DEF Mismatch, IInv, StatementPlans
  <2>3. giveUp \in Returned
    BY DEF Returned, Reported
  <2> QED
    BY <1>1, <2>1, <2>2, <2>3, QuietReturn
<1> QED
  BY <1>3, <1>4

\* A statement validates its markers against the manifest it just read.
LEMMA CommitGetIInv ==
  ASSUME IInv, NEW s \in Stmt, commitGet(s)
  PROVE  IInv'
<1> DEFINE o == [op[s] EXCEPT !.base = rev]
<1>1. s \in Writer /\ op[s] \in Op /\ rev \in Nat /\ tries' \in [Writer -> Nat]
  BY SMTT(30) DEF IInv, TypeOK, commitGet, Writer
<1>2. /\ o \in Op
      /\ o.reads = op[s].reads
      /\ o.marks = op[s].marks
      /\ o.adds = op[s].adds
      /\ o.out = op[s].out
      /\ o.base = rev
  BY <1>1 DEF Op
<1>3. s \notin landed
  BY DEF commitGet, IInv, StatementPlans
<1>4. CASE DMLConflict(op[s])
  <2>1. PICK label \in {"idle", "refused"} : Quiet(s, label, op[s])
    BY <1>4 DEF commitGet, Quiet
  <2>2. label \in Returned
    BY <2>1 DEF Returned, Reported
  <2> QED
    BY <1>1, <1>3, <2>1, <2>2, QuietReturn
<1>5. CASE ~ DMLConflict(op[s]) /\ Collides(op[s])
  <2>1. Quiet(s, "refused", o)
    BY <1>5 DEF commitGet, Quiet
  <2>2. "refused" \in Returned
    BY DEF Returned, Reported
  <2> QED
    BY <1>1, <1>3, <2>1, <2>2, QuietReturn
<1>6. CASE ~ DMLConflict(op[s]) /\ ~ Collides(op[s])
  <2>1. Quiet(s, "update", o) /\ pc[s] = "get"
    BY <1>6 DEF commitGet, Quiet
  <2>2. ~ DMLConflict(o)
    BY <1>2, <1>6 DEF DMLConflict
  <2>3. rev <= rev
    BY <1>1, SMTT(30)
  <2> HIDE DEF o
  <2> QED
    BY <1>1, <1>2, <2>1, <2>2, <2>3, QuietMove
<1> QED
  BY <1>4, <1>5, <1>6

\* A compactor validates its inputs and their markers likewise.
LEMMA CompactionGetIInv ==
  ASSUME IInv, NEW c \in Compactor, compactionGet(c)
  PROVE  IInv'
<1> DEFINE o == [op[c] EXCEPT !.base = rev]
<1>1. /\ c \in Writer /\ c \notin Stmt
      /\ op[c] \in Op /\ rev \in Nat /\ tries' \in [Writer -> Nat]
  BY ActorAssumption DEF IInv, TypeOK, compactionGet, Writer
<1>2. /\ o \in Op
      /\ o.reads = op[c].reads
      /\ o.marks = op[c].marks
      /\ o.adds = op[c].adds
      /\ o.out = op[c].out
      /\ o.base = rev
  BY <1>1 DEF Op
<1>3. op[c].base <= rev /\ rev <= rev
  BY <1>1, SMTT(30) DEF IInv, ValidatedAtBase, Active
<1>4. CASE CompactionConflict(op[c])
  <2>1. Quiet(c, "conflict", op[c]) /\ pc[c] = "get"
    BY <1>4 DEF compactionGet, Quiet
  <2> QED
    BY <1>1, <1>3, <2>1, QuietMove
<1>5. CASE ~ CompactionConflict(op[c]) /\ Collides(op[c])
  <2>1. Quiet(c, "idle", o)
    BY <1>5 DEF compactionGet, Quiet
  <2>2. "idle" \in Returned
    BY DEF Returned, Reported
  <2> QED
    BY <1>1, <2>1, <2>2, QuietReturn
<1>6. CASE ~ CompactionConflict(op[c]) /\ ~ Collides(op[c])
  <2>1. Quiet(c, "update", o) /\ pc[c] = "get"
    BY <1>6 DEF compactionGet, Quiet
  <2>2. ~ CompactionConflict(o)
    BY <1>2, <1>6 DEF CompactionConflict
  <2> HIDE DEF o
  <2> QED
    BY <1>1, <1>2, <1>3, <2>1, <2>2, QuietMove
<1> QED
  BY <1>4, <1>5, <1>6

\* Reading the manifest.  The plan must satisfy what StatementPlans or
\* CompactionPlans says of it, for the manifest as it is now.
LEMMA BeginIInv ==
  ASSUME IInv, NEW w \in Writer,
         NEW reads \in SUBSET File, NEW markers \in SUBSET Place, NEW adds \in SUBSET Row,
         reads \subseteq files,
         w \in Stmt =>
           /\ markers \subseteq LivePlaces(files)
           /\ \A r \in adds :
                r = <<w, 0>> \/ \E p \in markers : r = Successor(p[2]),
         w \in Compactor =>
           /\ markers = MarksOf(reads)
           /\ adds = {p[2] : p \in LivePlaces(reads)},
         tries' \in [Writer -> Nat],
         Begin(w, reads, markers, adds)
  PROVE  IInv'
<1> DEFINE o == [reads |-> reads, marks |-> markers, adds |-> adds,
                 out |-> {}, base |-> rev, retry |-> 0]
<1>1. /\ pc[w] = "idle"
      /\ pc' = [pc EXCEPT ![w] = "scan"]
      /\ op' = [op EXCEPT ![w] = o]
  BY DEF Begin, Goto, Returned, Reported
<1>2. /\ o \in Op
      /\ o.reads = reads
      /\ o.marks = markers
      /\ o.adds = adds
      /\ o.out = {}
      /\ o.base = rev
  BY DEF IInv, Op, TypeOK
<1> HIDE DEF o
<1>3. TypeOK'
  BY <1>1, <1>2 DEF IInv, Begin, manifestVars, storeVars, TypeOK, PC
<1>4. PathsMinted'
  BY <1>1, <1>2 DEF IInv, Begin, manifestVars, storeVars, PathsMinted, TypeOK
<1>5. SingleCopy' /\ NoDanglingFile' /\ MarkersApply' /\ RootsAccounted'
  BY DEF IInv, Begin, manifestVars, storeVars, SingleCopy, NoDanglingFile,
         MarkersApply, RootsAccounted, LivePlaces
<1>6. RemovedStaysRemoved'
  BY <1>1 DEF IInv, Begin, manifestVars, RemovedStaysRemoved, TypeOK, Writer
<1>7. OutputsPrivate'
  BY <1>1, <1>2, SMTT(30)
     DEF IInv, Begin, manifestVars, storeVars, OutputsPrivate, InFlight,
                    TypeOK
<1>8. OutputsHoldPlan'
  BY <1>1, <1>2 DEF IInv, Begin, storeVars, OutputsHoldPlan, TypeOK
<1>9. StatementPlans'
  <2>1. w \in Stmt =>
          /\ w \notin landed
          /\ markers \subseteq stored
          /\ \A p, q \in markers : p[2][1] = q[2][1] => p = q
          /\ \A p \in markers : p[2][1] \in Loaded \cup landed
    BY <1>1 DEF IInv, StatementPlans, SingleCopy, RootsAccounted, LivePlaces
  <2> QED
    BY <1>1, <1>2, <2>1, SMTT(30)
       DEF IInv, Begin, manifestVars, storeVars, StatementPlans,
                            Active, TypeOK, Writer
<1>10. CompactionPlans'
  <2>1. w \in Compactor =>
          /\ markers \subseteq {p \in stored : p[1] \in reads}
          /\ {q \in stored : q[1] \in reads} \ markers = LivePlaces(reads)
    BY DEF IInv, MarkersApply, MarksOf, LivePlaces
  <2> QED
    BY <1>1, <1>2, <2>1, SMTT(30)
       DEF IInv, Begin, storeVars, CompactionPlans, Active, TypeOK,
                            Writer
<1>11. ValidatedAtBase'
  <2>1. w \in Stmt => ~ DMLConflict(o)
    BY <1>2 DEF DMLConflict, LivePlaces
  <2>2. w \notin Stmt => ~ CompactionConflict(o)
    BY <1>2 DEF CompactionConflict, Writer
  <2> QED
    BY <1>1, <1>2, <2>1, <2>2, SMTT(30) DEF IInv, Begin, manifestVars, ValidatedAtBase,
                                  Active, TypeOK, DMLConflict, CompactionConflict,
                                  MarksOf
<1> QED
  BY <1>3, <1>4, <1>5, <1>6, <1>7, <1>8, <1>9, <1>10, <1>11 DEF IInv

\* A statement plans from live rows, whose roots are distinct by SingleCopy.
LEMMA StatementBeginsIInv ==
  ASSUME IInv, NEW s \in Stmt, StatementBegins(s)
  PROVE  IInv'
<1>1. s \in Writer /\ s \notin Compactor /\ <<s, 0>> \in Row
  BY ActorAssumption DEF Writer, Row, Root
<1>2. LivePlaces(files) \subseteq Place /\ files \subseteq File
  BY DEF IInv, TypeOK, LivePlaces
<1>3. ASSUME NEW reads \in {{}, files},
             NEW upd \in SUBSET LivePlaces(files), NEW del \in SUBSET LivePlaces(files),
             NEW ins \in SUBSET {<<s, 0>>},
             BeginStatement(s, reads, upd, del, ins)
      PROVE  IInv'
  <2> DEFINE adds == {Successor(p[2]) : p \in upd} \cup ins
  <2>1. \A p \in upd : Successor(p[2]) \in Row
    BY <1>2, SMTT(30) DEF Place, Row, Successor
  <2>2. /\ adds \in SUBSET Row
        /\ \A r \in adds :
             r = <<s, 0>> \/ \E p \in upd \cup del : r = Successor(p[2])
    BY <1>1, <2>1
  <2>3. Begin(s, reads, upd \cup del, adds) /\ tries' \in [Writer -> Nat]
    BY <1>3 DEF BeginStatement, IInv, TypeOK
  <2>4. reads \in SUBSET File /\ reads \subseteq files /\ upd \cup del \in SUBSET Place
    BY <1>2
  <2> HIDE DEF adds
  <2> QED
    BY <1>1, <2>2, <2>3, <2>4, BeginIInv
<1> QED
  BY <1>3 DEF StatementBegins, executeInsert, deleteOnce, updateOnce, mergeOnce

\* A group is planned from files and markers of the manifest.
LEMMA GroupBeginsIInv ==
  ASSUME IInv, NEW c \in Compactor, GroupBegins(c)
  PROVE  IInv'
<1>1. c \in Writer /\ c \notin Stmt
  BY ActorAssumption DEF Writer
<1>2. PICK inputs \in SUBSET files : BeginGroup(c, inputs)
  BY DEF GroupBegins, CompactTable, RewriteTable, ForceCompactFile
<1> DEFINE adds == {p[2] : p \in LivePlaces(inputs)}
<1>3. Begin(c, inputs, MarksOf(inputs), adds) /\ tries' \in [Writer -> Nat]
  BY <1>1, <1>2, SMTT(30) DEF BeginGroup, IInv, TypeOK
<1>4. inputs \in SUBSET File /\ MarksOf(inputs) \in SUBSET Place
  BY DEF IInv, TypeOK, MarksOf
<1>5. adds \in SUBSET Row
  BY DEF IInv, TypeOK, LivePlaces, Place
<1> QED
  BY <1>1, <1>3, <1>4, <1>5, BeginIInv

\* The upload writes at a path no other writer knows.
LEMMA UploadIInv ==
  ASSUME IInv, NEW w \in Writer, NEW label \in {"get", "noop"},
         pc[w] = "scan",
         label = "noop" => op[w].adds = {},
         Upload(w, label),
         UNCHANGED <<tries, pending>>,
         UNCHANGED manifestVars
  PROVE  IInv'
<1>1. CASE op[w].adds = {} /\ label = "noop"
  <2>1. Quiet(w, label, op[w]) /\ label \in Returned /\ tries' \in [Writer -> Nat]
    BY <1>1 DEF IInv, Upload, Quiet, Returned, Reported, TypeOK
  <2>2. w \in Stmt => w \notin landed
    BY DEF IInv, StatementPlans
  <2> QED
    BY <2>1, <2>2, QuietReturn
<1>2. CASE op[w].adds = {} /\ label = "get"
  <2>1. /\ pc' = [pc EXCEPT ![w] = "get"]
        /\ op' = op
        /\ UNCHANGED <<stored, minted, objects>>
    BY <1>2 DEF IInv, storeVars, Upload, Goto, Returned, Reported, TypeOK
  <2>2. op[w].out = {}
    BY DEF IInv, OutputsPrivate, InFlight
  <2>3. TypeOK'
    BY <2>1 DEF IInv, manifestVars, TypeOK, PC
  <2>4. PathsMinted'
    BY <2>1 DEF IInv, manifestVars, PathsMinted
  <2>5. SingleCopy' /\ NoDanglingFile' /\ MarkersApply' /\ RootsAccounted'
    BY <2>1 DEF IInv, manifestVars, SingleCopy, NoDanglingFile, MarkersApply,
                RootsAccounted, LivePlaces
  <2>6. RemovedStaysRemoved'
    BY <2>1 DEF IInv, manifestVars, RemovedStaysRemoved, TypeOK, Writer
  <2>7. OutputsPrivate'
    BY <2>1, SMTT(30) DEF IInv, manifestVars, OutputsPrivate, InFlight, TypeOK
  <2>8. OutputsHoldPlan'
    BY <1>2, <2>1, <2>2 DEF IInv, OutputsHoldPlan, TypeOK
  <2>9. StatementPlans'
    BY <2>1, SMTT(30) DEF IInv, manifestVars, StatementPlans, Active, TypeOK, Writer
  <2>10. CompactionPlans'
    BY <2>1 DEF IInv, CompactionPlans, Active, TypeOK, Writer
  <2>11. ValidatedAtBase'
    BY <2>1 DEF IInv, manifestVars, ValidatedAtBase, Active, TypeOK, DMLConflict,
                CompactionConflict, MarksOf
  <2> QED
    BY <2>3, <2>4, <2>5, <2>6, <2>7, <2>8, <2>9, <2>10, <2>11 DEF IInv
<1>3. CASE op[w].adds # {}
  <2> DEFINE o == [op[w] EXCEPT !.out = {FreshPath}]
  <2>1. /\ pc' = [pc EXCEPT ![w] = "get"]
        /\ op' = [op EXCEPT ![w] = o]
        /\ minted' = minted \cup {FreshPath}
        /\ objects' = objects \cup {FreshPath}
        /\ stored' = stored \cup {FreshPath} \X op[w].adds
    BY <1>3 DEF Upload, Goto, Returned, Reported
  <2>2. FreshPath \in File /\ FreshPath \notin minted
    BY <1>3 DEF Upload, FreshPath
  <2>3. op[w] \in Op
    BY DEF IInv, TypeOK
  <2>4. /\ o \in Op
        /\ o.reads = op[w].reads
        /\ o.marks = op[w].marks
        /\ o.adds = op[w].adds
        /\ o.out = {FreshPath}
        /\ o.base = op[w].base
    BY <2>2, <2>3 DEF Op
  <2> DEFINE new == FreshPath
  <2> HIDE DEF o, new
  <2>5. TypeOK'
    BY <2>1, <2>2, <2>3, <2>4 DEF IInv, manifestVars, TypeOK, PC, Place, Op
  <2>6. PathsMinted'
    BY <2>1, <2>2, <2>4 DEF IInv, manifestVars, PathsMinted, TypeOK
  <2>7. LivePlaces(files)' = LivePlaces(files)
    BY <2>1, <2>2 DEF IInv, manifestVars, LivePlaces, PathsMinted
  <2>8. SingleCopy' /\ RootsAccounted'
    BY <2>7, SMTT(30) DEF IInv, manifestVars, SingleCopy, RootsAccounted
  <2>9. NoDanglingFile' /\ MarkersApply'
    BY <2>1 DEF IInv, manifestVars, NoDanglingFile, MarkersApply
  <2>10. RemovedStaysRemoved'
    BY <2>1 DEF IInv, manifestVars, RemovedStaysRemoved, TypeOK, Writer
  <2>11. OutputsPrivate'
    <3>1. /\ pc'[w] = "get" /\ op'[w].out = {FreshPath} /\ op'[w].reads = op[w].reads
          /\ \A v \in Writer \ {w} : pc'[v] = pc[v] /\ op'[v] = op[v]
      BY <2>1, <2>4 DEF IInv, TypeOK
    <3>2. InFlight' = InFlight /\ w \in InFlight /\ files' = files /\ pending' = pending
      BY <3>1 DEF InFlight, manifestVars
    <3>3. /\ FreshPath \notin files
          /\ \A c \in Compactor : FreshPath \notin pending[c]
          /\ \A v \in Writer : FreshPath \notin op[v].reads /\ FreshPath \notin op[v].out
      BY <2>2 DEF IInv, PathsMinted
    <3>4. /\ FreshPath \in objects' /\ objects \subseteq objects'
          /\ InFlight \subseteq Writer /\ OutputsPrivate
      BY <2>1 DEF IInv, InFlight
    <3>5. ASSUME NEW v \in InFlight, v # w
          PROVE  /\ op'[v].out \cap files' = {}
                 /\ \A c \in Compactor : op'[v].out \cap pending'[c] = {}
                 /\ \A u \in Writer : op'[v].out \cap op'[u].reads = {}
                 /\ \A u \in InFlight : u # v => op'[v].out \cap op'[u].out = {}
                 /\ pc'[v] # "conflict" => op'[v].out \subseteq objects'
                 /\ pc'[v] = "scan" => op'[v].out = {}
      BY <3>1, <3>2, <3>3, <3>4, <3>5, SMTT(30) DEF OutputsPrivate
    <3>6. /\ op'[w].out \cap files' = {}
          /\ \A c \in Compactor : op'[w].out \cap pending'[c] = {}
          /\ \A u \in Writer : op'[w].out \cap op'[u].reads = {}
          /\ \A u \in InFlight : u # w => op'[w].out \cap op'[u].out = {}
          /\ op'[w].out \subseteq objects'
      BY <3>1, <3>2, <3>3, <3>4, SMTT(30)
    <3> QED
      BY <3>1, <3>2, <3>5, <3>6 DEF OutputsPrivate
  <2>12. OutputsHoldPlan'
    <3>1. ASSUME NEW v \in Writer, v # w, pc[v] \in {"get", "update"}
          PROVE  {p \in stored' : p[1] \in op[v].out} = {p \in stored : p[1] \in op[v].out}
      BY <2>1, <2>2 DEF IInv, PathsMinted
    <3>2. {p \in stored' : p[1] \in {FreshPath}} = {FreshPath} \X op[w].adds
      BY <2>1, <2>2 DEF IInv, PathsMinted
    <3> QED
      BY <2>1, <2>2, <2>4, <3>1, <3>2 DEF IInv, OutputsHoldPlan, TypeOK
  <2>13. StatementPlans'
    BY <2>1, <2>4, SMTT(30)
       DEF IInv, manifestVars, StatementPlans, Active, TypeOK, Writer
  <2>14. CompactionPlans'
    <3>1. ASSUME NEW c \in Compactor
          PROVE  {p \in stored' : p[1] \in op[c].reads} = {p \in stored : p[1] \in op[c].reads}
      BY <2>1, <2>2 DEF IInv, PathsMinted, Writer
    <3> QED
      BY <2>1, <2>4, <3>1, SMTT(30) DEF IInv, CompactionPlans, Active, TypeOK, Writer
  <2>15. ValidatedAtBase'
    BY <2>1, <2>4, SMTT(30) DEF IInv, manifestVars, ValidatedAtBase, Active, TypeOK,
                      DMLConflict, CompactionConflict, MarksOf
  <2> QED
    BY <2>5, <2>6, <2>8, <2>9, <2>10, <2>11, <2>12, <2>13, <2>14, <2>15 DEF IInv
<1> QED
  BY <1>1, <1>2, <1>3

-----------------------------------------------------------------------------
\* A statement lands: the rows it marks are live, so its output supersedes each
\* of them and nothing else.
LEMMA CommitUpdateLive ==
  ASSUME IInv, NEW s \in Stmt, commitUpdate(s)
  PROVE  /\ op[s].marks \subseteq LivePlaces(files)
         /\ LivePlaces(files)' =
              (LivePlaces(files) \ op[s].marks) \cup (op[s].out \X op[s].adds)
<1>1. s \in Writer /\ s \in InFlight
  BY DEF commitUpdate, Land, Writer, InFlight
<1>2. ~ DMLConflict(op[s])
  BY <1>1 DEF IInv, commitUpdate, Land, ValidatedAtBase, Active
<1>3. op[s].marks \subseteq LivePlaces(files)
  BY <1>2 DEF IInv, commitUpdate, Land, DMLConflict, StatementPlans, Active,
              LivePlaces
<1>4. {p \in stored : p[1] \in op[s].out} = op[s].out \X op[s].adds
  BY <1>1 DEF IInv, commitUpdate, Land, OutputsHoldPlan
<1>5. op[s].out \cap files = {}
  BY <1>1 DEF IInv, OutputsPrivate
<1>6. \A p \in marks \cup op[s].marks : p[1] \in files
  BY <1>3 DEF IInv, MarkersApply, LivePlaces
<1> QED
  BY <1>3, <1>4, <1>5, <1>6 DEF commitUpdate, Land, storeVars, LivePlaces

\* A writer that is done with its output leaves the outputs of the others private.
LEMMA PrivateStays ==
  ASSUME OutputsPrivate, NEW x \in Writer,
         pc'[x] \notin {"scan", "get", "update", "conflict"}, op'[x].reads = {},
         \A w \in Writer \ {x} : pc'[w] = pc[w] /\ op'[w] = op[w],
         \A w \in InFlight \ {x} : /\ op[w].out \cap files' = {}
                                   /\ pc[w] # "conflict" => op[w].out \subseteq objects',
         \A c \in Compactor : pending'[c] \subseteq pending[c]
  PROVE  OutputsPrivate'
<1>1. \A w \in InFlight' : w \in InFlight \ {x} /\ pc'[w] = pc[w] /\ op'[w] = op[w]
  BY DEF InFlight
<1>2. ASSUME NEW w \in InFlight'
      PROVE  /\ op[w].out \cap files' = {}
             /\ \A c \in Compactor : op[w].out \cap pending'[c] = {}
             /\ \A v \in Writer : op[w].out \cap op'[v].reads = {}
             /\ \A v \in InFlight' : v # w => op[w].out \cap op'[v].out = {}
             /\ pc[w] # "conflict" => op[w].out \subseteq objects'
             /\ pc[w] = "scan" => op[w].out = {}
  <2>1. w \in InFlight \ {x}
    BY <1>1
  <2>2. \A c \in Compactor : op[w].out \cap pending'[c] = {}
    BY <2>1 DEF OutputsPrivate
  <2>3. \A v \in Writer : op[w].out \cap op'[v].reads = {}
    BY <2>1 DEF OutputsPrivate
  <2>4. \A v \in InFlight' : v # w => op[w].out \cap op'[v].out = {}
    BY <1>1, <2>1 DEF OutputsPrivate
  <2>5. pc[w] = "scan" => op[w].out = {}
    BY <2>1 DEF OutputsPrivate
  <2>6. /\ op[w].out \cap files' = {}
        /\ pc[w] # "conflict" => op[w].out \subseteq objects'
    BY <2>1
  <2> QED
    BY <2>2, <2>3, <2>4, <2>5, <2>6
<1> QED
  BY <1>1, <1>2 DEF OutputsPrivate

\* A statement's update preserves the invariant, whatever its client is told.
LEMMA CommitUpdateIInv ==
  ASSUME IInv, NEW s \in Stmt, commitUpdate(s)
  PROVE  IInv'
<1>1. PICK label \in {"ok", "unknown"} :
        /\ pc' = [pc EXCEPT ![s] = label]
        /\ op' = [op EXCEPT ![s] = NoOp]
  BY DEF commitUpdate, Land, Goto
<1>2. NoOp \in Op /\ NoOp.reads = {} /\ NoOp.out = {} /\ NoOp.base = 0
  BY DEF NoOp, Op
<1>3. s \in Writer /\ s \in InFlight /\ s \notin Loaded /\ op[s] \in Op
  BY ActorAssumption DEF IInv, commitUpdate, Land, Writer, InFlight, TypeOK
<1>5. op[s].marks \subseteq LivePlaces(files)
  BY CommitUpdateLive
<1>6. LivePlaces(files)' =
        (LivePlaces(files) \ op[s].marks) \cup (op[s].out \X op[s].adds)
  BY CommitUpdateLive
<1>7. ASSUME NEW f \in op[s].out, NEW r \in op[s].adds
      PROVE  /\ r[1] \in Loaded \cup landed \cup {s}
             /\ \A q \in LivePlaces(files) \ op[s].marks : q[2][1] # r[1]
             /\ \A x \in op[s].adds : x[1] = r[1] => x = r
  <2>1. /\ s \notin landed
        /\ \A p, q \in op[s].marks : p[2][1] = q[2][1] => p = q
        /\ \A p \in op[s].marks : p[2][1] \in Loaded \cup landed
        /\ \A x \in op[s].adds :
             x = <<s, 0>> \/ \E p \in op[s].marks : x = Successor(p[2])
    BY DEF IInv, commitUpdate, Land, StatementPlans, Active
  <2>2. \A p : Successor(p)[1] = p[1]
    BY DEF Successor
  <2>3. CASE r = <<s, 0>>
    BY <1>3, <2>1, <2>2, <2>3, SMTT(30) DEF IInv, RootsAccounted
  <2>4. CASE \E p \in op[s].marks : r = Successor(p[2])
    <3>1. PICK p \in op[s].marks : r = Successor(p[2])
      BY <2>4
    <3>2. r[1] = p[2][1]
      BY <2>2, <3>1
    <3>3. \A q \in LivePlaces(files) \ op[s].marks : q[2][1] # r[1]
      BY <1>5, <3>2 DEF IInv, SingleCopy
    <3>4. ASSUME NEW x \in op[s].adds, x[1] = r[1] PROVE x = r
      BY <1>3, <2>1, <2>2, <3>1, <3>2, <3>4, SMTT(30)
    <3> QED
      BY <2>1, <3>2, <3>3, <3>4
  <2> QED
    BY <2>1, <2>3, <2>4
<1>8. TypeOK'
  BY <1>1, <1>2, <1>3, SMTT(30)
     DEF IInv, commitUpdate, Land, storeVars, TypeOK, PC, Returned,
                          Reported, Op
<1>9. PathsMinted'
  BY <1>1, <1>2, <1>3 DEF IInv, commitUpdate, Land, storeVars, PathsMinted, TypeOK
<1>10. SingleCopy'
  <2>1. op[s].adds # {} => \E f \in File : op[s].out = {f}
    BY <1>3 DEF IInv, commitUpdate, Land, OutputsHoldPlan
  <2>2. SUFFICES ASSUME NEW p \in LivePlaces(files)', NEW q \in LivePlaces(files)',
                        p[2][1] = q[2][1]
                 PROVE  p = q
    BY DEF SingleCopy
  <2>3. CASE p \in LivePlaces(files) /\ q \in LivePlaces(files)
    BY <2>2, <2>3 DEF IInv, SingleCopy
  <2>4. CASE p \in op[s].out \X op[s].adds /\ q \in op[s].out \X op[s].adds
    BY <1>7, <2>1, <2>2, <2>4, SMTT(30)
  <2>5. CASE p \in LivePlaces(files) \ op[s].marks /\ q \in op[s].out \X op[s].adds
    BY <1>7, <2>2, <2>5
  <2>6. CASE q \in LivePlaces(files) \ op[s].marks /\ p \in op[s].out \X op[s].adds
    BY <1>7, <2>2, <2>6
  <2> QED
    BY <1>6, <2>3, <2>4, <2>5, <2>6
<1>11. RootsAccounted'
  BY <1>6, <1>7 DEF IInv, commitUpdate, Land, RootsAccounted
<1>12. NoDanglingFile'
  BY <1>3 DEF IInv, commitUpdate, Land, storeVars, NoDanglingFile, OutputsPrivate
<1>13. MarkersApply'
  BY <1>5 DEF IInv, commitUpdate, Land, storeVars, MarkersApply, LivePlaces
<1>14. RemovedStaysRemoved'
  BY <1>1, <1>3 DEF IInv, commitUpdate, Land, RemovedStaysRemoved, OutputsPrivate,
                    TypeOK, Writer
<1>15. OutputsPrivate'
  <2>1. /\ pc'[s] \notin {"scan", "get", "update", "conflict"} /\ op'[s].reads = {}
        /\ \A w \in Writer \ {s} : pc'[w] = pc[w] /\ op'[w] = op[w]
    BY <1>1, <1>2, <1>3 DEF IInv, TypeOK
  <2>2. /\ files' = files \cup op[s].out /\ objects' = objects
        /\ \A c \in Compactor : pending'[c] \subseteq pending[c]
    BY DEF commitUpdate, Land, storeVars
  <2>3. \A w \in InFlight \ {s} : /\ op[w].out \cap files' = {}
                                  /\ pc[w] # "conflict" => op[w].out \subseteq objects'
    BY <1>3, <2>2 DEF IInv, OutputsPrivate
  <2> QED
    BY <1>3, <2>1, <2>2, <2>3, PrivateStays DEF IInv
<1>16. OutputsHoldPlan'
  BY <1>1 DEF IInv, commitUpdate, Land, storeVars, OutputsHoldPlan, TypeOK
<1>o. /\ pc'[s] \in {"ok", "unknown"}
      /\ \A w \in Writer \ {s} : pc'[w] = pc[w] /\ op'[w] = op[w]
  BY <1>1, <1>3 DEF IInv, TypeOK
<1>l. landed' = landed \cup {s} /\ stored' = stored
  BY DEF commitUpdate, Land, storeVars
<1>17. StatementPlans'
  <2>1. /\ pc'[s] \notin Active
        /\ \A x \in Stmt \ {s} : pc'[x] = pc[x] /\ op'[x] = op[x]
    BY <1>o DEF Active, Writer
  <2> QED
    BY <1>o, <1>l, <2>1, SMTT(30) DEF IInv, StatementPlans
<1>18. CompactionPlans'
  <2>1. \A c \in Compactor : pc'[c] = pc[c] /\ op'[c] = op[c]
    BY <1>o, ActorAssumption DEF Writer
  <2> QED
    BY <1>l, <2>1 DEF IInv, CompactionPlans, Active
<1>19. ValidatedAtBase'
  <2>1. \A w \in Writer : op[w].base \in Nat /\ op'[w].base \in Nat /\ op'[w].base <= rev
    BY <1>1, <1>2, SMTT(30) DEF IInv, ValidatedAtBase, Active, TypeOK, Op
  <2> QED
    BY <2>1, SMTT(30) DEF IInv, commitUpdate, Land, ValidatedAtBase, Active, TypeOK
<1> QED
  BY <1>8, <1>9, <1>10, <1>11, <1>12, <1>13, <1>14, <1>15, <1>16,
     <1>17, <1>18, <1>19 DEF IInv

\* A compactor that stops working on a group leaves every plan as it was.
LEMMA CompactorStops ==
  ASSUME TypeOK, OutputsHoldPlan, StatementPlans, CompactionPlans,
         NEW c \in Compactor, NEW label \in {"idle", "swapped"}, NEW o,
         pc' = [pc EXCEPT ![c] = label], op' = [op EXCEPT ![c] = o],
         stored' = stored, landed' = landed
  PROVE  OutputsHoldPlan' /\ StatementPlans' /\ CompactionPlans'
<1>1. \A w \in Writer : w # c => pc'[w] = pc[w] /\ op'[w] = op[w]
  BY DEF TypeOK
<1>2. pc'[c] = label /\ label \notin Active
  BY DEF TypeOK, Writer, Active
<1>3. \A s \in Stmt : s \in Writer /\ s # c
  BY ActorAssumption DEF Writer
<1>4. OutputsHoldPlan'
  <2>1. SUFFICES ASSUME NEW w \in Writer, pc'[w] \in {"get", "update"}
                 PROVE  /\ {p \in stored : p[1] \in op'[w].out} = op'[w].out \X op'[w].adds
                        /\ op'[w].adds # {} => \E f \in File : op'[w].out = {f}
    BY DEF OutputsHoldPlan
  <2>2. w # c
    BY <1>2, <2>1 DEF Active
  <2> QED
    BY <1>1, <2>1, <2>2 DEF OutputsHoldPlan
<1>5. StatementPlans'
  <2>1. \A s \in Stmt : pc'[s] = pc[s] /\ op'[s] = op[s]
    BY <1>1, <1>3
  <2> QED
    BY <2>1, SMTT(30) DEF StatementPlans
<1>6. CompactionPlans'
  <2>1. SUFFICES ASSUME NEW d \in Compactor, pc'[d] \in Active
                 PROVE  /\ op'[d].marks \subseteq {p \in stored : p[1] \in op'[d].reads}
                        /\ op'[d].adds = {p[2] : p \in {q \in stored : q[1] \in op'[d].reads}
                                                      \ op'[d].marks}
    BY DEF CompactionPlans
  <2>2. d # c /\ d \in Writer
    BY <1>2, <2>1 DEF Writer
  <2> QED
    BY <1>1, <2>1, <2>2 DEF CompactionPlans
<1> QED
  BY <1>4, <1>5, <1>6

\* A compactor that returns while the manifest stays as it is invalidates nobody.
LEMMA CompactorReturns ==
  ASSUME TypeOK, ValidatedAtBase, NEW c \in Compactor,
         pc' = [pc EXCEPT ![c] = "idle"], op' = [op EXCEPT ![c] = NoOp],
         files' = files, marks' = marks, rev' = rev
  PROVE  ValidatedAtBase'
<1>1. \A w \in Writer : w # c => pc'[w] = pc[w] /\ op'[w] = op[w]
  BY DEF TypeOK
<1>2. pc'[c] \notin Active /\ op'[c].base <= rev
  BY SMTT(30) DEF TypeOK, Writer, Active, NoOp
<1>3. \A w \in Writer :
        /\ DMLConflict(op[w])' = DMLConflict(op'[w])
        /\ CompactionConflict(op[w])' = CompactionConflict(op'[w])
  BY DEF DMLConflict, CompactionConflict, MarksOf
<1>4. SUFFICES ASSUME NEW w \in Writer
               PROVE  /\ op'[w].base <= rev
                      /\ pc'[w] \in Active /\ op'[w].base = rev =>
                           IF w \in Stmt THEN ~ DMLConflict(op'[w])
                                         ELSE ~ CompactionConflict(op'[w])
  BY <1>3 DEF ValidatedAtBase
<1>5. CASE w = c
  BY <1>2, <1>5
<1>6. CASE w # c
  BY <1>1, <1>6 DEF ValidatedAtBase
<1> QED
  BY <1>5, <1>6

\* A compaction lands: its output holds exactly the live rows of its inputs.
LEMMA CompactionSwap ==
  ASSUME IInv, NEW c \in Compactor, compactionUpdate(c)
  PROVE  /\ op[c].reads \subseteq files
         /\ op[c].adds = {p[2] : p \in LivePlaces(op[c].reads)}
         /\ LivePlaces(files)' = LivePlaces(files \ op[c].reads)
                                   \cup (op[c].out \X op[c].adds)
         /\ op[c].adds # {} => \E f \in File : op[c].out = {f}
<1>1. c \in Writer /\ c \notin Stmt /\ c \in InFlight
  BY ActorAssumption DEF compactionUpdate, Swap, Writer, InFlight
<1>2. ~ CompactionConflict(op[c])
  BY <1>1 DEF IInv, compactionUpdate, Swap, ValidatedAtBase, Active
<1>3. op[c].reads \subseteq files /\ MarksOf(op[c].reads) = op[c].marks
  BY <1>2 DEF CompactionConflict
<1>4. op[c].adds = {p[2] : p \in {q \in stored : q[1] \in op[c].reads} \ op[c].marks}
  BY DEF IInv, compactionUpdate, Swap, CompactionPlans, Active
<1>5. {q \in stored : q[1] \in op[c].reads} \ op[c].marks = LivePlaces(op[c].reads)
  BY <1>3 DEF LivePlaces, MarksOf
<1>6. {p \in stored : p[1] \in op[c].out} = op[c].out \X op[c].adds
  BY <1>1 DEF IInv, compactionUpdate, Swap, OutputsHoldPlan
<1>7. op[c].out \cap files = {}
  BY <1>1 DEF IInv, OutputsPrivate
<1>8. LivePlaces(files)' = LivePlaces(files \ op[c].reads)
                             \cup (op[c].out \X op[c].adds)
  BY <1>6, <1>7 DEF IInv, compactionUpdate, Swap, storeVars, LivePlaces,
                    MarkersApply, MarksOf
<1>9. op[c].adds # {} => \E f \in File : op[c].out = {f}
  BY <1>1 DEF IInv, compactionUpdate, Swap, OutputsHoldPlan
<1> QED
  BY <1>3, <1>4, <1>5, <1>8, <1>9

\* A compaction's swap preserves the invariant, whether or not its reply is lost.
LEMMA CompactionUpdateIInv ==
  ASSUME IInv, NEW c \in Compactor, compactionUpdate(c)
  PROVE  IInv'
<1>1. PICK label \in {"swapped", "idle"} :
        /\ pc' = [pc EXCEPT ![c] = label]
        /\ op' = [op EXCEPT ![c] = IF label = "idle" THEN NoOp ELSE op[c]]
  BY DEF compactionUpdate, Swap, Goto, Returned, Reported
<1>2. NoOp \in Op /\ NoOp.reads = {} /\ NoOp.out = {} /\ NoOp.base = 0
  BY DEF NoOp, Op
<1>3. c \in Writer /\ c \in InFlight /\ c \notin Stmt /\ op[c] \in Op
  BY ActorAssumption DEF IInv, compactionUpdate, Swap, Writer, InFlight, TypeOK
<1>4. /\ op[c].reads \subseteq files
      /\ op[c].adds = {p[2] : p \in LivePlaces(op[c].reads)}
      /\ LivePlaces(files)' = LivePlaces(files \ op[c].reads)
                                \cup (op[c].out \X op[c].adds)
      /\ op[c].adds # {} => \E f \in File : op[c].out = {f}
  BY CompactionSwap
<1>5. /\ LivePlaces(op[c].reads) \subseteq LivePlaces(files)
      /\ LivePlaces(files \ op[c].reads) \subseteq LivePlaces(files)
      /\ LivePlaces(files \ op[c].reads) \cap LivePlaces(op[c].reads) = {}
  BY <1>4 DEF LivePlaces
<1>8. TypeOK'
  BY <1>1, <1>2, <1>3, SMTT(30) DEF IInv, compactionUpdate, Swap, storeVars, TypeOK, PC,
                          Returned, Reported, Op
<1>9. PathsMinted'
  BY <1>1, <1>2, <1>3 DEF IInv, compactionUpdate, Swap, storeVars, PathsMinted,
                          TypeOK
<1>10. SingleCopy'
  <2>1. SUFFICES ASSUME NEW p \in LivePlaces(files)', NEW q \in LivePlaces(files)',
                        p[2][1] = q[2][1]
                 PROVE  p = q
    BY DEF SingleCopy
  <2>2. CASE p \in LivePlaces(files \ op[c].reads) /\ q \in LivePlaces(files \ op[c].reads)
    BY <1>5, <2>1, <2>2 DEF IInv, SingleCopy
  <2>3. CASE p \in op[c].out \X op[c].adds /\ q \in op[c].out \X op[c].adds
    BY <1>4, <1>5, <2>1, <2>3, SMTT(30) DEF IInv, SingleCopy
  <2>4. CASE p \in LivePlaces(files \ op[c].reads) /\ q \in op[c].out \X op[c].adds
    BY <1>4, <1>5, <2>1, <2>4 DEF IInv, compactionUpdate, Swap,
       SingleCopy
  <2>5. CASE q \in LivePlaces(files \ op[c].reads) /\ p \in op[c].out \X op[c].adds
    BY <1>4, <1>5, <2>1, <2>5 DEF IInv, compactionUpdate, Swap,
       storeVars, SingleCopy
  <2> QED
    BY <1>4, <2>2, <2>3, <2>4, <2>5
<1>11. RootsAccounted'
  BY <1>4, <1>5 DEF IInv, compactionUpdate, Swap, RootsAccounted
<1>12. NoDanglingFile'
  BY <1>3 DEF IInv, compactionUpdate, Swap, storeVars, NoDanglingFile,
              OutputsPrivate
<1>13. MarkersApply'
  BY DEF IInv, compactionUpdate, Swap, storeVars, MarkersApply, MarksOf
<1>14. RemovedStaysRemoved'
  BY <1>1, <1>3 DEF IInv, compactionUpdate, Swap, RemovedStaysRemoved,
                    OutputsPrivate, TypeOK, Writer
<1>15. OutputsPrivate'
  BY <1>1, <1>2, <1>3, SMTT(30)
     DEF IInv, compactionUpdate, Swap, storeVars, OutputsPrivate,
                          InFlight, TypeOK
<1>16. OutputsHoldPlan' /\ StatementPlans' /\ CompactionPlans'
  BY <1>1, CompactorStops DEF IInv, compactionUpdate, Swap, storeVars
<1>19. ValidatedAtBase'
  <2>1. \A w \in Writer : op[w].base \in Nat /\ op'[w].base \in Nat /\ op'[w].base <= rev
    BY <1>1, <1>2, SMTT(30) DEF IInv, ValidatedAtBase, Active, TypeOK, Op
  <2> QED
    BY <2>1, SMTT(30) DEF IInv, compactionUpdate, Swap, ValidatedAtBase, Active, TypeOK
<1> QED
  BY <1>8, <1>9, <1>10, <1>11, <1>12, <1>13, <1>14, <1>15, <1>16, <1>19 DEF IInv

\* Bytes leave the store only for a refused output or a removed input.
LEMMA DiscardIInv ==
  ASSUME IInv, NEW c \in Compactor, discardUnpublishedOutput(c)
  PROVE  IInv'
<1>1. /\ pc' = [pc EXCEPT ![c] = "idle"]
      /\ op' = [op EXCEPT ![c] = NoOp]
  BY DEF discardUnpublishedOutput, Goto, Returned
<1>2. NoOp \in Op /\ NoOp.reads = {} /\ NoOp.out = {} /\ NoOp.base = 0
  BY DEF NoOp, Op
<1>3. c \in Writer /\ c \in InFlight /\ c \notin Stmt
  BY ActorAssumption DEF discardUnpublishedOutput, Writer, InFlight
<1>4. objects' \subseteq objects /\ objects \ op[c].out \subseteq objects'
  BY DEF discardUnpublishedOutput
<1>5. TypeOK'
  BY <1>1, <1>2, <1>4 DEF IInv, discardUnpublishedOutput, manifestVars,
                                      TypeOK, PC, Returned
<1>6. PathsMinted'
  BY <1>1, <1>2, <1>4 DEF IInv, discardUnpublishedOutput, manifestVars, PathsMinted,
                          TypeOK
<1>7. SingleCopy' /\ MarkersApply' /\ RootsAccounted'
  BY DEF IInv, discardUnpublishedOutput, manifestVars, SingleCopy, MarkersApply,
         RootsAccounted, LivePlaces
<1>8. NoDanglingFile'
  BY <1>3, <1>4 DEF IInv, discardUnpublishedOutput, manifestVars, NoDanglingFile,
                    OutputsPrivate
<1>9. RemovedStaysRemoved'
  BY <1>1 DEF IInv, discardUnpublishedOutput, manifestVars, RemovedStaysRemoved,
              TypeOK, Writer
<1>10. OutputsPrivate'
  <2>1. /\ pc'[c] \notin {"scan", "get", "update", "conflict"} /\ op'[c].reads = {}
        /\ \A w \in Writer \ {c} : pc'[w] = pc[w] /\ op'[w] = op[w]
    BY <1>1, <1>2, <1>3 DEF IInv, TypeOK
  <2>2. /\ files' = files /\ objects \ op[c].out \subseteq objects'
        /\ \A cc \in Compactor : pending'[cc] \subseteq pending[cc]
    BY <1>4 DEF discardUnpublishedOutput, manifestVars
  <2>3. \A w \in InFlight \ {c} : /\ op[w].out \cap files' = {}
                                  /\ pc[w] # "conflict" => op[w].out \subseteq objects'
    BY <1>3, <2>2 DEF IInv, OutputsPrivate
  <2> QED
    BY <1>3, <2>1, <2>2, <2>3, PrivateStays DEF IInv
<1>11. OutputsHoldPlan' /\ StatementPlans' /\ CompactionPlans'
  BY <1>1, CompactorStops DEF IInv, discardUnpublishedOutput,
     manifestVars
<1>12. ValidatedAtBase'
  BY <1>1, CompactorReturns DEF IInv, discardUnpublishedOutput,
     manifestVars
<1> QED
  BY <1>5, <1>6, <1>7, <1>8, <1>9, <1>10, <1>11, <1>12 DEF IInv

\* What is queued has left the manifest for good.
LEMMA DeleteFromStoreIInv ==
  ASSUME IInv, NEW c \in Compactor, deleteFromStore(c)
  PROVE  IInv'
<1>1. /\ pc' = [pc EXCEPT ![c] = "idle"]
      /\ op' = [op EXCEPT ![c] = NoOp]
  BY DEF deleteFromStore, Goto, Returned
<1>2. NoOp \in Op /\ NoOp.reads = {} /\ NoOp.out = {} /\ NoOp.base = 0
  BY DEF NoOp, Op
<1>3. c \in Writer /\ c \notin Stmt /\ op[c] \in Op
  BY ActorAssumption DEF IInv, Writer, TypeOK
<1>4. TypeOK'
  BY <1>1, <1>2, <1>3 DEF IInv, deleteFromStore, manifestVars, storeVars, TypeOK,
                          PC, Returned, Op
<1>5. PathsMinted'
  BY <1>1, <1>2, <1>3 DEF IInv, deleteFromStore, manifestVars, storeVars,
                          PathsMinted, TypeOK
<1>6. SingleCopy' /\ MarkersApply' /\ RootsAccounted' /\ NoDanglingFile'
  BY DEF IInv, deleteFromStore, manifestVars, storeVars, SingleCopy, MarkersApply,
         RootsAccounted, LivePlaces, NoDanglingFile
<1>7. RemovedStaysRemoved'
  BY <1>1, <1>3 DEF IInv, deleteFromStore, manifestVars, RemovedStaysRemoved,
                    TypeOK, Writer
<1>8. OutputsPrivate'
  <2>1. /\ pc'[c] = "idle" /\ op'[c].reads = {}
        /\ \A w \in Writer \ {c} : pc'[w] = pc[w] /\ op'[w] = op[w]
    BY <1>1, <1>2, <1>3 DEF IInv, TypeOK
  <2>2. /\ files' = files /\ objects' = objects /\ c \notin InFlight
        /\ \A d \in Compactor : pending'[d] \subseteq pending[d] \cup op[c].reads
    BY DEF IInv, TypeOK, deleteFromStore, manifestVars, storeVars, InFlight
  <2>3. InFlight' = InFlight /\ InFlight \subseteq Writer \ {c}
    BY <2>1, <2>2 DEF InFlight
  <2> QED
    BY <1>3, <2>1, <2>2, <2>3, SMTT(30) DEF IInv, OutputsPrivate
<1>9. OutputsHoldPlan' /\ StatementPlans' /\ CompactionPlans'
  BY <1>1, CompactorStops DEF IInv, deleteFromStore, manifestVars,
     storeVars
<1>10. ValidatedAtBase'
  BY <1>1, CompactorReturns DEF IInv, deleteFromStore, manifestVars
<1> QED
  BY <1>4, <1>5, <1>6, <1>7, <1>8, <1>9, <1>10 DEF IInv

\* A due path is not in the manifest, so that deleting it dangles nothing.
LEMMA FlushIInv ==
  ASSUME IInv, NEW c \in Compactor, NEW f \in File, FlushDeferredDeletes(c, f)
  PROVE  IInv'
<1>1. /\ objects' = objects \ {f}
      /\ f \notin files
      /\ \A w \in InFlight : f \notin op[w].out
  BY DEF IInv, FlushDeferredDeletes, RemovedStaysRemoved, OutputsPrivate
<1>2. TypeOK' /\ PathsMinted'
  BY <1>1 DEF IInv, FlushDeferredDeletes, manifestVars, TypeOK, PathsMinted
<1>3. SingleCopy' /\ MarkersApply' /\ RootsAccounted' /\ NoDanglingFile'
  BY <1>1 DEF IInv, FlushDeferredDeletes, manifestVars, SingleCopy, MarkersApply,
              RootsAccounted, LivePlaces, NoDanglingFile
<1>4. RemovedStaysRemoved'
  BY DEF IInv, FlushDeferredDeletes, manifestVars, RemovedStaysRemoved, TypeOK
<1>5. OutputsPrivate'
  <2>1. /\ files' = files /\ op' = op /\ pc' = pc
        /\ \A d \in Compactor : pending'[d] \subseteq pending[d]
    BY DEF IInv, TypeOK, FlushDeferredDeletes, manifestVars
  <2>2. InFlight' = InFlight /\ OutputsPrivate
    BY <2>1 DEF IInv, InFlight
  <2> QED
    BY <1>1, <2>1, <2>2, SMTT(30) DEF OutputsPrivate
<1>6. OutputsHoldPlan' /\ StatementPlans' /\ CompactionPlans'
  <2>1. OutputsHoldPlan'
    BY DEF IInv, FlushDeferredDeletes, OutputsHoldPlan
  <2>2. StatementPlans'
    BY DEF IInv, FlushDeferredDeletes, manifestVars, StatementPlans
  <2>3. CompactionPlans'
    BY DEF IInv, FlushDeferredDeletes, CompactionPlans
  <2> QED
    BY <2>1, <2>2, <2>3
<1>7. ValidatedAtBase'
  BY DEF IInv, FlushDeferredDeletes, manifestVars, ValidatedAtBase, DMLConflict,
         CompactionConflict, MarksOf
<1> QED
  BY <1>2, <1>3, <1>4, <1>5, <1>6, <1>7 DEF IInv

\* A crash forgets, and changes neither the manifest nor the store.
LEMMA CrashIInv ==
  ASSUME IInv, NEW c \in Compactor, Crash(c)
  PROVE  IInv'
<1>1. /\ pc' = [pc EXCEPT ![c] = "idle"]
      /\ op' = [op EXCEPT ![c] = NoOp]
  BY DEF Crash, Goto, Returned
<1>2. NoOp \in Op /\ NoOp.reads = {} /\ NoOp.out = {} /\ NoOp.base = 0
  BY DEF NoOp, Op
<1>3. c \in Writer /\ c \notin Stmt
  BY ActorAssumption DEF Writer
<1>4. TypeOK'
  BY <1>1, <1>2, <1>3 DEF IInv, Crash, manifestVars, storeVars, TypeOK, PC, Returned
<1>5. PathsMinted'
  BY <1>1, <1>2, <1>3 DEF IInv, Crash, manifestVars, storeVars, PathsMinted, TypeOK
<1>6. SingleCopy' /\ MarkersApply' /\ RootsAccounted' /\ NoDanglingFile'
  BY DEF IInv, Crash, manifestVars, storeVars, SingleCopy, MarkersApply,
         RootsAccounted, LivePlaces, NoDanglingFile
<1>7. RemovedStaysRemoved'
  BY <1>1, <1>3 DEF IInv, Crash, manifestVars, RemovedStaysRemoved, TypeOK, Writer
<1>8. OutputsPrivate'
  <2>1. /\ pc'[c] \notin {"scan", "get", "update", "conflict"} /\ op'[c].reads = {}
        /\ \A w \in Writer \ {c} : pc'[w] = pc[w] /\ op'[w] = op[w]
    BY <1>1, <1>2, <1>3 DEF IInv, TypeOK
  <2>2. /\ files' = files /\ objects' = objects
        /\ \A cc \in Compactor : pending'[cc] \subseteq pending[cc]
    BY <1>3 DEF IInv, TypeOK, Crash, manifestVars, storeVars
  <2>3. \A w \in InFlight \ {c} : /\ op[w].out \cap files' = {}
                                  /\ pc[w] # "conflict" => op[w].out \subseteq objects'
    BY <1>3, <2>2 DEF IInv, OutputsPrivate
  <2> QED
    BY <1>3, <2>1, <2>2, <2>3, PrivateStays DEF IInv
<1>9. OutputsHoldPlan' /\ StatementPlans' /\ CompactionPlans'
  BY <1>1, CompactorStops DEF IInv, Crash, manifestVars, storeVars
<1>10. ValidatedAtBase'
  BY <1>1, CompactorReturns DEF IInv, Crash, manifestVars
<1> QED
  BY <1>4, <1>5, <1>6, <1>7, <1>8, <1>9, <1>10 DEF IInv

\* A step that changes no variable.
LEMMA StutterIInv ==
  ASSUME IInv, UNCHANGED vars
  PROVE  IInv'
<1>1. TypeOK' /\ PathsMinted' /\ RemovedStaysRemoved'
  BY DEF IInv, vars, TypeOK, PathsMinted, RemovedStaysRemoved
<1>2. SingleCopy' /\ NoDanglingFile' /\ MarkersApply' /\ RootsAccounted'
  BY DEF IInv, vars, SingleCopy, NoDanglingFile, MarkersApply, RootsAccounted,
         LivePlaces
<1>3. OutputsPrivate' /\ OutputsHoldPlan'
  BY DEF IInv, vars, OutputsPrivate, OutputsHoldPlan, InFlight
<1>4. StatementPlans'
  BY DEF IInv, vars, StatementPlans
<1>5. CompactionPlans'
  BY DEF IInv, vars, CompactionPlans
<1>6. ValidatedAtBase'
  BY DEF IInv, vars, ValidatedAtBase, DMLConflict, CompactionConflict, MarksOf
<1> QED
  BY <1>1, <1>2, <1>3, <1>4, <1>5, <1>6 DEF IInv

\* Every step of a running statement.
LEMMA StatementStepIInv ==
  ASSUME IInv, NEW s \in Stmt, StatementStep(s)
  PROVE  IInv'
<1>1. s \in Writer
  BY DEF Writer
<1>2. CASE scanAndFlush(s)
  <2>1. PICK label \in {"get", "noop"} :
          Upload(s, label) /\ (label = "noop" => op[s].adds = {})
    BY <1>2 DEF scanAndFlush
  <2> QED
    BY <1>1, <1>2, <2>1, UploadIInv DEF scanAndFlush
<1>3. CASE Fails(s, "refused")
  BY <1>1, <1>3, FailsIInv
<1>4. CASE commitGet(s)
  BY <1>4, CommitGetIInv
<1>5. CASE commitUpdate(s)
  BY <1>5, CommitUpdateIInv
<1>6. CASE Mismatch(s, "refused")
  BY <1>1, <1>6, MismatchIInv
<1>7. CASE UpdateError(s, "unknown")
  BY <1>1, <1>7, UpdateErrorIInv
<1> QED
  BY <1>2, <1>3, <1>4, <1>5, <1>6, <1>7 DEF StatementStep

\* Every step of a running compactor.
LEMMA CompactorStepIInv ==
  ASSUME IInv, NEW c \in Compactor, CompactorStep(c)
  PROVE  IInv'
<1>1. c \in Writer
  BY DEF Writer
<1>2. CASE mergeAndWriteFiles(c)
  <2>1. Upload(c, "get") /\ "get" # "noop"
    BY <1>2 DEF mergeAndWriteFiles
  <2> QED
    BY <1>1, <1>2, <2>1, UploadIInv DEF mergeAndWriteFiles
<1>3. CASE Fails(c, "idle")
  BY <1>1, <1>3, FailsIInv
<1>4. CASE compactionGet(c)
  BY <1>4, CompactionGetIInv
<1>5. CASE compactionUpdate(c)
  BY <1>5, CompactionUpdateIInv
<1>6. CASE Mismatch(c, "idle")
  BY <1>1, <1>6, MismatchIInv
<1>7. CASE UpdateError(c, "idle")
  BY <1>1, <1>7, UpdateErrorIInv
<1>8. CASE discardUnpublishedOutput(c)
  BY <1>8, DiscardIInv
<1>9. CASE deleteFromStore(c)
  BY <1>9, DeleteFromStoreIInv
<1> QED
  BY <1>2, <1>3, <1>4, <1>5, <1>6, <1>7, <1>8, <1>9 DEF CompactorStep

\* Every step of the system.
LEMMA NextIInv == IInv /\ [Next]_vars => IInv'
<1> SUFFICES ASSUME IInv, [Next]_vars PROVE IInv'
  OBVIOUS
<1>1. ASSUME NEW s \in Stmt, StatementBegins(s) \/ StatementStep(s) PROVE IInv'
  BY <1>1, StatementBeginsIInv, StatementStepIInv
<1>2. ASSUME NEW c \in Compactor, GroupBegins(c) \/ CompactorStep(c) \/ Crash(c) PROVE IInv'
  BY <1>2, GroupBeginsIInv, CompactorStepIInv, CrashIInv
<1>3. ASSUME NEW c \in Compactor, NEW f \in File, FlushDeferredDeletes(c, f) PROVE IInv'
  BY <1>3, FlushIInv
<1>4. CASE UNCHANGED vars
  BY <1>4, StutterIInv
<1> QED
  BY <1>1, <1>2, <1>3, <1>4 DEF Next

\* The inductive invariant holds in every reachable state.
THEOREM Invariance == Spec => []IInv
BY InitIInv, NextIInv, PTL DEF Spec

\* The manifest, the calls in progress and the queues keep their types.
THEOREM TypeCorrect == Spec => []TypeOK
<1>1. IInv => TypeOK
  BY DEF IInv
<1> QED
  BY <1>1, Invariance, PTL

\* No row of the table is live at two places: neither two statements, nor a
\* statement and a compaction, nor two compactions, duplicate a row.
THEOREM NoDuplicateRows == Spec => []SingleCopy
<1>1. IInv => SingleCopy
  BY DEF IInv
<1> QED
  BY <1>1, Invariance, PTL

\* The manifest never names an object that has left the store, whatever
\* discardUnpublishedOutput and FlushDeferredDeletes delete.
THEOREM FilesExist == Spec => []NoDanglingFile
<1>1. IInv => NoDanglingFile
  BY DEF IInv
<1> QED
  BY <1>1, Invariance, PTL

\* A delete marker always names a row of a file of the manifest: CommitCompaction
\* takes the markers of a file out with the file.
THEOREM MarkersNameLiveFiles == Spec => []MarkersApply
<1>1. IInv => MarkersApply
  BY DEF IInv
<1> QED
  BY <1>1, Invariance, PTL

\* A client is told what happened: success means its change is in the manifest,
\* a refusal or "no rows" means it is not and never will be.
THEOREM Reports == Spec => []ReportsAreTrue
<1>1. IInv => ReportsAreTrue
  BY DEF IInv, StatementPlans, ReportsAreTrue
<1> QED
  BY <1>1, Invariance, PTL

\* commitFilesAndMarkers and CommitCompaction refuse a commit only after another
\* writer has changed the manifest.
THEOREM NoFalseConflicts == Spec => []ConflictsAreReal
<1>1. IInv => ConflictsAreReal
  BY DEF IInv, ValidatedAtBase, ConflictsAreReal, Active
<1> QED
  BY <1>1, Invariance, PTL

-----------------------------------------------------------------------------
\* The rows of the initial files are the rows the abstract table starts with.
LEMMA InitRefines == Init => Table!Init
<1> SUFFICES ASSUME Init PROVE Visible = SeedRow /\ landed = {}
  BY DEF Table!Init, SeedRow
<1>1. Visible \subseteq SeedRow
  BY DEF Init, Visible, LivePlaces
<1>2. ASSUME NEW r \in SeedRow PROVE r \in Visible
  <2>1. PICK f \in DOMAIN Seed : r[1] \in Seed[f]
    BY SeedAssumption DEF SeedRow
  <2>2. <<f, r>> \in LivePlaces(files)
    BY <2>1, SeedAssumption DEF Init, LivePlaces
  <2>3. <<f, r>>[2] = r
    OBVIOUS
  <2> QED
    BY <2>2, <2>3 DEF Visible
<1> QED
  BY <1>1, <1>2 DEF Init

\* The rows of an object are the rows that were planned for it.
LEMMA OutputRows ==
  ASSUME NEW out, NEW adds, adds # {} => \E f \in File : out = {f}
  PROVE  {p[2] : p \in out \X adds} = adds
<1>1. ASSUME NEW r \in adds PROVE r \in {p[2] : p \in out \X adds}
  <2>1. PICK f \in out : TRUE
    OBVIOUS
  <2>2. <<f, r>> \in out \X adds /\ <<f, r>>[2] = r
    OBVIOUS
  <2> QED
    BY <2>2
<1> QED
  BY <1>1

\* A statement's update is the whole statement: what it marked is gone, and what
\* it added is there.
LEMMA CommitRefines ==
  ASSUME IInv, NEW s \in Stmt, commitUpdate(s)
  PROVE  Table!Next
<1> DEFINE marked == {p[2] : p \in op[s].marks}
           upd == {r \in marked : Successor(r) \in op[s].adds}
           del == marked \ upd
           ins == op[s].adds \cap {<<s, 0>>}
<1> USE DEF IInv, commitUpdate, Land
<1>1. s \in Writer /\ s \in InFlight
  BY DEF Writer, InFlight
<1>2. op[s].marks \subseteq LivePlaces(files)
  BY CommitUpdateLive
<1>3. LivePlaces(files)' =
        (LivePlaces(files) \ op[s].marks) \cup (op[s].out \X op[s].adds)
  BY CommitUpdateLive
<1>4. op[s].adds = {Successor(r) : r \in upd} \cup ins
  <2>1. \A x \in op[s].adds : x = <<s, 0>> \/ \E p \in op[s].marks : x = Successor(p[2])
    BY DEF StatementPlans, Active
  <2> HIDE DEF IInv, commitUpdate, Land
  <2> QED
    BY <2>1, SMTT(30)
<1>5. {p[2] : p \in LivePlaces(files) \ op[s].marks} = Visible \ marked
  BY <1>2 DEF Visible, SingleCopy
<1>6. {p[2] : p \in op[s].out \X op[s].adds} = op[s].adds
  <2>1. op[s].adds # {} => \E f \in File : op[s].out = {f}
    BY <1>1 DEF OutputsHoldPlan
  <2> QED
    BY <2>1, OutputRows
<1>7. Visible' = (Visible \ (upd \cup del)) \cup {Successor(r) : r \in upd} \cup ins
  <2>1. Visible' = {p[2] : p \in LivePlaces(files) \ op[s].marks}
                     \cup {p[2] : p \in op[s].out \X op[s].adds}
    BY <1>3 DEF Visible
  <2>2. upd \cup del = marked
    OBVIOUS
  <2> HIDE DEF upd, del, ins, marked
  <2> QED
    BY <1>4, <1>5, <1>6, <2>1, <2>2
<1>8. s \notin landed
  BY DEF StatementPlans
<1>9. upd \in SUBSET Visible /\ del \in SUBSET Visible
  BY <1>2 DEF Visible
<1>10. ins \in SUBSET {<<s, 0>>} /\ upd \cap del = {}
  OBVIOUS
<1>11. {Successor(r) : r \in upd} = {Table!Successor(r) : r \in upd}
  BY DEF Successor, Table!Successor
<1> HIDE DEF upd, del, ins, marked
<1>12. Table!Execute(s, upd, del, ins)
  BY <1>7, <1>8, <1>10, <1>11 DEF Table!Execute
<1> QED
  BY <1>9, <1>10, <1>12 DEF Table!Next

\* A compaction's swap shows a query the rows it showed before.
LEMMA SwapRefines ==
  ASSUME IInv, NEW c \in Compactor, compactionUpdate(c)
  PROVE  UNCHANGED <<Visible, landed>>
<1>1. /\ op[c].reads \subseteq files
      /\ op[c].adds = {p[2] : p \in LivePlaces(op[c].reads)}
      /\ LivePlaces(files)' = LivePlaces(files \ op[c].reads)
                                \cup (op[c].out \X op[c].adds)
      /\ op[c].adds # {} => \E f \in File : op[c].out = {f}
  BY CompactionSwap
<1>2. LivePlaces(files) = LivePlaces(files \ op[c].reads) \cup LivePlaces(op[c].reads)
  BY <1>1 DEF LivePlaces
<1>3. {p[2] : p \in op[c].out \X op[c].adds} = op[c].adds
  BY <1>1, OutputRows
<1>4. Visible' = {p[2] : p \in LivePlaces(files \ op[c].reads)}
                   \cup {p[2] : p \in op[c].out \X op[c].adds}
  BY <1>1 DEF Visible
<1>5. Visible = {p[2] : p \in LivePlaces(files \ op[c].reads)}
                  \cup {p[2] : p \in LivePlaces(op[c].reads)}
  BY <1>2 DEF Visible
<1> QED
  BY <1>1, <1>3, <1>4, <1>5 DEF compactionUpdate, Swap

\* An upload is invisible until the manifest names its path.
LEMMA UploadRefines ==
  ASSUME IInv, NEW w \in Writer, NEW label, Upload(w, label), UNCHANGED manifestVars
  PROVE  UNCHANGED <<Visible, landed>>
<1>1. {p \in stored' : p[1] \in files} = {p \in stored : p[1] \in files}
  <2>1. CASE op[w].adds = {}
    BY <2>1 DEF Upload, storeVars
  <2>2. CASE op[w].adds # {}
    <3>1. FreshPath \notin files
      BY <2>2 DEF Upload, FreshPath, IInv, PathsMinted
    <3> QED
      BY <2>2, <3>1 DEF Upload
  <2> QED
    BY <2>1, <2>2
<1> QED
  BY <1>1 DEF Visible, LivePlaces, manifestVars

\* Every step of every process is a step of the abstract table, or none.
LEMMA NextRefines ==
  ASSUME IInv, [Next]_vars
  PROVE  [Table!Next]_<<Visible, landed>>
<1> DEFINE Same == UNCHANGED <<Visible, landed>>
<1>1. UNCHANGED <<files, marks, stored, landed>> => Same
  BY DEF Visible, LivePlaces
<1>2. ASSUME NEW s \in Stmt, StatementBegins(s) PROVE Same
  BY <1>1, <1>2 DEF StatementBegins, executeInsert, deleteOnce, updateOnce, mergeOnce,
                    BeginStatement, Begin, manifestVars, storeVars
<1>3. ASSUME NEW s \in Stmt, StatementStep(s), ~ commitUpdate(s) PROVE Same
  <2>1. s \in Writer
    BY DEF Writer
  <2>2. CASE scanAndFlush(s)
    BY <2>1, <2>2, UploadRefines DEF scanAndFlush
  <2> QED
    BY <1>1, <1>3, <2>2 DEF StatementStep, Fails, commitGet, Mismatch, UpdateError,
                            manifestVars, storeVars
<1>4. ASSUME NEW s \in Stmt, commitUpdate(s) PROVE Table!Next
  BY <1>4, CommitRefines
<1>5. ASSUME NEW c \in Compactor, GroupBegins(c) \/ Crash(c) PROVE Same
  BY <1>1, <1>5 DEF GroupBegins, CompactTable, RewriteTable, ForceCompactFile,
                    BeginGroup, Begin, Crash, manifestVars, storeVars
<1>6. ASSUME NEW c \in Compactor, CompactorStep(c) PROVE Same
  <2>1. c \in Writer
    BY DEF Writer
  <2>2. CASE mergeAndWriteFiles(c)
    BY <2>1, <2>2, UploadRefines DEF mergeAndWriteFiles
  <2>3. CASE compactionUpdate(c)
    BY <2>3, SwapRefines
  <2> QED
    BY <1>1, <1>6, <2>2, <2>3
       DEF CompactorStep, Fails, compactionGet, Mismatch, UpdateError,
                                  discardUnpublishedOutput, deleteFromStore,
                                  manifestVars, storeVars
<1>7. ASSUME NEW c \in Compactor, NEW f \in File, FlushDeferredDeletes(c, f) PROVE Same
  BY <1>1, <1>7 DEF FlushDeferredDeletes, manifestVars
<1>8. CASE UNCHANGED vars
  BY <1>1, <1>8 DEF vars
<1> QED
  BY <1>2, <1>3, <1>4, <1>5, <1>6, <1>7, <1>8 DEF Next

\* The manifest protocol implements the table its clients see.
THEOREM Refinement == Spec => ImplementsTable
<1>1. IInv /\ [Next]_vars => [Table!Next]_Table!vars
  BY NextRefines DEF Table!vars
<1> QED
  BY <1>1, InitRefines, Invariance, PTL DEF Spec, ImplementsTable, Table!Spec

-----------------------------------------------------------------------------
\* A statement's new rows have roots of their own: those of the rows it replaces
\* or its own name.
LEMMA ExecuteRows ==
  ASSUME Table!IInv, NEW s \in Stmt, NEW upd \in SUBSET Visible, NEW del \in SUBSET Visible,
         NEW ins \in SUBSET {<<s, 0>>}, Table!Execute(s, upd, del, ins),
         NEW q \in Visible'
  PROVE  /\ q \in Table!Row
         /\ \/ q \in Visible \ (upd \cup del)
            \/ \E r \in upd : q = Table!Successor(r) /\ q[1] = r[1] /\ q[2] = r[2] + 1
            \/ q = <<s, 0>> /\ q[1] = s /\ s \notin Loaded \cup landed
<1>1. \A r \in Visible : r = <<r[1], r[2]>> /\ r[1] \in Table!Root /\ r[2] \in Nat
  BY SMTT(30) DEF Table!IInv, Table!TypeOK, Table!Row
<1>2. <<s, 0>> \in Table!Row
  BY DEF Table!Row, Table!Root
<1>3. \A r \in upd : /\ Table!Successor(r) \in Table!Row
                    /\ Table!Successor(r)[1] = r[1] /\ Table!Successor(r)[2] = r[2] + 1
  BY <1>1, SMTT(30) DEF Table!Successor, Table!Row
<1>4. q \in (Visible \ (upd \cup del)) \cup {Table!Successor(r) : r \in upd} \cup ins
  BY DEF Table!Execute
<1>5. s \notin Loaded \cup landed
  BY ActorAssumption DEF Table!Execute
<1> QED
  BY <1>2, <1>3, <1>4, <1>5, SMTT(30) DEF Table!IInv, Table!TypeOK

\* The loaded rows are version 0, one per root.
LEMMA RowsInit == Table!Init => Table!IInv
BY SMTT(30)
   DEF Table!Init, Table!IInv, Table!TypeOK, Table!OneVersion, Table!RootsAccounted,
       Table!Row, Table!Root

\* A statement takes a row to its next version or adds one of its own.
LEMMA RowsStep == Table!IInv /\ [Table!Next]_Table!vars => Table!IInv'
<1> SUFFICES ASSUME Table!IInv, [Table!Next]_Table!vars PROVE Table!IInv'
  OBVIOUS
<1>1. CASE UNCHANGED Table!vars
  BY <1>1
     DEF Table!vars, Table!IInv, Table!TypeOK, Table!OneVersion, Table!RootsAccounted
<1>2. CASE Table!Next
  <2>1. PICK s \in Stmt, upd \in SUBSET Visible, del \in SUBSET Visible :
          \E ins \in SUBSET {<<s, 0>>} : Table!Execute(s, upd, del, ins)
    BY <1>2 DEF Table!Next
  <2>2. Table!TypeOK'
    BY <2>1, ExecuteRows DEF Table!IInv, Table!TypeOK, Table!Execute
  <2>3. Table!OneVersion'
    <3>1. SUFFICES ASSUME NEW p \in Visible', NEW q \in Visible', p[1] = q[1] PROVE p = q
      BY DEF Table!OneVersion
    <3>2. \/ p \in Visible \ (upd \cup del)
          \/ \E r \in upd : p = Table!Successor(r) /\ p[1] = r[1] /\ p[2] = r[2] + 1
          \/ p = <<s, 0>> /\ p[1] = s /\ s \notin Loaded \cup landed
      BY <2>1, ExecuteRows, SMTT(30)
    <3>3. \/ q \in Visible \ (upd \cup del)
          \/ \E r \in upd : q = Table!Successor(r) /\ q[1] = r[1] /\ q[2] = r[2] + 1
          \/ q = <<s, 0>> /\ q[1] = s /\ s \notin Loaded \cup landed
      BY <2>1, ExecuteRows, SMTT(30)
    <3> QED
      BY <3>1, <3>2, <3>3, SMTT(30)
         DEF Table!IInv, Table!OneVersion, Table!RootsAccounted
  <2>4. Table!RootsAccounted'
    <3>1. SUFFICES ASSUME NEW q \in Visible' PROVE q[1] \in Loaded \cup landed'
      BY DEF Table!RootsAccounted
    <3>2. \/ q \in Visible
          \/ \E r \in upd : q[1] = r[1]
          \/ q[1] = s
      BY <2>1, ExecuteRows, SMTT(30)
    <3> QED
      BY <2>1, <3>2 DEF Table!Execute, Table!IInv, Table!RootsAccounted
  <2> QED
    BY <2>2, <2>3, <2>4 DEF Table!IInv
<1> QED
  BY <1>1, <1>2

\* TableRows keeps its inductive invariant.
LEMMA RowsInvariance == Table!Spec => []Table!IInv
BY RowsInit, RowsStep, PTL DEF Table!Spec

\* A table that implements TableRows has at most one version of a row: whatever is
\* redone, retried or rewritten, an UPDATE replaces the version that it read.
THEOREM RowsAreUnique == Spec => []Table!OneVersion
<1>1. Table!IInv => Table!OneVersion
  BY DEF Table!IInv
<1> QED
  BY <1>1, RowsInvariance, Refinement, PTL DEF ImplementsTable

\* A row that has left the table never comes back, whatever the writers redo,
\* retry or rewrite.
THEOREM RemovedForGood == Spec => GoneStaysGone
<1> DEFINE A == \A x \in Table!Root :
                  /\ x \in Loaded \cup landed
                  /\ ~ \E r \in Visible : r[1] = x
                  => ~ \E r \in Visible' : r[1] = x
<1>1. Table!IInv /\ [Table!Next]_Table!vars => [A]_Table!vars
  <2> SUFFICES ASSUME Table!IInv, Table!Next,
                      NEW x \in Loaded \cup landed, NEW q \in Visible', q[1] = x
               PROVE  \E r \in Visible : r[1] = x
    OBVIOUS
  <2>1. PICK s \in Stmt, upd \in SUBSET Visible, del \in SUBSET Visible :
          \E ins \in SUBSET {<<s, 0>>} : Table!Execute(s, upd, del, ins)
    BY DEF Table!Next
  <2>2. \/ q \in Visible
        \/ \E r \in upd : q[1] = r[1]
        \/ q[1] = s /\ s \notin Loaded \cup landed
    BY <2>1, ExecuteRows, SMTT(30)
  <2> QED
    BY <2>1, <2>2
<1> QED
  BY <1>1, RowsInvariance, Refinement, PTL
     DEF ImplementsTable, Table!Spec, GoneStaysGone, Table!GoneStaysGone

=============================================================================

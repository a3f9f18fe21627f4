---------------------------- MODULE IngesterProofs ---------------------------
(***************************************************************************)
(* Proofs about Ingester, for any batches, partitions, thresholds and      *)
(* bounds: accepted rows are kept, land in the table they were accepted    *)
(* for, and, if no update fails after it happened, land once.              *)
(***************************************************************************)
EXTENDS Ingester, TLAPS

\* A leaf is Zenon's unless it names the SMT solver.
USE ZenonT(60)

Flushing == {"rebind", "upload", "get", "update"}

\* The rows of the batch at hand are in the buffers.
Buffered(b) ==
  \/ status[b] = "ok"
  \/ op.batch = b /\ op.pc \in {"flush"} \cup Flushing

\* The batch at hand has no answer yet, and the part at hand is one.
OpShape ==
  /\ op.batch \in Batch => status[op.batch] = "new"
  /\ op.pc \in {"bind", "buffer"} => op.batch \in Batch
  /\ op.pc = "idle" => op.batch = NoBatch
  /\ op.pc \in Flushing => op.part \in Part

\* What the update will be compared with.
Snapshot ==
  op.pc = "update" =>
    /\ op.seen # 0
    /\ op.rev <= rev
    /\ bound # 0 => op.seen = bound
    /\ rev = op.rev /\ manifest # 0 => manifest = op.seen

\* A batch that is not buffered yet is nowhere.
Fresh ==
  \A b \in Batch, p \in Part :
    status[b] = "new" /\ ~ Buffered(b) => b \notin buffers[p] /\ ~ Landed(p, b)

\* Buffered rows were accepted for the incarnation that is bound.
OwnedByBound ==
  \A b \in Batch, p \in Part :
    b \in buffers[p] /\ owner[b] # 0 => bound = owner[b]

Kept ==
  \A b \in Batch, p \in Part :
    Buffered(b) => b \in buffers[p] \/ Landed(p, b)

IInv ==
  /\ TypeOK /\ OpShape /\ Snapshot /\ Fresh /\ OwnedByBound /\ Kept
  /\ LandsInItsTable

LEMMA IdleOp == Idle \in Op
  BY IngesterAssumption, SMTT(30) DEF Idle, Op

LEMMA InitInv == Init => IInv
  <1> SUFFICES ASSUME Init PROVE IInv
    OBVIOUS
  <1>1. TypeOK
    BY IngesterAssumption, SMTT(30) DEF Init, TypeOK, Idle, Op
  <1>2. OpShape /\ Snapshot
    BY IngesterAssumption DEF Init, OpShape, Snapshot, Idle, Flushing
  <1>3. Fresh /\ OwnedByBound /\ LandsInItsTable
    BY DEF Init, Fresh, OwnedByBound, LandsInItsTable, Landed
  <1>4. Kept
    BY IngesterAssumption DEF Init, Kept, Buffered, Idle, Flushing
  <1> QED
    BY <1>1, <1>2, <1>3, <1>4 DEF IInv

\* What other sessions do to the table leaves the ingester's facts alone.
LEMMA TableInv == IInv /\ TableStep => IInv'
  <1> SUFFICES ASSUME IInv, TableStep PROVE IInv'
    OBVIOUS
  <1>1. UNCHANGED <<buffers, bound, op, status, owner, landed, faults>>
    BY DEF TableStep, CreateManifest, CreateTable, DropTable, DropManifest,
           OtherCommit
  <1>2. TypeOK'
    BY <1>1, IngesterAssumption, SMTT(30) DEF IInv, TypeOK, TableStep, CreateManifest,
       CreateTable, DropTable, DropManifest, OtherCommit
  <1>3. Snapshot'
    <2>1. rev \in Nat /\ op.rev \in Nat
      BY DEF IInv, TypeOK, Op
    <2>2. \/ rev' = rev + 1
          \/ rev' = rev /\ manifest' \in {manifest, 0}
      BY DEF TableStep, CreateManifest, CreateTable, DropTable, DropManifest,
             OtherCommit
    <2> QED
      BY <1>1, <2>1, <2>2, SMTT(30) DEF IInv, Snapshot
  <1>4. OpShape'
    BY <1>1 DEF IInv, OpShape
  <1>5. Fresh' /\ Kept'
    BY <1>1, SMTT(30) DEF IInv, Fresh, Kept, Buffered, Landed
  <1>6. OwnedByBound' /\ LandsInItsTable'
    BY <1>1 DEF IInv, OwnedByBound, LandsInItsTable
  <1> QED
    BY <1>2, <1>3, <1>4, <1>5, <1>6 DEF IInv

\* A method that returns leaves the buffers, the files and the bound table as
\* they are; it says "ok" only of a batch that is buffered.
LEMMA ReturnInv ==
  ASSUME IInv, NEW answer \in {"ok", "failed"}, Return(answer),
         answer = "ok" => op.pc = "flush",
         UNCHANGED <<record, manifest, rev, lastInc, ddl, buffers, bound, owner,
                     landed>>,
         faults' \in Nat
  PROVE  IInv'
  <1>1. TypeOK'
    <2>1. Idle \in Op
      BY IngesterAssumption, SMTT(30) DEF Idle, Op
    <2>2. status' \in [Batch -> {"new", "ok", "failed"}]
      BY DEF Return, IInv, TypeOK
    <2> QED
      BY <2>1, <2>2 DEF Return, IInv, TypeOK
  <1>2. OpShape' /\ Snapshot'
    BY IngesterAssumption DEF Return, OpShape, Snapshot, Idle, Flushing
  <1>3. \A b \in Batch : op'.batch # b
    BY IngesterAssumption DEF Return, Idle
  <1>4. ASSUME NEW b \in Batch PROVE Buffered(b)' => Buffered(b)
    <2>1. status \in [Batch -> {"new", "ok", "failed"}]
      BY DEF IInv, TypeOK
    <2>2. CASE op.batch = NoBatch
      BY <1>3, <2>2 DEF Return, Buffered
    <2>3. CASE op.batch # NoBatch
      <3>1. status' = [status EXCEPT ![op.batch] = answer]
        BY <2>3 DEF Return
      <3>2. CASE op.batch = b
        BY <1>3, <2>1, <3>1, <3>2 DEF Buffered, Flushing
      <3>3. CASE op.batch # b
        BY <1>3, <2>1, <3>1, <3>3 DEF Buffered
      <3> QED
        BY <3>2, <3>3
    <2> QED
      BY <2>2, <2>3
  <1>5. Kept'
    BY <1>4 DEF IInv, Kept, Landed
  <1>6. Fresh'
    <2> SUFFICES ASSUME NEW b \in Batch, NEW p \in Part,
                        status'[b] = "new", ~ Buffered(b)'
                 PROVE  b \notin buffers[p] /\ ~ Landed(p, b)
      BY DEF Fresh, Landed
    <2>1. status \in [Batch -> {"new", "ok", "failed"}]
      BY DEF IInv, TypeOK
    <2>2. status[b] = "new" /\ op.batch # b
      BY <2>1, IngesterAssumption DEF Return
    <2>3. ~ Buffered(b)
      BY <2>2 DEF Buffered
    <2> QED
      BY <2>2, <2>3 DEF IInv, Fresh
  <1>7. OwnedByBound' /\ LandsInItsTable'
    BY DEF IInv, OwnedByBound, LandsInItsTable
  <1> QED
    BY <1>1, <1>2, <1>5, <1>6, <1>7 DEF IInv

\* A step inside a method that moves on without touching the buffers.
LEMMA MoveInv ==
  ASSUME IInv, op' \in Op, op'.batch = op.batch \/ op.pc = "idle",
         op.pc = "idle" => op'.batch \in Batch \cup {NoBatch},
         op'.batch \in Batch => status[op'.batch] = "new",
         op'.pc \notin {"idle", "update"},
         op'.pc \in {"bind", "buffer"} => op'.batch \in Batch,
         op'.pc \in Flushing => op'.part \in Part,
         op.pc = "idle" /\ op'.batch # NoBatch => op'.pc \in {"bind", "buffer"},
         op.pc \in {"bind", "buffer"} => op'.pc \in {"bind", "buffer"},
         op.pc \in {"flush"} \cup Flushing => op'.pc \in {"flush"} \cup Flushing,
         bound' \in 0..MaxInc, bound # 0 => bound' = bound,
         UNCHANGED <<record, manifest, rev, lastInc, ddl, buffers, status, owner,
                     landed, faults>>
  PROVE  IInv'
  <1>1. TypeOK'
    BY DEF IInv, TypeOK
  <1>2. OpShape' /\ Snapshot'
    BY DEF OpShape, Snapshot
  <1>3. op.pc \in {"idle", "bind", "buffer", "flush"} \cup Flushing
    BY DEF IInv, TypeOK, Op, Flushing
  <1>4. ASSUME NEW b \in Batch PROVE Buffered(b)' <=> Buffered(b)
    BY <1>3, IngesterAssumption DEF Buffered, Flushing, IInv, OpShape
  <1>5. Kept' /\ Fresh'
    BY <1>4 DEF IInv, Kept, Fresh, Landed
  <1>6. OwnedByBound'
    BY DEF IInv, OwnedByBound, TypeOK
  <1>7. LandsInItsTable'
    BY DEF IInv, LandsInItsTable
  <1> QED
    BY <1>1, <1>2, <1>5, <1>6, <1>7 DEF IInv

LEMMA IngestInv == ASSUME IInv, NEW b \in Batch, Ingest(b) PROVE IInv'
  <1>1. CASE b \in Bad
    <2>1. status' = [status EXCEPT ![b] = "failed"]
          /\ UNCHANGED <<table, buffers, bound, op, owner, landed, faults>>
          /\ op = Idle /\ status[b] = "new"
      BY <1>1 DEF Ingest
    <2>2. TypeOK'
      BY <2>1 DEF IInv, TypeOK, table
    <2>3. OpShape' /\ Snapshot'
      BY <2>1, IngesterAssumption DEF IInv, OpShape, Snapshot, table, Idle, Flushing
    <2>4. \A c \in Batch : Buffered(c)' => Buffered(c)
      BY <2>1 DEF Buffered, IInv, TypeOK
    <2>5. \A c \in Batch : status'[c] = "new" => status[c] = "new" /\ (Buffered(c)' <=> Buffered(c))
      BY <2>1 DEF Buffered, IInv, TypeOK
    <2>6. Kept' /\ Fresh'
      BY <2>1, <2>4, <2>5 DEF IInv, Kept, Fresh, Landed
    <2>7. OwnedByBound' /\ LandsInItsTable'
      BY <2>1 DEF IInv, OwnedByBound, LandsInItsTable
    <2> QED
      BY <2>2, <2>3, <2>6, <2>7 DEF IInv
  <1>2. CASE b \notin Bad
    <2>1. /\ op' = [Idle EXCEPT !.batch = b,
                                !.pc = IF bound = 0 THEN "bind" ELSE "buffer"]
          /\ UNCHANGED <<record, manifest, rev, lastInc, ddl, buffers, status,
                         bound, owner, landed, faults>>
          /\ op = Idle /\ status[b] = "new"
      BY <1>2 DEF Ingest, table
    <2>2. op' \in Op /\ op'.batch = b /\ op'.pc \in {"bind", "buffer"} /\ op.pc = "idle"
      <3>1. op' \in Op
        BY <2>1, IdleOp DEF Op
      <3> QED
        BY <2>1, <3>1 DEF Idle
    <2>3. bound' \in 0..MaxInc
      BY <2>1 DEF IInv, TypeOK
    <2> QED
      BY <2>1, <2>2, <2>3, MoveInv DEF Flushing
  <1> QED
    BY <1>1, <1>2

LEMMA BindInv ==
  ASSUME IInv, NEW from, NEW next, bindIncarnation(from, next),
         <<from, next>> \in {<<"bind", "buffer">>, <<"rebind", "upload">>}
  PROVE  IInv'
  <1>0. /\ op.pc = from /\ op \in Op
        /\ (from = "bind" /\ next = "buffer") \/ (from = "rebind" /\ next = "upload")
    BY DEF bindIncarnation, IInv, TypeOK
  <1>1. CASE /\ bound' = (IF bound = 0 THEN record ELSE bound)
             /\ op' = [op EXCEPT !.pc = next]
             /\ UNCHANGED <<status, faults>>
    <2>1. UNCHANGED <<record, manifest, rev, lastInc, ddl, buffers, status, owner,
                     landed, faults>>
      BY <1>1 DEF bindIncarnation, table
    <2>2. op' \in Op /\ op'.batch = op.batch /\ op'.part = op.part /\ op'.pc = next
      BY <1>0, <1>1 DEF Op
    <2>3. bound' \in 0..MaxInc /\ (bound # 0 => bound' = bound)
      BY <1>1 DEF IInv, TypeOK
    <2>4. OpShape
      BY DEF IInv
    <2> QED
      BY <1>0, <2>1, <2>2, <2>3, <2>4, MoveInv DEF OpShape, Flushing
  <1>2. CASE Fault /\ Return("failed") /\ UNCHANGED bound
    <2>1. UNCHANGED <<record, manifest, rev, lastInc, ddl, buffers, bound, owner,
                     landed>>
      BY <1>2 DEF bindIncarnation, table
    <2>2. faults' \in Nat
      BY <1>2, SMTT(30) DEF Fault, IInv, TypeOK
    <2> QED
      BY <1>2, <2>1, <2>2, ReturnInv
  <1> QED
    BY <1>1, <1>2 DEF bindIncarnation

LEMMA BufferInv == IInv /\ Buffer => IInv'
  <1> SUFFICES ASSUME IInv, Buffer PROVE IInv'
    OBVIOUS
  <1> DEFINE b == op.batch
  <1>1. b \in Batch /\ status[b] = "new" /\ op.pc = "buffer" /\ op \in Op
    BY DEF IInv, OpShape, Buffer, TypeOK
  <1>2. ~ Buffered(b)
    BY <1>1 DEF Buffered, Flushing
  <1>3. /\ buffers' = [p \in Part |-> buffers[p] \cup {b}]
        /\ owner' = [owner EXCEPT ![b] = bound]
        /\ UNCHANGED <<record, manifest, rev, lastInc, ddl, bound, status, landed,
                       faults>>
    BY DEF Buffer, table
  <1>4. op' \in Op /\ op'.pc = "flush" /\ op'.batch = b
    <2>1. Full([p \in Part |-> buffers[p] \cup {b}], MaxBufferRows) \in SUBSET Part
      BY DEF Full
    <2> QED
      BY <1>1, <2>1 DEF Buffer, Op
  <1>5. TypeOK'
    BY <1>1, <1>3, <1>4 DEF IInv, TypeOK
  <1>6. OpShape' /\ Snapshot'
    BY <1>1, <1>3, <1>4 DEF OpShape, Snapshot, Flushing
  <1>7. ASSUME NEW c \in Batch PROVE Buffered(c)' <=> (Buffered(c) \/ c = b)
    BY <1>1, <1>3, <1>4 DEF Buffered, Flushing
  <1>8. Kept'
    BY <1>3, <1>7 DEF IInv, Kept, Landed
  <1>9. Fresh'
    BY <1>3, <1>7 DEF IInv, Fresh, Landed
  <1>10. OwnedByBound'
    BY <1>1, <1>3 DEF IInv, OwnedByBound, TypeOK
  <1>11. LandsInItsTable'
    <2>1. \A f \in landed : b \notin f.rows
      BY <1>1, <1>2 DEF IInv, Fresh, Landed, TypeOK, File
    <2> QED
      BY <1>1, <1>3, <2>1 DEF IInv, LandsInItsTable, TypeOK, File
  <1> QED
    BY <1>5, <1>6, <1>8, <1>9, <1>10, <1>11 DEF IInv

LEMMA FlushInv ==
  IInv /\ (FlushAll \/ flushReady \/ (\E p \in Part : FlushNext(p)) \/ FlushDone)
    => IInv'
  <1> SUFFICES ASSUME IInv,
                      FlushAll \/ flushReady \/ (\E p \in Part : FlushNext(p))
                        \/ FlushDone
               PROVE  IInv'
    OBVIOUS
  <1>0. bound \in 0..MaxInc /\ op \in Op /\ OpShape
    BY DEF IInv, TypeOK
  <1>1. CASE FlushAll \/ flushReady
    <2>1. PICK n \in Nat : op' = [Idle EXCEPT !.pc = "flush", !.todo = Full(buffers, n)]
      BY <1>1, IngesterAssumption DEF FlushAll, flushReady
    <2>2. Full(buffers, n) \in SUBSET Part
      BY DEF Full
    <2>3. op' \in Op /\ op'.pc = "flush" /\ op'.batch = NoBatch
      <3>1. op' \in Op
        BY <2>1, <2>2, IdleOp DEF Op
      <3> QED
        BY <2>1, <3>1 DEF Idle
    <2>4. op.pc = "idle"
      BY <1>1, SMTT(30) DEF FlushAll, flushReady, Idle
    <2>5. UNCHANGED <<record, manifest, rev, lastInc, ddl, buffers, bound, status,
                     owner, landed, faults>>
      BY <1>1 DEF FlushAll, flushReady, table
    <2> QED
      BY <1>0, <2>3, <2>4, <2>5, IngesterAssumption, MoveInv DEF Flushing
  <1>2. ASSUME NEW p \in Part, FlushNext(p) PROVE IInv'
    <2>1. op' \in Op /\ op'.pc = "rebind" /\ op'.batch = op.batch /\ op'.part = p
      BY <1>0, <1>2 DEF FlushNext, Op
    <2>2. UNCHANGED <<record, manifest, rev, lastInc, ddl, buffers, bound, status,
                     owner, landed, faults>>
      BY <1>2 DEF FlushNext, table
    <2>3. op.pc = "flush"
      BY <1>2 DEF FlushNext
    <2> QED
      BY <1>0, <2>1, <2>2, <2>3, MoveInv DEF Flushing, OpShape
  <1>3. CASE FlushDone
    BY <1>3, ReturnInv DEF FlushDone, table, IInv, TypeOK
  <1> QED
    BY <1>1, <1>2, <1>3

LEMMA UploadInv == IInv /\ (Upload \/ GetManifest) => IInv'
  <1> SUFFICES ASSUME IInv, Upload \/ GetManifest PROVE IInv'
    OBVIOUS
  <1>0. bound \in 0..MaxInc /\ op \in Op /\ OpShape
    BY DEF IInv, TypeOK
  <1>1. UNCHANGED <<record, manifest, rev, lastInc, ddl, buffers, bound, owner,
                   landed>>
    BY DEF Upload, GetManifest, table
  <1>2. CASE Return("failed") /\ (UNCHANGED faults \/ Fault)
    <2>1. faults' \in Nat
      BY <1>2, SMTT(30) DEF Fault, IInv, TypeOK
    <2> QED
      BY <1>1, <1>2, <2>1, ReturnInv
  <1>3. CASE /\ op.pc = "upload" /\ op' = [op EXCEPT !.pc = "get", !.attempt = 0]
             /\ UNCHANGED <<status, faults>>
    <2>1. op' \in Op /\ op'.pc = "get" /\ op'.batch = op.batch /\ op'.part = op.part
      BY <1>0, <1>3 DEF Op
    <2> QED
      BY <1>0, <1>1, <1>3, <2>1, MoveInv DEF Flushing, OpShape
  <1>4. CASE /\ op.pc = "get" /\ manifest # 0 /\ ~ Refused
             /\ op' = [op EXCEPT !.pc = "update", !.seen = manifest, !.rev = rev]
             /\ UNCHANGED <<status, faults>>
    <2>1. /\ op' \in Op /\ op'.pc = "update" /\ op'.batch = op.batch
          /\ op'.part = op.part /\ op'.seen = manifest /\ op'.rev = rev
      BY <1>0, <1>4 DEF Op, IInv, TypeOK
    <2>2. TypeOK'
      BY <1>1, <1>4, <2>1 DEF IInv, TypeOK
    <2>3. OpShape'
      BY <1>0, <1>4, <2>1 DEF OpShape, Flushing
    <2>4. Snapshot'
      BY <1>1, <1>4, <2>1, SMTT(30) DEF Snapshot, Refused, IInv, TypeOK
    <2>5. \A b \in Batch : Buffered(b)' <=> Buffered(b)
      BY <1>4, <2>1 DEF Buffered, Flushing
    <2>6. Kept' /\ Fresh'
      BY <1>1, <1>4, <2>5 DEF IInv, Kept, Fresh, Landed
    <2>7. OwnedByBound' /\ LandsInItsTable'
      BY <1>1 DEF IInv, OwnedByBound, LandsInItsTable
    <2> QED
      BY <2>2, <2>3, <2>4, <2>6, <2>7 DEF IInv
  <1> QED
    BY <1>2, <1>3, <1>4 DEF Upload, GetManifest

\* The files after an update that happened.
LEMMA RegisterLands ==
  ASSUME IInv, op.pc = "update", Unchanged, NEW reply \in {"ok", "lost"},
         Register(reply), UNCHANGED <<bound, owner>>
  PROVE  /\ landed' \in SUBSET File /\ rev' \in Nat
         /\ LandsInItsTable'
         /\ \A b \in Batch, p \in Part :
              Landed(p, b)' <=> Landed(p, b) \/ (p = op.part /\ b \in buffers[p])
  <1> DEFINE new == [rev |-> rev + 1, part |-> op.part, rows |-> buffers[op.part],
                     inc |-> manifest, reply |-> reply]
  <1>1. /\ op.part \in Part /\ op.seen # 0 /\ manifest = op.seen
        /\ bound # 0 => op.seen = bound
    BY DEF IInv, OpShape, Snapshot, Unchanged, Flushing
  <1>2. new \in File /\ rev' \in Nat
    BY <1>1, SMTT(30) DEF File, Register, IInv, TypeOK, Inc
  <1>3. landed' = landed \cup {new}
    BY DEF Register
  <1>4. landed' \in SUBSET File
    BY <1>2, <1>3 DEF IInv, TypeOK
  <1>5. \A b \in new.rows : owner[b] # 0 => new.inc = owner[b]
    BY <1>1 DEF IInv, OwnedByBound, TypeOK
  <1>6. LandsInItsTable'
    BY <1>3, <1>5 DEF IInv, LandsInItsTable
  <1>7. ASSUME NEW b \in Batch, NEW p \in Part
        PROVE  Landed(p, b)' <=> Landed(p, b) \/ (p = op.part /\ b \in buffers[p])
    <2>1. new.part = op.part /\ new.rows = buffers[op.part]
      OBVIOUS
    <2> HIDE DEF new
    <2> QED
      BY <1>3, <2>1 DEF Landed
  <1> QED
    BY <1>2, <1>4, <1>6, <1>7

LEMMA UpdateInv == IInv /\ UpdateManifest => IInv'
  <1> SUFFICES ASSUME IInv, UpdateManifest PROVE IInv'
    OBVIOUS
  <1>0. /\ op.pc = "update" /\ op \in Op /\ OpShape /\ op.part \in Part
        /\ bound \in 0..MaxInc
        /\ UNCHANGED <<record, manifest, lastInc, ddl, bound, owner>>
    BY DEF UpdateManifest, IInv, TypeOK, OpShape, Flushing
  <1>1. CASE /\ Unchanged /\ Register("ok")
             /\ buffers' = [buffers EXCEPT ![op.part] = {}]
             /\ op' = [op EXCEPT !.pc = "flush"]
             /\ UNCHANGED <<status, faults>>
    <2>1. /\ landed' \in SUBSET File /\ rev' \in Nat /\ LandsInItsTable'
          /\ \A b \in Batch, p \in Part :
               Landed(p, b)' <=> Landed(p, b) \/ (p = op.part /\ b \in buffers[p])
      BY <1>0, <1>1, RegisterLands
    <2>2. op' \in Op /\ op'.pc = "flush" /\ op'.batch = op.batch
      BY <1>0, <1>1 DEF Op
    <2>3. TypeOK'
      BY <1>0, <1>1, <2>1, <2>2 DEF IInv, TypeOK
    <2>4. OpShape' /\ Snapshot'
      BY <1>0, <1>1, <2>2 DEF OpShape, Snapshot, Flushing
    <2>5. \A b \in Batch : Buffered(b)' <=> Buffered(b)
      BY <1>0, <1>1, <2>2 DEF Buffered, Flushing
    <2>6. ASSUME NEW b \in Batch, NEW p \in Part
          PROVE  b \in buffers'[p] <=> b \in buffers[p] /\ p # op.part
      BY <1>1 DEF IInv, TypeOK
    <2>7. Kept'
      BY <2>1, <2>5, <2>6 DEF IInv, Kept
    <2>8. Fresh'
      BY <1>1, <2>1, <2>5, <2>6 DEF IInv, Fresh
    <2>9. OwnedByBound'
      BY <1>0, <2>6 DEF IInv, OwnedByBound
    <2> QED
      BY <2>1, <2>3, <2>4, <2>7, <2>8, <2>9 DEF IInv
  <1>2. CASE /\ Unchanged /\ Register("lost")
             /\ Fault /\ Return("failed") /\ UNCHANGED buffers
    <2>1. /\ landed' \in SUBSET File /\ rev' \in Nat /\ LandsInItsTable'
          /\ \A b \in Batch, p \in Part :
               Landed(p, b)' <=> Landed(p, b) \/ (p = op.part /\ b \in buffers[p])
      BY <1>0, <1>2, RegisterLands
    <2>2. Idle \in Op /\ op' = Idle /\ faults' \in Nat
      BY <1>2, IngesterAssumption, SMTT(30) DEF Idle, Op, Return, Fault, IInv, TypeOK
    <2>3. TypeOK'
      <3>1. status' \in [Batch -> {"new", "ok", "failed"}]
        BY <1>2 DEF Return, IInv, TypeOK
      <3> QED
        BY <1>0, <1>2, <2>1, <2>2, <3>1 DEF IInv, TypeOK
    <2>4. OpShape' /\ Snapshot'
      BY <2>2, IngesterAssumption DEF OpShape, Snapshot, Idle, Flushing
    <2>5. ASSUME NEW b \in Batch
          PROVE  /\ Buffered(b)' => Buffered(b)
                 /\ status'[b] = "new" => status[b] = "new" /\ ~ Buffered(b)
      <3>1. status \in [Batch -> {"new", "ok", "failed"}]
        BY DEF IInv, TypeOK
      <3>2. op'.batch # b
        BY <2>2, IngesterAssumption DEF Idle
      <3>3. status' = [status EXCEPT ![op.batch] = "failed"] \/ (op.batch = NoBatch /\ status' = status)
        BY <1>2 DEF Return
      <3>4. CASE op.batch = b
        BY <3>1, <3>2, <3>3, <3>4, IngesterAssumption DEF Buffered
      <3>5. CASE op.batch # b
        BY <3>1, <3>2, <3>3, <3>5 DEF Buffered
      <3> QED
        BY <3>4, <3>5
    <2>6. Kept'
      BY <1>2, <2>1, <2>5 DEF IInv, Kept
    <2>7. Fresh'
      BY <1>2, <2>1, <2>5 DEF IInv, Fresh
    <2>8. OwnedByBound'
      BY <1>0, <1>2 DEF IInv, OwnedByBound
    <2> QED
      BY <2>1, <2>3, <2>4, <2>6, <2>7, <2>8 DEF IInv
  <1>3. CASE /\ op' = [op EXCEPT !.pc = "get", !.attempt = op.attempt + 1]
             /\ UNCHANGED <<rev, landed, buffers, status, faults>>
    <2>1. op' \in Op /\ op'.pc = "get" /\ op'.batch = op.batch /\ op'.part = op.part
      <3>1. op.attempt + 1 \in Nat
        BY <1>0, SMTT(30) DEF Op
      <3> QED
        BY <1>0, <1>3, <3>1 DEF Op
    <2> QED
      BY <1>0, <1>3, <2>1, MoveInv DEF Flushing, OpShape
  <1>4. CASE /\ Return("failed") /\ UNCHANGED <<rev, landed, buffers>>
             /\ UNCHANGED faults \/ Fault
    <2>1. faults' \in Nat
      BY <1>4, SMTT(30) DEF Fault, IInv, TypeOK
    <2> QED
      BY <1>0, <1>4, <2>1, ReturnInv
  <1> QED
    BY <1>1, <1>2, <1>3, <1>4 DEF UpdateManifest

LEMMA NextInv == IInv /\ [Next]_vars => IInv'
  <1> SUFFICES ASSUME IInv, [Next]_vars PROVE IInv'
    OBVIOUS
  <1>1. CASE UNCHANGED vars
    BY <1>1, SMTT(30)
       DEF vars, IInv, TypeOK, OpShape, Snapshot, Fresh, OwnedByBound, Kept,
       LandsInItsTable, Landed, Buffered
  <1>2. CASE \E b \in Batch : Ingest(b)
    BY <1>2, IngestInv
  <1>3. CASE OpStep
    <2>1. CASE bindIncarnation("bind", "buffer") \/ bindIncarnation("rebind", "upload")
      BY <2>1, BindInv
    <2> QED
      BY <1>3, <2>1, BufferInv, FlushInv, UploadInv, UpdateInv DEF OpStep
  <1> QED
    BY <1>1, <1>2, <1>3, FlushInv, TableInv DEF Next

\* Whatever the batches, the thresholds and the order of drops, creates and
\* failures: the inductive invariant holds.
THEOREM Inductive == Spec => []IInv
  BY InitInv, NextInv, PTL DEF Spec

\* Rows accepted for one incarnation of the table never land in another: the
\* comparison inside addFiles' compare-and-swap suffices.
THEOREM Lands == Spec => []LandsInItsTable
  <1>1. IInv => LandsInItsTable
    BY DEF IInv
  <1> QED
    BY <1>1, Inductive, PTL

\* No accepted row is discarded, even when updates fail after they happened.
THEOREM Accepted == Spec => []AcceptedIsKept
  <1>1. IInv => AcceptedIsKept
    BY DEF IInv, Kept, Buffered, AcceptedIsKept
  <1> QED
    BY <1>1, Inductive, PTL

\* The files and buffers of a step that registers nothing and buffers nothing.
LEMMA SameOnce ==
  ASSUME WrittenOnce, UNCHANGED <<buffers, landed>>
  PROVE  WrittenOnce'
  BY DEF WrittenOnce, Landed

LEMMA BufferOnce == IInv /\ WrittenOnce /\ Buffer => WrittenOnce'
  <1> SUFFICES ASSUME IInv, WrittenOnce, Buffer PROVE WrittenOnce'
    OBVIOUS
  <1>1. op.batch \in Batch /\ status[op.batch] = "new" /\ ~ Buffered(op.batch)
    BY DEF IInv, OpShape, Buffer, Buffered, Flushing
  <1>2. \A p \in Part : ~ Landed(p, op.batch)
    BY <1>1 DEF IInv, Fresh
  <1>3. landed' = landed /\ buffers' = [p \in Part |-> buffers[p] \cup {op.batch}]
    BY DEF Buffer
  <1> QED
    BY <1>2, <1>3, SMTT(30) DEF WrittenOnce, Landed

LEMMA UpdateOnce == IInv /\ WrittenOnce /\ UpdateManifest => WrittenOnce'
  <1> SUFFICES ASSUME IInv, WrittenOnce, UpdateManifest,
                      \A f \in landed' : f.reply = "ok"
               PROVE  WrittenOnce'
    BY DEF WrittenOnce
  <1>1. CASE UNCHANGED <<buffers, landed>>
    BY <1>1, SameOnce
  <1>2. CASE Register("ok") /\ buffers' = [buffers EXCEPT ![op.part] = {}]
    <2> DEFINE new == [rev |-> rev + 1, part |-> op.part,
                       rows |-> buffers[op.part], inc |-> manifest, reply |-> "ok"]
    <2>0. \A f \in landed : f.reply = "ok"
      BY <1>2 DEF Register
    <2>1. landed' = landed \cup {new} /\ op.part \in Part
      BY <1>2 DEF Register, UpdateManifest, IInv, OpShape, Flushing
    <2>2. new.part = op.part /\ new.rows = buffers[op.part]
      OBVIOUS
    <2> HIDE DEF new
    <2>3. ASSUME NEW b \in Batch, NEW p \in Part
          PROVE  b \in buffers'[p] <=> b \in buffers[p] /\ p # op.part
      BY <1>2 DEF IInv, TypeOK
    <2>4. ASSUME NEW b \in Batch, NEW p \in Part, b \in buffers'[p]
          PROVE  ~ Landed(p, b)'
      BY <2>0, <2>1, <2>2, <2>3, <2>4, SMTT(30) DEF WrittenOnce, Landed
    <2>5. ASSUME NEW b \in Batch, NEW p \in Part, NEW f \in landed', NEW g \in landed',
                 f.part = p, g.part = p, b \in f.rows, b \in g.rows
          PROVE  f = g
      <3>1. CASE f \in landed /\ g \in landed
        BY <2>0, <2>5, <3>1 DEF WrittenOnce
      <3>2. CASE f = new /\ g \in landed
        BY <2>0, <2>2, <2>5, <3>2 DEF WrittenOnce, Landed
      <3>3. CASE f \in landed /\ g = new
        BY <2>0, <2>2, <2>5, <3>3 DEF WrittenOnce, Landed
      <3> QED
        BY <2>1, <3>1, <3>2, <3>3
    <2> QED
      BY <2>4, <2>5, SMTT(30) DEF WrittenOnce
  <1>3. CASE Register("lost")
    <2> DEFINE new == [rev |-> rev + 1, part |-> op.part,
                       rows |-> buffers[op.part], inc |-> manifest, reply |-> "lost"]
    <2>1. new \in landed'
      BY <1>3 DEF Register
    <2>2. new.reply # "ok"
      OBVIOUS
    <2> QED
      BY <2>1, <2>2
  <1> QED
    BY <1>1, <1>2, <1>3 DEF UpdateManifest

LEMMA NextOnce == IInv /\ WrittenOnce /\ [Next]_vars => WrittenOnce'
  <1> SUFFICES ASSUME IInv, WrittenOnce, [Next]_vars PROVE WrittenOnce'
    OBVIOUS
  <1>1. CASE Buffer
    BY <1>1, BufferOnce
  <1>2. CASE UpdateManifest
    BY <1>2, UpdateOnce
  <1>3. CASE UNCHANGED <<buffers, landed>>
    BY <1>3, SameOnce
  <1>4. CASE TableStep
    BY <1>3, <1>4 DEF TableStep, CreateManifest, CreateTable, DropTable,
       DropManifest, OtherCommit
  <1>5. CASE (\E b \in Batch : Ingest(b)) \/ FlushAll \/ flushReady
    BY <1>3, <1>5 DEF Ingest, FlushAll, flushReady
  <1>6. CASE OpStep
    BY <1>1, <1>2, <1>3, <1>6 DEF OpStep, bindIncarnation, FlushNext, FlushDone,
       Upload, GetManifest
  <1>7. CASE UNCHANGED vars
    BY <1>3, <1>7 DEF vars
  <1> QED
    BY <1>4, <1>5, <1>6, <1>7 DEF Next

\* Until an update reports an error although it happened, no row is written
\* twice, however flushes of several partitions fail and are repeated.
THEOREM Once == Spec => []WrittenOnce
  <1>1. Init => WrittenOnce
    BY DEF Init, WrittenOnce, Landed
  <1>2. IInv /\ WrittenOnce /\ [Next]_vars => WrittenOnce'
    BY NextOnce
  <1> QED
    BY <1>1, <1>2, Inductive, PTL DEF Spec

=============================================================================

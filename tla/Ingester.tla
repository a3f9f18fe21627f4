------------------------------- MODULE Ingester ------------------------------
(***************************************************************************)
(* The micro-batch ingester of one table: rows are buffered by partition   *)
(* and written as files, each registered in the table's manifest by a      *)
(* compare-and-swap, while other sessions drop and create the table and    *)
(* write to it.                                                            *)
(*                                                                         *)
(* All methods hold ing.mu, so one operation runs at a time (op).  What    *)
(* interleaves with it is the catalog.                                     *)
(*                                                                         *)
(* Abstractions.  A batch has one row for every partition, and the row is  *)
(* known by the batch.  The size limit is the row limit.  Manifest commits *)
(* are not deferred: the deferred ones are the statements of               *)
(* TableManifest.  The table has the incarnation field.                    *)
(***************************************************************************)
EXTENDS Naturals, FiniteSets

CONSTANTS
  Batch,          \* the batches callers pass to Ingest
  Bad,            \* those with a row that does not validate
  Part,           \* partitions
  NoBatch, NoPart, \* none of them
  MaxBufferRows,  \* rows of a partition that make Ingest flush it
  MinFlushRows,   \* rows below which the timer leaves a partition alone
  CASRetries,     \* maxRetries of addFiles (10 in the code)
  MaxInc,         \* bound: incarnations of the table
  MaxRev,         \* bound: revisions of the manifest
  MaxFaults       \* bound: failed operations of the KV and of the store

ASSUME IngesterAssumption ==
  /\ Bad \subseteq Batch
  /\ NoBatch \notin Batch /\ NoPart \notin Part
  /\ MaxBufferRows \in Nat \ {0} /\ MinFlushRows \in Nat /\ CASRetries \in Nat
  /\ MaxInc \in Nat /\ MaxRev \in Nat /\ MaxFaults \in Nat

VARIABLES
  record,    \* the incarnation in table.<name>, 0 if there is no record
  manifest,  \* the incarnation in manifest.<name>, 0 if there is none
  rev,       \* the last revision of the manifest
  lastInc,   \* the last incarnation minted
  ddl,       \* what was last done about the table
  buffers,   \* the rows of each partition's buffer
  bound,     \* ing.incarnation, 0 while it is not bound
  op,        \* the method that holds ing.mu
  status,    \* what Ingest answered for each batch
  owner,     \* the incarnation that was bound when a batch was buffered
  landed,    \* the files that were ever registered
  faults

vars == <<record, manifest, rev, lastInc, ddl, buffers, bound, op, status, owner,
          landed, faults>>

table == <<record, manifest, rev, lastInc, ddl>>

Inc == 1..MaxInc

Idle == [pc |-> "idle", batch |-> NoBatch, todo |-> {}, part |-> NoPart,
         seen |-> 0, rev |-> 0, attempt |-> 0]

Op == [pc : {"idle", "bind", "buffer", "flush", "rebind", "upload", "get",
             "update"},
       batch : Batch \cup {NoBatch}, todo : SUBSET Part,
       part : Part \cup {NoPart}, seen : 0..MaxInc, rev : Nat, attempt : Nat]

\* A file holds the rows of one buffer.  The revision that registered it stands
\* for its path, which is a fresh UUID.  The reply to that update may be lost.
File == [rev : Nat, part : Part, rows : SUBSET Batch, inc : Inc,
         reply : {"ok", "lost"}]

TypeOK ==
  /\ record \in 0..MaxInc /\ manifest \in 0..MaxInc /\ lastInc \in 0..MaxInc
  /\ ddl \in {"absent", "creating", "present", "dropping"}
  /\ rev \in Nat /\ faults \in Nat
  /\ buffers \in [Part -> SUBSET Batch]
  /\ bound \in 0..MaxInc
  /\ op \in Op
  /\ status \in [Batch -> {"new", "ok", "failed"}]
  /\ owner \in [Batch -> 0..MaxInc]
  /\ landed \in SUBSET File

Init ==
  /\ record = 0 /\ manifest = 0 /\ rev = 0 /\ lastInc = 0 /\ ddl = "absent"
  /\ buffers = [p \in Part |-> {}]
  /\ bound = 0
  /\ op = Idle
  /\ status = [b \in Batch |-> "new"]
  /\ owner = [b \in Batch |-> 0]
  /\ landed = {}
  /\ faults = 0

-----------------------------------------------------------------------------
\* The table, as other sessions change it: the writes of CreateTable and of
\* DropTable in their order, and commits of other writers.

CreateManifest ==
  /\ ddl = "absent" /\ ddl' = "creating"
  /\ lastInc < MaxInc /\ rev < MaxRev
  /\ lastInc' = lastInc + 1
  /\ manifest' = lastInc + 1
  /\ rev' = rev + 1
  /\ UNCHANGED <<record, buffers, bound, op, status, owner, landed, faults>>

CreateTable ==
  /\ ddl = "creating" /\ ddl' = "present"
  /\ record' = manifest
  /\ UNCHANGED <<manifest, rev, lastInc, buffers, bound, op, status, owner,
                 landed, faults>>

DropTable ==
  /\ ddl = "present" /\ ddl' = "dropping"
  /\ record' = 0
  /\ UNCHANGED <<manifest, rev, lastInc, buffers, bound, op, status, owner,
                 landed, faults>>

DropManifest ==
  /\ ddl = "dropping" /\ ddl' = "absent"
  /\ manifest' = 0
  /\ UNCHANGED <<record, rev, lastInc, buffers, bound, op, status, owner,
                 landed, faults>>

OtherCommit ==
  /\ ddl = "present"
  /\ rev < MaxRev
  /\ rev' = rev + 1
  /\ UNCHANGED <<record, manifest, lastInc, ddl, buffers, bound, op, status,
                 owner, landed, faults>>

-----------------------------------------------------------------------------

Fault == faults < MaxFaults /\ faults' = faults + 1

\* The method returns: an Ingest has an answer for its batch.
Return(answer) ==
  /\ op' = Idle
  /\ status' = IF op.batch = NoBatch THEN status
               ELSE [status EXCEPT ![op.batch] = answer]

\* Ingest validates the whole batch before it buffers any of it.
Ingest(b) ==
  /\ op = Idle
  /\ status[b] = "new"
  /\ IF b \in Bad
     THEN status' = [status EXCEPT ![b] = "failed"] /\ UNCHANGED op
     ELSE /\ op' = [Idle EXCEPT !.batch = b,
                                !.pc = IF bound = 0 THEN "bind" ELSE "buffer"]
          /\ UNCHANGED status
  /\ UNCHANGED <<table, buffers, bound, owner, landed, faults>>

\* bindIncarnation reads the record of the table, once it is there.
bindIncarnation(from, next) ==
  /\ op.pc = from
  /\ \/ /\ bound' = IF bound = 0 THEN record ELSE bound
        /\ op' = [op EXCEPT !.pc = next]
        /\ UNCHANGED <<status, faults>>
     \/ bound = 0 /\ Fault /\ Return("failed") /\ UNCHANGED bound
  /\ UNCHANGED <<table, buffers, owner, landed>>

Full(buf, n) == {p \in Part : buf[p] # {} /\ Cardinality(buf[p]) >= n}

\* The staged rows go to their buffers, and full buffers are flushed.
Buffer ==
  LET b == op.batch
      buf == [p \in Part |-> buffers[p] \cup {b}]
  IN
  /\ op.pc = "buffer"
  /\ buffers' = buf
  /\ owner' = [owner EXCEPT ![b] = bound]
  /\ op' = [op EXCEPT !.pc = "flush", !.todo = Full(buf, MaxBufferRows)]
  /\ UNCHANGED <<table, bound, status, landed, faults>>

FlushAll ==
  /\ op = Idle
  /\ Full(buffers, 0) # {}
  /\ op' = [Idle EXCEPT !.pc = "flush", !.todo = Full(buffers, 0)]
  /\ UNCHANGED <<table, buffers, bound, status, owner, landed, faults>>

\* Mutant: the timer waits for full buffers.
flushReadyFull ==
  /\ op = Idle
  /\ Full(buffers, MaxBufferRows) # {}
  /\ op' = [Idle EXCEPT !.pc = "flush", !.todo = Full(buffers, MaxBufferRows)]
  /\ UNCHANGED <<table, buffers, bound, status, owner, landed, faults>>

\* The background timer.
flushReady ==
  /\ op = Idle
  /\ Full(buffers, MinFlushRows) # {}
  /\ op' = [Idle EXCEPT !.pc = "flush", !.todo = Full(buffers, MinFlushRows)]
  /\ UNCHANGED <<table, buffers, bound, status, owner, landed, faults>>

\* flushBuffer for the partitions one by one, in the order of the map.
FlushNext(p) ==
  /\ op.pc = "flush"
  /\ p \in op.todo
  /\ op' = [op EXCEPT !.pc = "rebind", !.part = p, !.todo = op.todo \ {p}]
  /\ UNCHANGED <<table, buffers, bound, status, owner, landed, faults>>

FlushDone ==
  /\ op.pc = "flush"
  /\ op.todo = {}
  /\ Return("ok")
  /\ UNCHANGED <<table, buffers, bound, owner, landed, faults>>

\* The file is put in the store.
Upload ==
  /\ op.pc = "upload"
  /\ \/ op' = [op EXCEPT !.pc = "get", !.attempt = 0] /\ UNCHANGED <<status, faults>>
     \/ Fault /\ Return("failed")
  /\ UNCHANGED <<table, buffers, bound, owner, landed>>

\* Mutant: the incarnation is not compared.
RefusedNever == FALSE

\* addFiles refuses a manifest of another incarnation.
Refused == bound # 0 /\ manifest # bound

\* addFiles: the manifest is read, and then replaced if it has not changed.
GetManifest ==
  /\ op.pc = "get"
  /\ \/ /\ manifest # 0 /\ ~ Refused
        /\ op' = [op EXCEPT !.pc = "update", !.seen = manifest, !.rev = rev]
        /\ UNCHANGED <<status, faults>>
     \/ /\ manifest = 0 \/ Refused
        /\ Return("failed") /\ UNCHANGED faults
     \/ Fault /\ Return("failed")
  /\ UNCHANGED <<table, buffers, bound, owner, landed>>

Unchanged == manifest # 0 /\ rev = op.rev

Register(reply) ==
  /\ rev' = rev + 1
  /\ landed' = landed \cup {[rev |-> rev + 1, part |-> op.part,
                             rows |-> buffers[op.part], inc |-> manifest,
                             reply |-> reply]}

\* Mutant: the buffer is reset whatever became of the commit.
UpdateManifestResets ==
  /\ op.pc = "update"
  /\ \/ /\ Unchanged /\ Register("ok")
        /\ buffers' = [buffers EXCEPT ![op.part] = {}]
        /\ op' = [op EXCEPT !.pc = "flush"]
        /\ UNCHANGED <<status, faults>>
     \/ /\ Fault /\ Return("failed")
        /\ buffers' = [buffers EXCEPT ![op.part] = {}]
        /\ UNCHANGED <<rev, landed>>
  /\ UNCHANGED <<record, manifest, lastInc, ddl, bound, owner>>

\* Mutant: the buffer is not reset.
UpdateManifestKeeps ==
  /\ op.pc = "update"
  /\ Unchanged /\ Register("ok")
  /\ op' = [op EXCEPT !.pc = "flush"]
  /\ UNCHANGED <<record, manifest, lastInc, ddl, bound, owner, buffers, status,
                 faults>>

\* The update succeeds, and the buffer is reset; or it reports an error although
\* it happened, and the buffer is kept; or the manifest changed, and it is read
\* again; or the update fails, and the buffer is kept.
UpdateManifest ==
  /\ op.pc = "update"
  /\ \/ /\ Unchanged /\ Register("ok")
        /\ buffers' = [buffers EXCEPT ![op.part] = {}]
        /\ op' = [op EXCEPT !.pc = "flush"]
        /\ UNCHANGED <<status, faults>>
     \/ /\ Unchanged /\ Register("lost")
        /\ Fault /\ Return("failed") /\ UNCHANGED buffers
     \/ /\ ~ Unchanged /\ op.attempt + 1 < CASRetries
        /\ op' = [op EXCEPT !.pc = "get", !.attempt = op.attempt + 1]
        /\ UNCHANGED <<rev, landed, buffers, status, faults>>
     \/ /\ ~ Unchanged /\ op.attempt + 1 >= CASRetries
        /\ Return("failed")
        /\ UNCHANGED <<rev, landed, buffers, faults>>
     \/ /\ Fault /\ Return("failed")
        /\ UNCHANGED <<rev, landed, buffers>>
  /\ UNCHANGED <<record, manifest, lastInc, ddl, bound, owner>>

OpStep ==
  \/ bindIncarnation("bind", "buffer")
  \/ Buffer
  \/ \E p \in Part : FlushNext(p)
  \/ FlushDone
  \/ bindIncarnation("rebind", "upload")
  \/ Upload \/ GetManifest \/ UpdateManifest

TableStep ==
  CreateManifest \/ CreateTable \/ DropTable \/ DropManifest \/ OtherCommit

Next ==
  \/ \E b \in Batch : Ingest(b)
  \/ FlushAll \/ flushReady
  \/ OpStep
  \/ TableStep

Spec == Init /\ [][Next]_vars

\* A method that runs goes on, and the ticker of Start ticks.
LiveSpec == Spec /\ WF_vars(OpStep) /\ WF_vars(flushReady)

-----------------------------------------------------------------------------
\* Properties.

\* Rows that were accepted for one incarnation of the table are never written
\* into another one: not by a flush that was reading the manifest while the
\* table was dropped and created again, and not by any later flush.
LandsInItsTable ==
  \A f \in landed : \A b \in f.rows : owner[b] # 0 => f.inc = owner[b]

Landed(p, b) == \E f \in landed : f.part = p /\ b \in f.rows

\* A batch that Ingest accepted is, row by row, in its buffer or in a file: a
\* failed flush, of this or of another partition, discards nothing.
AcceptedIsKept ==
  \A b \in Batch, p \in Part :
    status[b] = "ok" => b \in buffers[p] \/ Landed(p, b)

\* No row is written twice: a row in a buffer is in no file, and no two files
\* share a row, as long as no update reports an error after it happened.
WrittenOnce ==
  (\A f \in landed : f.reply = "ok") =>
    \A b \in Batch, p \in Part :
      /\ b \in buffers[p] => ~ Landed(p, b)
      /\ \A f, g \in landed :
           f.part = p /\ g.part = p /\ b \in f.rows /\ b \in g.rows => f = g

\* A partition the timer flushes is written in the end, unless the table it
\* belongs to is gone: an error that passes, which ends the flush of the partitions
\* that come after it too, costs only time.
FlushedInTheEnd ==
  \A b \in Batch \ Bad, p \in Part :
    (b \in buffers[p] /\ p \in Full(buffers, MinFlushRows))
      ~> (Landed(p, b) \/ manifest = 0 \/ Refused)

=============================================================================

--------------------------- MODULE TableLifecycle ----------------------------
(***************************************************************************)
(* CREATE and DROP of tables, and the sweep that deletes the files of       *)
(* dropped tables.                                                         *)
(*                                                                         *)
(* A table is three keys of the catalog KV: its name in the list "meta",   *)
(* a record table.<name> and a manifest manifest.<name>.  Each is written  *)
(* by a put of its own, and the list is read, changed and put back without *)
(* a revision check.                                                       *)
(*                                                                         *)
(* Abstractions.  A created table has one file, written by the statement   *)
(* that created it and known by the number of the incarnation; other files *)
(* of its manifest are registered later, from objects of the store.  The   *)
(* object of a file keeps its LastModified.  The grace period is any delay. *)
(* A put that reports an error was applied before, or not at all.          *)
(***************************************************************************)
EXTENDS Naturals, Sequences

CONSTANTS
  Name,          \* table names
  MaxCalls,      \* bound: calls of CreateTableWithFiles and DropTable
  MaxOverlap,    \* bound: the calls that may begin after two have overlapped
  MaxInc,        \* bound: incarnations
  MaxFaults,     \* bound: KV operations that fail
  MaxCrashes,    \* bound: calls that die between two steps
  MaxRegister,   \* bound: registrations of existing objects
  MaxPending     \* maxPendingDropPaths (100000 in the code)

ASSUME BoundAssumption ==
  {MaxCalls, MaxOverlap, MaxInc, MaxFaults, MaxCrashes, MaxRegister, MaxPending}
    \subseteq Nat

\* The calls, in the order in which they begin.
Call == 1..MaxCalls

VARIABLES
  meta,       \* meta.Tables
  record,     \* the incarnation of table.<name>, 0 if there is no such key
  manifest,   \* the incarnation of manifest.<name>, 0 if there is no such key
  files,      \* the files that manifest names
  objects,    \* the files the object store holds
  lastInc,    \* the last incarnation minted
  call,       \* the local variables of each call
  pending,    \* Catalog.pendingDrops: the name and the file of each drop
  recorded,   \* the number of drops recorded so far: their time
  sweep,      \* the local variables of FlushDroppedTableFiles
  raced,      \* the files that were registered in the window of its race
  overlapped, \* history: two calls have run at the same time
  unanswered, \* history: the listed names whose CREATE was told that the put
              \* of the list had failed
  faults, crashes, registers

vars == <<meta, record, manifest, files, objects, lastInc, call, pending,
          recorded, sweep, raced, overlapped, unanswered, faults, crashes,
          registers>>

keys == <<meta, record, manifest, files, unanswered>>
bounds == <<raced, faults, crashes, registers>>
queue == <<pending, recorded>>

Inc == 1..MaxInc

NoCall == [pc |-> "idle"]

NoSweep == [pc |-> "idle"]

Running(c) == call[c].pc \notin {"idle", "ok", "failed", "dead"}

Quiet == \A c \in Call : ~ Running(c)

Init ==
  /\ meta = {}
  /\ record = [n \in Name |-> 0]
  /\ manifest = [n \in Name |-> 0]
  /\ files = [n \in Name |-> {}]
  /\ objects = {}
  /\ lastInc = 0
  /\ call = [c \in Call |-> NoCall]
  /\ pending = <<>> /\ recorded = 0
  /\ sweep = NoSweep
  /\ raced = {} /\ overlapped = FALSE /\ unanswered = {}
  /\ faults = 0 /\ crashes = 0 /\ registers = 0

-----------------------------------------------------------------------------
\* The operations of the KV that the calls below are made of.

Goto(c, pc) == call' = [call EXCEPT ![c].pc = pc]

Fault == faults < MaxFaults /\ faults' = faults + 1

\* A call begins, alone or while others run (bound: after that, only the first
\* MaxOverlap calls begin).
Begins(c) ==
  /\ call[c] = NoCall
  /\ \A d \in 1..(c - 1) : call[d] # NoCall
  /\ overlapped => c <= MaxOverlap
  /\ overlapped' = (overlapped \/ ~ Quiet)

\* The call goes on after a write that was applied.
PutDone(c, next) == Goto(c, next) /\ UNCHANGED faults

\* The list is put; told is TRUE unless the put reports an error.
PutMeta(list, n, told) ==
  /\ meta' = list
  /\ unanswered' = list \cap IF told THEN unanswered ELSE unanswered \cup {n}

PutManifest(n, i, F) ==
  /\ manifest' = [manifest EXCEPT ![n] = i]
  /\ files' = [files EXCEPT ![n] = F]

\* A delete whose error is ignored: it takes effect, or it is a fault.
DeleteRecord(n) ==
  \/ record' = [record EXCEPT ![n] = 0] /\ UNCHANGED faults
  \/ Fault /\ UNCHANGED record

DeleteManifest(n) ==
  \/ PutManifest(n, 0, {}) /\ UNCHANGED faults
  \/ Fault /\ UNCHANGED <<manifest, files>>

-----------------------------------------------------------------------------
\* CreateTableWithFiles.

\* getMeta, the name is free, and the payloads are encoded.
createBegin(c, n) ==
  /\ Begins(c)
  /\ n \notin meta
  /\ lastInc < MaxInc
  /\ lastInc' = lastInc + 1
  /\ objects' = objects \cup {lastInc + 1}
  /\ call' = [call EXCEPT ![c] =
       [pc |-> "putManifest", kind |-> "create", name |-> n,
        seen |-> meta, inc |-> lastInc + 1]]
  /\ UNCHANGED <<keys, queue, sweep, bounds>>

\* The three puts, each of which may fail, applied or not.  A failed put of the
\* manifest is returned as it is, the later ones roll back the earlier ones.
createManifest(c) ==
  LET x == call[c] IN
  /\ x.pc = "putManifest"
  /\ \/ PutManifest(x.name, x.inc, {x.inc}) /\ PutDone(c, "putTable")
     \/ /\ Fault /\ Goto(c, "failed")
        /\ PutManifest(x.name, x.inc, {x.inc}) \/ UNCHANGED <<manifest, files>>
  /\ UNCHANGED <<meta, record, objects, lastInc, queue, sweep, raced,
                 overlapped, unanswered, crashes, registers>>

createTable(c) ==
  LET x == call[c] IN
  /\ x.pc = "putTable"
  /\ \/ /\ record' = [record EXCEPT ![x.name] = x.inc]
        /\ PutDone(c, "putMeta")
     \/ /\ Fault /\ Goto(c, "rollbackManifest")
        /\ record' \in {record, [record EXCEPT ![x.name] = x.inc]}
  /\ UNCHANGED <<meta, manifest, files, objects, lastInc, queue, sweep,
                 raced, overlapped, unanswered, crashes, registers>>

createMeta(c) ==
  LET x == call[c] IN
  /\ x.pc = "putMeta"
  /\ \/ PutMeta(x.seen \cup {x.name}, x.name, TRUE) /\ PutDone(c, "ok")
     \/ /\ Fault /\ Goto(c, "rollbackTable")
        /\ \/ PutMeta(x.seen \cup {x.name}, x.name, FALSE)
           \/ UNCHANGED <<meta, unanswered>>
  /\ UNCHANGED <<record, manifest, files, objects, lastInc, queue, sweep,
                 raced, overlapped, crashes, registers>>

\* rollback deletes what was written, in the reverse order.
rollbackTable(c) ==
  /\ call[c].pc = "rollbackTable"
  /\ DeleteRecord(call[c].name)
  /\ Goto(c, "rollbackManifest")
  /\ UNCHANGED <<meta, manifest, files, objects, lastInc, queue, sweep,
                 raced, overlapped, unanswered, crashes, registers>>

rollbackManifest(c) ==
  /\ call[c].pc = "rollbackManifest"
  /\ DeleteManifest(call[c].name)
  /\ Goto(c, "failed")
  /\ UNCHANGED <<meta, record, objects, lastInc, queue, sweep, raced,
                 overlapped, unanswered, crashes, registers>>

-----------------------------------------------------------------------------
\* DropTable.

\* getMeta, and the snapshot of the files that the manifest names.
dropBegin(c, n) ==
  /\ Begins(c)
  /\ n \in meta
  /\ call' = [call EXCEPT ![c] =
       [pc |-> "snapshot", kind |-> "drop", name |-> n, seen |-> meta,
        inc |-> 0, owned |-> {}]]
  /\ UNCHANGED <<keys, objects, lastInc, queue, sweep, bounds>>

\* Mutant: the files are queued as soon as they are known, not only in the end.
dropSnapshotQueues(c) ==
  LET x == call[c]
      owned == files[x.name] \cap {manifest[x.name]}
  IN
  /\ x.pc = "snapshot"
  /\ call' = [call EXCEPT ![c].pc = "unlist", ![c].inc = manifest[x.name],
       ![c].owned = owned]
  /\ IF owned = {} THEN UNCHANGED queue
     ELSE /\ recorded' = recorded + 1
          /\ pending' = Append(pending,
               [name |-> x.name, files |-> owned, at |-> recorded'])
  /\ UNCHANGED <<keys, objects, lastInc, sweep, overlapped, bounds>>

\* Only the file its own statement wrote is EngineWritten.
dropSnapshot(c) ==
  LET x == call[c] IN
  /\ x.pc = "snapshot"
  /\ call' = [call EXCEPT ![c].pc = "unlist", ![c].inc = manifest[x.name],
       ![c].owned = files[x.name] \cap {manifest[x.name]}]
  /\ UNCHANGED <<keys, objects, lastInc, queue, sweep, overlapped, bounds>>

\* Mutant: the keys of the table are deleted before the list is put.
dropMetaLast(c) ==
  LET x == call[c] IN
  /\ x.pc = "unlist"
  /\ record' = [record EXCEPT ![x.name] = 0]
  /\ PutManifest(x.name, 0, {})
  /\ \/ PutMeta(x.seen \ {x.name}, x.name, TRUE) /\ PutDone(c, "recheck")
     \/ Fault /\ Goto(c, "failed") /\ UNCHANGED <<meta, unanswered>>
  /\ UNCHANGED <<objects, lastInc, queue, sweep,
                 raced, overlapped, crashes, registers>>

\* The put that is the whole DROP.
dropMeta(c) ==
  LET x == call[c] IN
  /\ x.pc = "unlist"
  /\ \/ PutMeta(x.seen \ {x.name}, x.name, TRUE) /\ PutDone(c, "recheck")
     \/ /\ Fault /\ Goto(c, "failed")
        /\ \/ PutMeta(x.seen \ {x.name}, x.name, FALSE)
           \/ UNCHANGED <<meta, unanswered>>
  /\ UNCHANGED <<record, manifest, files, objects, lastInc, queue, sweep,
                 raced, overlapped, crashes, registers>>

\* meta is read again: a name that is back keeps its keys.  A read that fails
\* says nothing, and the keys are deleted.
dropRecheck(c) ==
  LET x == call[c] IN
  /\ x.pc = "recheck"
  /\ \/ Goto(c, IF x.name \in meta THEN "queue" ELSE "deleteTable")
        /\ UNCHANGED faults
     \/ Fault /\ Goto(c, "deleteTable")
  /\ UNCHANGED <<keys, objects, lastInc, queue, sweep, raced, overlapped, crashes, registers>>

dropTable(c) ==
  /\ call[c].pc = "deleteTable"
  /\ DeleteRecord(call[c].name)
  /\ Goto(c, "deleteManifest")
  /\ UNCHANGED <<meta, manifest, files, objects, lastInc, queue, sweep,
                 raced, overlapped, unanswered, crashes, registers>>

dropManifest(c) ==
  /\ call[c].pc = "deleteManifest"
  /\ DeleteManifest(call[c].name)
  /\ Goto(c, "queue")
  /\ UNCHANGED <<meta, record, objects, lastInc, queue, sweep, raced,
                 overlapped, unanswered, crashes, registers>>

\* Entries, of one file each, are evicted from the front while the new one does
\* not fit.
Evict(q) == IF Len(q) < MaxPending THEN q
            ELSE SubSeq(q, Len(q) + 2 - MaxPending, Len(q))

recordPendingDrop(c) ==
  LET x == call[c] IN
  /\ x.pc = "queue"
  /\ IF x.owned = {} THEN UNCHANGED queue
     ELSE /\ recorded' = recorded + 1
          /\ pending' = Append(Evict(pending),
               [name |-> x.name, files |-> x.owned, at |-> recorded'])
  /\ Goto(c, "ok")
  /\ UNCHANGED <<keys, objects, lastInc, sweep, overlapped, bounds>>

\* The process dies, with its calls, its queue of drops and its sweep.
Crash ==
  /\ crashes < MaxCrashes
  /\ ~ Quiet \/ pending # <<>> \/ sweep # NoSweep
  /\ crashes' = crashes + 1
  /\ call' = [c \in Call |-> IF Running(c) THEN [call[c] EXCEPT !.pc = "dead"]
                                           ELSE call[c]]
  /\ pending' = <<>>
  /\ sweep' = NoSweep
  /\ UNCHANGED <<keys, objects, lastInc, recorded, raced, overlapped, faults, registers>>

-----------------------------------------------------------------------------
\* FlushDroppedTableFiles.

Entry == Head(sweep.due)

\* Names that the first reading of the list did not show, and a later one did.
Reborn == sweep.reborn
            \cup (IF sweep.again THEN sweep.shown \ sweep.names ELSE {})

\* Between its second reading of the table list and its last delete, the sweep
\* may delete f whatever is registered meanwhile: the race its comment names.
Raced(f) ==
  /\ sweep.pc \in {"read", "delete"} /\ sweep.again
  /\ f \in Entry.files
  /\ Entry.name \notin Reborn

\* AddFiles registers an object of the store, whoever wrote it, for a table that
\* is listed.
AddFiles(n, f) ==
  /\ registers < MaxRegister
  /\ n \in meta /\ manifest[n] # 0
  /\ f \in objects \ files[n]
  /\ raced' = IF Raced(f) THEN raced \cup {f} ELSE raced
  /\ files' = [files EXCEPT ![n] = @ \cup {f}]
  /\ registers' = registers + 1
  /\ UNCHANGED <<meta, record, manifest, objects, lastInc, call, queue, sweep,
                 faults, overlapped, unanswered, crashes>>

\* The entries of q that were recorded at one of times, in the order of q.
Recorded(q, times) ==
  LET kept[i \in 0..Len(q)] ==
        IF i = 0 THEN <<>>
        ELSE IF q[i].at \in times THEN Append(kept[i - 1], q[i]) ELSE kept[i - 1]
  IN kept[Len(q)]

\* The entries recorded up to t are due, and taken from the queue.
flushBegin(t) ==
  LET due == Recorded(pending, 1..t) IN
  /\ sweep = NoSweep
  /\ due # <<>>
  /\ sweep' = [pc |-> "list", due |-> due, again |-> FALSE,
               names |-> {}, reborn |-> {}, live |-> {},
               shown |-> {}, found |-> {}, toRead |-> {}]
  /\ pending' = Recorded(pending, (t + 1)..recorded)
  /\ UNCHANGED <<keys, objects, lastInc, call, recorded, overlapped, bounds>>

\* liveCatalogState: the table list, and then one manifest after the other.
flushList ==
  /\ sweep.pc = "list"
  /\ sweep' = [sweep EXCEPT !.pc = "read", !.shown = meta, !.toRead = meta]
  /\ UNCHANGED <<keys, objects, lastInc, call, queue, overlapped, bounds>>

flushRead(n) ==
  /\ sweep.pc = "read"
  /\ n \in sweep.toRead /\ manifest[n] # 0
  /\ sweep' = [sweep EXCEPT !.toRead = @ \ {n}, !.found = @ \cup files[n]]
  /\ UNCHANGED <<keys, objects, lastInc, call, queue, overlapped, bounds>>

\* A reading that succeeded counts for the rest of the sweep.
Observed == [sweep EXCEPT !.live = @ \cup sweep.found, !.reborn = Reborn,
                          !.names = IF sweep.again THEN @ ELSE sweep.shown,
                          !.again = TRUE, !.found = {}, !.shown = {}]

\* The sweep, whose state is s, is done with the entry at hand.  What a reading
\* that failed has found is forgotten.
NextEntry(s) == IF Len(s.due) = 1 THEN NoSweep
                ELSE [s EXCEPT !.pc = "list", !.due = Tail(s.due),
                               !.found = {}, !.shown = {}, !.toRead = {}]

\* The entries of q, each put to the front in its turn.
Reversed(q) == [k \in 1..Len(q) |-> q[Len(q) + 1 - k]]

\* A listed table's manifest is missing, or could not be read.  The first
\* reading gives up all entries, a later one the entry at hand.  Each goes to
\* the front of the queue (requeuePendingDrop): several end up in reverse.
flushError(n) ==
  /\ sweep.pc = "read"
  /\ n \in sweep.toRead
  /\ \/ manifest[n] = 0 /\ UNCHANGED faults
     \/ Fault
  /\ IF sweep.again
     THEN pending' = <<Entry>> \o pending /\ sweep' = NextEntry(sweep)
     ELSE pending' = Reversed(sweep.due) \o pending /\ sweep' = NoSweep
  /\ UNCHANGED <<keys, objects, lastInc, call, recorded, raced, overlapped, crashes, registers>>

\* Mutant: the first observation is used for every entry.
flushObservedOnce ==
  /\ sweep.pc = "read" /\ sweep.toRead = {}
  /\ sweep' = IF Entry.name \in Reborn THEN NextEntry(Observed)
              ELSE [Observed EXCEPT !.pc = "delete"]
  /\ UNCHANGED <<keys, objects, lastInc, call, queue, overlapped, bounds>>

\* The manifests are read.  After the first time they are read again for the
\* entry at hand, which is then skipped if its name was created meanwhile.
flushObserved ==
  /\ sweep.pc = "read" /\ sweep.toRead = {}
  /\ sweep' = IF ~ sweep.again THEN [Observed EXCEPT !.pc = "list"]
              ELSE IF Entry.name \in Reborn THEN NextEntry(Observed)
              ELSE [Observed EXCEPT !.pc = "delete"]
  /\ UNCHANGED <<keys, objects, lastInc, call, queue, overlapped, bounds>>

\* Each file is deleted unless it is live; a failed delete is not repeated.
flushDelete ==
  /\ sweep.pc = "delete"
  /\ \/ objects' = objects \ (Entry.files \ sweep.live) /\ UNCHANGED faults
     \/ Fault /\ UNCHANGED objects
  /\ sweep' = NextEntry(sweep)
  /\ UNCHANGED <<keys, lastInc, call, queue, raced, overlapped, crashes, registers>>

-----------------------------------------------------------------------------

CallStep(c) ==
  \/ createManifest(c) \/ createTable(c) \/ createMeta(c)
  \/ rollbackTable(c) \/ rollbackManifest(c)
  \/ dropSnapshot(c) \/ dropMeta(c) \/ dropRecheck(c)
  \/ dropTable(c) \/ dropManifest(c) \/ recordPendingDrop(c)

SweepStep ==
  \/ \E t \in 1..recorded : flushBegin(t)
  \/ flushList \/ flushObserved \/ flushDelete
  \/ \E n \in Name : flushRead(n) \/ flushError(n)

Next ==
  \/ \E c \in Call, n \in Name : createBegin(c, n) \/ dropBegin(c, n)
  \/ \E c \in Call : CallStep(c)
  \/ SweepStep
  \/ \E n \in Name, f \in Inc : AddFiles(n, f)
  \/ Crash

Spec == Init /\ [][Next]_vars

\* A call that was begun goes on, and the background sweep comes round.
Fairness == /\ \A c \in Call : WF_vars(CallStep(c))
            /\ WF_vars(SweepStep)

LiveSpec == Spec /\ Fairness

-----------------------------------------------------------------------------
\* Properties.

\* THREE KEYS, ONE COMMIT, OR NONE: while no two calls have overlapped, a listed
\* table has its record and its manifest, and both are of the same incarnation,
\* whatever puts failed, applied or not, and wherever the process died.  The one
\* exception is a name that was listed by a put which reported an error: the roll
\* back then takes the keys of a listed table.
ListedIsWhole ==
  overlapped \/ \A n \in meta \ unanswered : record[n] # 0 /\ manifest[n] = record[n]

\* The reclaim of dropped tables spares what a live manifest names, while no two
\* calls have overlapped: a file registered again before the sweep reads the
\* list for its entry, or into a table whose name came back meanwhile, keeps its
\* object.  Only registrations in the window of the race that the sweep's
\* comment admits may lose it.
LiveFilesStay == overlapped \/ \A n \in meta : files[n] \subseteq objects \cup raced

\* A DROP that went through found f among the files of the table.
WasDropped(f) ==
  \E c \in Call : call[c].pc = "ok" /\ call[c].kind = "drop" /\ f \in call[c].owned

\* Whatever calls overlap, fail or die, an object leaves the store only for a DROP
\* that went through: one whose put of the list failed, that is still running, or that
\* died on the way costs no table its files, and neither does the roll back of a CREATE.
OnlyDroppedGo == \A f \in 1..lastInc : f \in objects \/ WasDropped(f)

\* Every dropped table's entry is decided in the end, unless calls overlap or a
\* CREATE rolled back a name whose put of the list was applied: no other failed
\* put, delete or read leaves a listed table that the sweep's readings can never
\* get past.
EveryDropIsDecided ==
  \A i \in Inc :
    LET Waiting == \/ \E k \in 1..Len(pending) : i \in pending[k].files
                   \/ sweep.pc # "idle"
                      /\ \E k \in 1..Len(sweep.due) : i \in sweep.due[k].files
    IN Waiting ~> ~ Waiting \/ overlapped \/ unanswered # {}

=============================================================================

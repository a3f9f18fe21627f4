---------------------------- MODULE TableManifest ----------------------------
(***************************************************************************)
(* One table's manifest and everything that commits to it: INSERT, DELETE, *)
(* UPDATE and MERGE statements, compaction, table rewrite and delete-marker *)
(* GC, each running in a process of its own against the shared catalog KV  *)
(* and the shared object store.                                            *)
(*                                                                         *)
(* A table is merge-on-read: a row exists if a file of the manifest holds  *)
(* it and no delete marker names that (file, row).  Every writer reads the *)
(* manifest, reads files, uploads an object, and publishes its change with *)
(* a compare-and-swap on the manifest key's revision, validated against    *)
(* the manifest it is about to replace.                                    *)
(*                                                                         *)
(* Abstractions.  The table has one partition.  A statement writes at most *)
(* one object: an UPDATE or a MERGE that writes several commits them in    *)
(* one update, and an INSERT over several partitions is several INSERTs,   *)
(* since each partition's file has a commit of its own.  The position      *)
(* of a row in a file is the row version itself: an object never holds two *)
(* rows of one root unless SingleCopy is already broken.  What a predicate *)
(* matches is any set of the rows it was shown.  The grace period before a *)
(* deferred delete is any delay.  The table is neither dropped nor         *)
(* recreated, so the incarnation test of the commits always passes and the *)
(* manifest key always exists.                                             *)
(*                                                                         *)
(* A statement's process that crashes is a statement that fails with       *)
(* nobody to read the error.  An update whose client gave up before it was *)
(* applied is the update applied late with its reply lost.  GCDeleteMarkers *)
(* also drops markers of files the manifest does not hold: MarkersApply    *)
(* says there are none, so that it rewrites files is all it does.          *)
(***************************************************************************)
EXTENDS Naturals

CONSTANTS
  Stmt,          \* DML statements, each executed once by some client
  Compactor,     \* compactors; two of them are two processes, or two groups
                 \* that one RewriteTable planned from one manifest read
  Crashing,      \* the compactors whose process may crash and restart
  File,          \* object paths
  Loaded,        \* roots of the rows the table holds to begin with
  Kind,          \* the kind of each statement
  Seed,          \* a function from the paths of the initial files to the
                 \* roots each of them holds
  MaxAttempts,   \* dmlCommitAttempts (5 in the code)
  MaxRetries,    \* maxRetries of the commit loops (10 in the code)
  MaxRounds      \* bound: groups one compactor merges

Writer == Stmt \cup Compactor

Root == Loaded \cup Stmt

Row == Root \X Nat

\* A (file, row) position: what a delete marker names.
Place == File \X Row

ASSUME SeedAssumption ==
  /\ DOMAIN Seed \subseteq File
  /\ \A f \in DOMAIN Seed : Seed[f] \subseteq Loaded
  /\ \A f, g \in DOMAIN Seed : f # g => Seed[f] \cap Seed[g] = {}
  /\ \A x \in Loaded : \E f \in DOMAIN Seed : x \in Seed[f]

Kinds == {"insert", "delete", "update", "merge"}

ASSUME ActorAssumption ==
  /\ Kind \in [Stmt -> Kinds]
  /\ Stmt \cap Compactor = {}
  /\ Stmt \cap Loaded = {}
  /\ Crashing \subseteq Compactor

ASSUME BoundAssumption ==
  /\ MaxAttempts \in Nat \ {0}
  /\ MaxRetries \in Nat \ {0}
  /\ MaxRounds \in Nat

VARIABLES
  files,     \* manifest.Partitions[].Files
  marks,     \* manifest.DeleteMarkers, as a set of places
  rev,       \* the KV revision of the manifest key
  stored,    \* what was written at each path, as a set of places
  minted,    \* paths some writer has minted
  objects,   \* paths the object store holds now
  pc,        \* where each writer is
  op,        \* the local variables of the call each writer is in
  tries,     \* statement: redos so far; compactor: groups so far
  pending,   \* pendingDeletes of each compactor: held in memory only
  landed     \* history: statements whose change is in the manifest

vars == <<files, marks, rev, stored, minted, objects,
          pc, op, tries, pending, landed>>

manifestVars == <<files, marks, rev, landed>>
storeVars == <<stored, minted, objects>>

\* reads: the files to be read.  marks: for a statement, the places its delete
\* markers name; for a compaction, the markers its output applies.  adds: the
\* rows of the object to be written.  out: the path of that object, once
\* written.  base: the manifest revision read last.  retry: CAS retries.
Op == [reads : SUBSET File, marks : SUBSET Place, adds : SUBSET Row,
       out : SUBSET File, base : Nat, retry : Nat]

NoOp == [reads |-> {}, marks |-> {}, adds |-> {}, out |-> {},
         base |-> 0, retry |-> 0]

\* Outcomes a client sees.  "unknown" is an error from the KV update: the
\* write may have been applied.
Reported == {"ok", "noop", "refused", "unknown"}

\* Where the call has returned and its local variables are gone.
Returned == {"idle"} \cup Reported

PC == {"scan", "get", "update", "swapped", "conflict"} \cup Returned

-----------------------------------------------------------------------------

\* The rows of the files in F that no marker names: what DeletedRowsByFile and
\* buildDeleteSet leave of them.
LivePlaces(F) == {p \in stored : p[1] \in F} \ marks

Visible == {p[2] : p \in LivePlaces(files)}

MarksOf(F) == {p \in marks : p[1] \in F}

Successor(r) == <<r[1], r[2] + 1>>

SeedRow == Loaded \X {0}

Init ==
  /\ files = DOMAIN Seed
  /\ marks = {}
  /\ rev = 1
  /\ stored = {p \in File \X SeedRow :
                 p[1] \in DOMAIN Seed /\ p[2][1] \in Seed[p[1]]}
  /\ minted = DOMAIN Seed
  /\ objects = DOMAIN Seed
  /\ pc = [w \in Writer |-> "idle"]
  /\ op = [w \in Writer |-> NoOp]
  /\ tries = [w \in Writer |-> 0]
  /\ pending = [c \in Compactor |-> {}]
  /\ landed = {}

\* Writer w goes on at label with local variables o.
Goto(w, label, o) ==
  /\ pc' = [pc EXCEPT ![w] = label]
  /\ op' = [op EXCEPT ![w] = IF label \in Returned THEN NoOp ELSE o]

\* The writer reads the manifest and settles what it is going to do with it.
Begin(w, reads, markers, adds) ==
  /\ pc[w] = "idle"
  /\ Goto(w, "scan", [reads |-> reads, marks |-> markers, adds |-> adds,
                      out |-> {}, base |-> rev, retry |-> 0])
  /\ UNCHANGED pending
  /\ UNCHANGED manifestVars
  /\ UNCHANGED storeVars

-----------------------------------------------------------------------------
(* Statements *)

\* The places upd are to be replaced, the places del removed, the rows ins
\* added.  A redo starts here again with the manifest as it is then.
BeginStatement(s, reads, upd, del, ins) ==
  /\ upd \cap del = {}
  /\ Begin(s, reads, upd \cup del, {Successor(p[2]) : p \in upd} \cup ins)
  /\ UNCHANGED tries

\* The file of an INSERT is committed by addFiles, whose loop is the one below without
\* markers: a statement that names no place meets no conflict.
executeInsert(s) ==
  /\ Kind[s] = "insert"
  /\ BeginStatement(s, {}, {}, {}, {<<s, 0>>})

deleteOnce(s) ==
  /\ Kind[s] = "delete"
  /\ \E del \in SUBSET LivePlaces(files) :
       BeginStatement(s, files, {}, del, {})

\* Mutant: the scan also matches rows that are already marked.
updateOnceUnfiltered(s) ==
  /\ Kind[s] = "update"
  /\ \E upd \in SUBSET {p \in stored : p[1] \in files} :
       BeginStatement(s, files, upd, {}, {})

updateOnce(s) ==
  /\ Kind[s] = "update"
  /\ \E upd \in SUBSET LivePlaces(files) :
       BeginStatement(s, files, upd, {}, {})

mergeOnce(s) ==
  /\ Kind[s] = "merge"
  /\ \E upd \in SUBSET LivePlaces(files), del \in SUBSET LivePlaces(files),
        ins \in SUBSET {<<s, 0>>} :
       BeginStatement(s, files, upd, del, ins)

\* A path no writer has minted: a full UUIDv7.
FreshPath == CHOOSE f \in File : f \notin minted

\* Upload the planned rows as one new object, or nothing if there are none,
\* and go on at label.
Upload(w, label) ==
  IF op[w].adds = {}
    THEN /\ Goto(w, label, op[w])
         /\ UNCHANGED storeVars
    ELSE /\ \E f \in File : f \notin minted
         /\ minted' = minted \cup {FreshPath}
         /\ objects' = objects \cup {FreshPath}
         /\ stored' = stored \cup {FreshPath} \X op[w].adds
         /\ Goto(w, label, [op[w] EXCEPT !.out = {FreshPath}])

\* Scan the files of the manifest that was read and flush the replacement
\* rows.  A statement that matched nothing is finished and commits nothing.
scanAndFlush(s) ==
  /\ pc[s] = "scan"
  /\ op[s].reads \subseteq objects
  /\ Upload(s, IF op[s].marks = {} /\ op[s].adds = {} THEN "noop" ELSE "get")
  /\ UNCHANGED <<tries, pending>>
  /\ UNCHANGED manifestVars

\* An error before the commit's Update: a file to be read has been retired, the
\* upload fails, the manifest cannot be read.  What was uploaded is kept.
Fails(w, label) ==
  /\ pc[w] \in {"scan", "get"}
  /\ Goto(w, label, op[w])
  /\ UNCHANGED <<tries, pending>>
  /\ UNCHANGED manifestVars
  /\ UNCHANGED storeVars

\* Mutant: the rows a marker names are not compared, only its file.
DMLConflictTargetOnly(o) == \E m \in o.marks : m[1] \notin files

\* ErrDMLTargetMoved, ErrDMLRowSuperseded.
DMLConflict(o) ==
  \/ \E m \in o.marks : m[1] \notin files
  \/ o.marks \cap marks # {}

\* mergeNewFileEntries refuses a path the manifest already holds.
Collides(o) == o.out \cap files # {}

\* Mutant: a conflict goes round the CAS loop instead of redoing the statement.
commitGetRetries(s) ==
  /\ pc[s] = "get"
  /\ IF DMLConflict(op[s])
       THEN Goto(s, "get", op[s])
       ELSE Goto(s, IF Collides(op[s]) THEN "refused" ELSE "update",
                 [op[s] EXCEPT !.base = rev])
  /\ UNCHANGED <<tries, pending>>
  /\ UNCHANGED manifestVars
  /\ UNCHANGED storeVars

\* The top of commitFilesAndMarkers's loop: read the manifest and validate.  A
\* conflict redoes the statement, up to MaxAttempts times.
commitGet(s) ==
  /\ pc[s] = "get"
  /\ IF DMLConflict(op[s])
       THEN /\ tries' = [tries EXCEPT ![s] = @ + 1]
            /\ Goto(s, IF tries[s] + 1 < MaxAttempts THEN "idle" ELSE "refused", op[s])
       ELSE /\ Goto(s, IF Collides(op[s]) THEN "refused" ELSE "update",
                    [op[s] EXCEPT !.base = rev])
            /\ UNCHANGED tries
  /\ UNCHANGED pending
  /\ UNCHANGED manifestVars
  /\ UNCHANGED storeVars

\* The conditional write is applied, and the statement goes on at one of labels.
Land(s, labels) ==
  /\ pc[s] = "update"
  /\ op[s].base = rev
  /\ files' = files \cup op[s].out
  /\ marks' = marks \cup op[s].marks
  /\ rev' = rev + 1
  /\ landed' = landed \cup {s}
  /\ \E label \in labels : Goto(s, label, NoOp)
  /\ UNCHANGED <<tries, pending>>
  /\ UNCHANGED storeVars

\* Mutant: a lost reply is reported as a lost race.
commitUpdateRefused(s) == Land(s, {"ok", "refused"})

\* The update succeeds.  The reply may be lost, which the statement reports as an
\* error: "unknown".
commitUpdate(s) == Land(s, {"ok", "unknown"})

\* ErrRevisionMismatch: another writer's update came first.
Mismatch(w, giveUp) ==
  /\ pc[w] = "update"
  /\ op[w].base # rev
  /\ Goto(w, IF op[w].retry + 1 < MaxRetries THEN "get" ELSE giveUp,
          [op[w] EXCEPT !.retry = @ + 1])
  /\ UNCHANGED <<tries, pending>>
  /\ UNCHANGED manifestVars
  /\ UNCHANGED storeVars

\* The update fails without being applied.
UpdateError(w, giveUp) ==
  /\ pc[w] = "update"
  /\ Goto(w, giveUp, NoOp)
  /\ UNCHANGED <<tries, pending>>
  /\ UNCHANGED manifestVars
  /\ UNCHANGED storeVars

-----------------------------------------------------------------------------
(* Compaction, rewrite and delete-marker GC *)

\* A group of files to be replaced by one file of their live rows.
BeginGroup(c, inputs) ==
  /\ tries[c] < MaxRounds
  /\ tries' = [tries EXCEPT ![c] = @ + 1]
  /\ Begin(c, inputs, MarksOf(inputs), {p[2] : p \in LivePlaces(inputs)})

\* At least two files of the partition.
CompactTable(c) ==
  \E inputs \in SUBSET files :
    /\ \E f, g \in inputs : f # g
    /\ BeginGroup(c, inputs)

\* Any group of files, one file included.
RewriteTable(c) ==
  \E inputs \in SUBSET files \ {{}} : BeginGroup(c, inputs)

\* Delete-marker GC: one file that has markers.
ForceCompactFile(c) ==
  \E f \in files :
    /\ MarksOf({f}) # {}
    /\ BeginGroup(c, {f})

mergeAndWriteFiles(c) ==
  /\ pc[c] = "scan"
  /\ op[c].reads \subseteq objects
  /\ Upload(c, "get")
  /\ UNCHANGED <<tries, pending>>
  /\ UNCHANGED manifestVars

\* Mutant: markers that arrived during the merge are not noticed.
CompactionConflictInputsOnly(o) == ~ (o.reads \subseteq files)

\* Mutant: the inputs may have left the manifest.
CompactionConflictMarkersOnly(o) == MarksOf(o.reads) # o.marks

\* ErrCompactionInputMoved, ErrCompactionDeletesAdvanced.
CompactionConflict(o) ==
  \/ ~ (o.reads \subseteq files)
  \/ MarksOf(o.reads) # o.marks

\* The top of CommitCompaction's loop.
compactionGet(c) ==
  /\ pc[c] = "get"
  /\ IF CompactionConflict(op[c])
       THEN Goto(c, "conflict", op[c])
       ELSE Goto(c, IF Collides(op[c]) THEN "idle" ELSE "update",
                 [op[c] EXCEPT !.base = rev])
  /\ UNCHANGED <<tries, pending>>
  /\ UNCHANGED manifestVars
  /\ UNCHANGED storeVars

\* The conditional write is applied: inputs out, replacement in, and of the
\* markers, kept.
Swap(c, kept, labels) ==
  /\ pc[c] = "update"
  /\ op[c].base = rev
  /\ files' = (files \ op[c].reads) \cup op[c].out
  /\ marks' = kept
  /\ rev' = rev + 1
  /\ UNCHANGED landed
  /\ \E label \in labels : Goto(c, label, op[c])
  /\ UNCHANGED <<tries, pending>>
  /\ UNCHANGED storeVars

\* Mutant: the markers of the inputs stay in the manifest.
compactionUpdateKeepsMarkers(c) == Swap(c, marks, {"swapped", "idle"})

\* Mutant: a lost reply is taken for a refusal, and the output discarded.
compactionUpdateDiscards(c) ==
  Swap(c, marks \ MarksOf(op[c].reads), {"swapped", "conflict"})

\* The markers of the inputs go with them.  If the reply is lost the compactor
\* keeps every byte and queues nothing.
compactionUpdate(c) ==
  Swap(c, marks \ MarksOf(op[c].reads), {"swapped", "idle"})

\* The store's Delete may fail, which leaves an orphan.
discardUnpublishedOutput(c) ==
  /\ pc[c] = "conflict"
  /\ objects' \in {objects, objects \ op[c].out}
  /\ Goto(c, "idle", NoOp)
  /\ UNCHANGED <<stored, minted, tries, pending>>
  /\ UNCHANGED manifestVars

\* Mutant: one of the inputs is not queued.
deleteFromStoreOne(c) ==
  /\ pc[c] = "swapped"
  /\ \E f \in op[c].reads : pending' = [pending EXCEPT ![c] = @ \cup {f}]
  /\ Goto(c, "idle", NoOp)
  /\ UNCHANGED tries
  /\ UNCHANGED manifestVars
  /\ UNCHANGED storeVars

deleteFromStore(c) ==
  /\ pc[c] = "swapped"
  /\ pending' = [pending EXCEPT ![c] = @ \cup op[c].reads]
  /\ Goto(c, "idle", NoOp)
  /\ UNCHANGED tries
  /\ UNCHANGED manifestVars
  /\ UNCHANGED storeVars

\* RetireObjects decides one due path: a path the manifest names is dropped from
\* the queue, any other is deleted.  A path it can prove nothing about, or cannot
\* delete, goes back on the queue, which changes nothing.
FlushDeferredDeletes(c, f) ==
  /\ f \in pending[c]
  /\ pending' = [pending EXCEPT ![c] = @ \ {f}]
  /\ objects' = IF f \in files THEN objects ELSE objects \ {f}
  /\ UNCHANGED <<stored, minted, pc, op, tries>>
  /\ UNCHANGED manifestVars

\* The compactor's process dies, at any point of a call or between two, and is
\* restarted: the call and the queue of deferred deletes are gone.
Crash(c) ==
  /\ c \in Crashing
  /\ Goto(c, "idle", NoOp)
  /\ pending' = [pending EXCEPT ![c] = {}]
  /\ UNCHANGED tries
  /\ UNCHANGED manifestVars
  /\ UNCHANGED storeVars

-----------------------------------------------------------------------------

StatementBegins(s) ==
  \/ executeInsert(s)
  \/ deleteOnce(s)
  \/ updateOnce(s)
  \/ mergeOnce(s)

StatementStep(s) ==
  \/ scanAndFlush(s)
  \/ Fails(s, "refused")
  \/ commitGet(s)
  \/ commitUpdate(s)
  \/ Mismatch(s, "refused")
  \/ UpdateError(s, "unknown")

GroupBegins(c) ==
  \/ CompactTable(c)
  \/ RewriteTable(c)
  \/ ForceCompactFile(c)

CompactorStep(c) ==
  \/ mergeAndWriteFiles(c)
  \/ Fails(c, "idle")
  \/ compactionGet(c)
  \/ compactionUpdate(c)
  \/ Mismatch(c, "idle")
  \/ UpdateError(c, "idle")
  \/ discardUnpublishedOutput(c)
  \/ deleteFromStore(c)

Next ==
  \/ \E s \in Stmt : StatementBegins(s) \/ StatementStep(s)
  \/ \E c \in Compactor : GroupBegins(c) \/ CompactorStep(c) \/ Crash(c)
  \/ \E c \in Compactor, f \in File : FlushDeferredDeletes(c, f)

Spec == Init /\ [][Next]_vars

-----------------------------------------------------------------------------
(* Properties *)

\* The variables keep the shapes of PartitionManifest, of the calls' local
\* variables and of the compactors' queues.
TypeOK ==
  /\ files \subseteq File
  /\ marks \subseteq Place
  /\ rev \in Nat
  /\ stored \subseteq Place
  /\ minted \subseteq File
  /\ objects \subseteq File
  /\ pc \in [Writer -> PC]
  /\ op \in [Writer -> Op]
  /\ tries \in [Writer -> Nat]
  /\ pending \in [Compactor -> SUBSET File]
  /\ landed \subseteq Stmt

\* No row is in the table twice.  Two UPDATEs of one row, a redone UPDATE, two
\* compactors over the same files, or a GC rewrite beside a compaction must
\* not leave two live copies of it, whether the copies are equal or not.
SingleCopy ==
  \A p, q \in LivePlaces(files) : p[2][1] = q[2][1] => p = q

\* The manifest never names an object whose bytes are gone, whatever is
\* discarded after a conflict or retired after the grace period.
NoDanglingFile == files \subseteq objects

\* Every delete marker names a row of a file of the manifest, so a reader
\* applies it: a marker left under a path that compaction removed would let
\* the replacement carry the deleted row for good.
MarkersApply == marks \subseteq {p \in stored : p[1] \in files}

\* The outcome a client is told is what happened to the table: a success has
\* landed, and a statement that reported 40001, an error before its update, or
\* no rows, has not and may be run again.
ReportsAreTrue ==
  \A s \in Stmt :
    /\ pc[s] = "ok" => s \in landed
    /\ pc[s] \in {"noop", "refused"} => s \notin landed

\* A conflict is refused only if another writer has changed the manifest since
\* this one read it: no marker is minted for a row the manifest that was read
\* already marked, and no group is planned from files it did not hold.
ConflictsAreReal ==
  \A w \in Writer :
    pc[w] \in {"scan", "get"} /\ op[w].base = rev =>
      IF w \in Stmt THEN ~ DMLConflict(op[w]) ELSE ~ CompactionConflict(op[w])

\* The table as its clients see it.
Table == INSTANCE TableRows WITH rows <- Visible, done <- landed

\* Every step of every writer is one whole statement taking effect, once, or
\* changes no row: the manifest protocol implements TableRows.
ImplementsTable == Table!Spec

\* A row that a committed DELETE or MERGE removed never comes back, by a redo, a
\* lost reply or a late commit of another statement.
GoneStaysGone == Table!GoneStaysGone

-----------------------------------------------------------------------------
(* Fairness and liveness *)

\* A step a running statement is bound to take: reading a retired file fails, and
\* no other failure is promised.
StatementRuns(s) ==
  \/ scanAndFlush(s)
  \/ pc[s] = "scan" /\ ~ (op[s].reads \subseteq objects) /\ Fails(s, "refused")
  \/ commitGet(s)
  \/ commitUpdate(s)
  \/ Mismatch(s, "refused")

\* A statement runs on until it returns, and one that is to be redone is redone.
\* A compactor that has swapped goes on to queue its inputs, and the background
\* sweep keeps flushing the queue.  Nobody is obliged to start a statement or a
\* compaction, or to finish one.
Advance ==
  \/ \E s \in Stmt : StatementRuns(s) \/ (tries[s] > 0 /\ StatementBegins(s))
  \/ \E c \in Compactor : deleteFromStore(c)
  \/ \E c \in Compactor, f \in File : FlushDeferredDeletes(c, f)

\* Weak fairness of the whole is as good as weak fairness of each step: attempts
\* and queued files run out, so no step can be put off for ever.
Fairness == WF_vars(Advance)

FairSpec == Spec /\ Fairness

\* A statement that has started reports an outcome: a lost race is redone or
\* given up, never waited on.
StatementsReport ==
  \A s \in Stmt : pc[s] = "scan" ~> pc[s] \in Reported

\* The bytes of every file that a compactor knows it has replaced leave the
\* store in the end, whoever else reads, commits or sweeps meanwhile, unless a
\* crash of that compactor loses the queue.
InputsReclaimed ==
  \A c \in Compactor \ Crashing, f \in File :
    pc[c] = "swapped" /\ f \in op[c].reads ~> f \notin objects

\* The object that a refused statement uploaded leaves the store in the end, as
\* the comment on CommitDML has it ("remain unreferenced until orphan reclaim").
\* It does not: nothing in the program reclaims it.
RefusedOutputsReclaimed ==
  \A s \in Stmt, f \in File :
    pc[s] = "get" /\ f \in op[s].out /\ DMLConflict(op[s]) ~> f \notin objects

-----------------------------------------------------------------------------
(* The inductive invariant *)

Active == {"scan", "get", "update"}

\* The writers that may have an output which is in no manifest yet.
InFlight == {w \in Writer : pc[w] \in {"scan", "get", "update", "conflict"}}

\* Every path in use has been minted, so a fresh path is new to everybody.
PathsMinted ==
  /\ files \cup objects \subseteq minted
  /\ \A c \in Compactor : pending[c] \subseteq minted
  /\ \A p \in stored : p[1] \in minted
  /\ \A w \in Writer : op[w].reads \cup op[w].out \subseteq minted

\* What is queued for deletion, or about to be, has left the manifest for good.
RemovedStaysRemoved ==
  \A c \in Compactor :
    /\ pending[c] \cap files = {}
    /\ pc[c] = "swapped" => op[c].reads \cap files = {}

\* An unpublished output is its writer's alone, and its bytes are there until
\* the writer itself discards them.
OutputsPrivate ==
  \A w \in InFlight :
    /\ op[w].out \cap files = {}
    /\ \A c \in Compactor : op[w].out \cap pending[c] = {}
    /\ \A v \in Writer : op[w].out \cap op[v].reads = {}
    /\ \A v \in InFlight : v # w => op[w].out \cap op[v].out = {}
    /\ pc[w] # "conflict" => op[w].out \subseteq objects
    /\ pc[w] = "scan" => op[w].out = {}

\* The object a writer uploaded holds the rows it planned.
OutputsHoldPlan ==
  \A w \in Writer :
    pc[w] \in {"get", "update"} =>
      /\ {p \in stored : p[1] \in op[w].out} = op[w].out \X op[w].adds
      /\ op[w].adds # {} => \E f \in File : op[w].out = {f}

\* A statement marks distinct rows, and adds their successors and its own row.
StatementPlans ==
  \A s \in Stmt :
    /\ pc[s] \notin {"ok", "unknown"} => s \notin landed
    /\ pc[s] = "ok" => s \in landed
    /\ pc[s] \in Active =>
         /\ op[s].marks \subseteq stored
         /\ \A p, q \in op[s].marks : p[2][1] = q[2][1] => p = q
         /\ \A p \in op[s].marks : p[2][1] \in Loaded \cup landed
         /\ \A r \in op[s].adds :
              r = <<s, 0>> \/ \E p \in op[s].marks : r = Successor(p[2])

\* A compactor's output is the rows of its inputs less the markers it applied.
CompactionPlans ==
  \A c \in Compactor :
    pc[c] \in Active =>
      /\ op[c].marks \subseteq {p \in stored : p[1] \in op[c].reads}
      /\ op[c].adds = {p[2] : p \in {q \in stored : q[1] \in op[c].reads} \ op[c].marks}

\* A writer whose revision is still the manifest's still passes the validation
\* of its commit.
ValidatedAtBase ==
  \A w \in Writer :
    /\ op[w].base <= rev
    /\ pc[w] \in Active /\ op[w].base = rev =>
         IF w \in Stmt THEN ~ DMLConflict(op[w]) ELSE ~ CompactionConflict(op[w])

\* A row in the table was loaded, or the statement that inserts it has landed.
RootsAccounted == \A p \in LivePlaces(files) : p[2][1] \in Loaded \cup landed

IInv ==
  /\ TypeOK
  /\ PathsMinted
  /\ SingleCopy
  /\ NoDanglingFile
  /\ MarkersApply
  /\ RemovedStaysRemoved
  /\ OutputsPrivate
  /\ OutputsHoldPlan
  /\ StatementPlans
  /\ CompactionPlans
  /\ ValidatedAtBase
  /\ RootsAccounted
=============================================================================

--------------------------- MODULE CatalogSnapshot ----------------------------
(***************************************************************************)
(* Snapshots of the catalog's KV bucket in the object store, their         *)
(* retention, and the restore a coordinator may do before it serves.       *)
(*                                                                         *)
(* A value stands for its SHA-256 as well.  The clock counts the seconds   *)
(* that name snapshots: two that begin in one second write under one       *)
(* prefix.  None takes as long as MinAge (24 hours).  The list of tables   *)
(* is changed in one step; what overlapping CREATEs and DROPs do to it is  *)
(* the subject of TableLifecycle.                                          *)
(***************************************************************************)
EXTENDS Naturals, FiniteSets

CONSTANTS
  Table, None,
  Keep, MinAge,     \* the retention: newest snapshots, and seconds
  MaxTime,          \* bound: the clock
  MaxSnapshots,     \* bound: calls of Snapshot
  MaxVersion,       \* bound: revisions of one manifest
  MaxWrites,        \* bound: writes to the bucket by statements
  MaxFaults,        \* bound: calls to the object store that fail
  MaxCrashes        \* bound: crashes of the coordinator

Meta == <<"meta", None>>

Key == {Meta} \cup ({"manifest", "table"} \X Table)

\* What a key holds: the list of the tables, or the revision of a record.
Value == (SUBSET Table) \cup Nat \cup {None}

ASSUME SnapshotAssumption ==
  /\ None \notin [Key -> Value] /\ None \notin Nat /\ (\A T \in SUBSET Table : None # T)
  /\ {MinAge, MaxTime} \subseteq Nat \ {0}
  /\ {Keep, MaxSnapshots, MaxVersion, MaxWrites, MaxFaults, MaxCrashes} \subseteq Nat

Nothing == [k \in Key |-> None]

\* The ticker's loop and CREATE SNAPSHOT.
Caller == {"loop", "statement"}

Time == 1..MaxTime

VARIABLES
  now,
  kv,         \* the bucket: the value of each key, or None
  ddl,        \* how far a CREATE or a DROP of the table is, or "none"
  objects,    \* objects[ts][k]: the copy of k in snapshots/<ts>/
  manifests,  \* manifests[ts]: the keys and hashes in manifest.json, or None
  latest,     \* the pointer, 0 while there is none
  reused,     \* history: the timestamps that a second snapshot has begun under
  torn,       \* history: the timestamps whose manifest.json may name a part of the
              \* keys of a listed table
  suspect,    \* history: the bucket holds a part of a snapshot, or a torn one
  snap,       \* the Snapshot call of each caller, and the loop's GC
  boot,       \* how far the coordinator's start is
  taken, writes, faults, crashes

vars == <<now, kv, ddl, objects, manifests, latest, reused, torn, suspect, snap,
          boot, taken, writes, faults, crashes>>

begun == <<reused, torn, taken>>

Idle == [pc |-> "idle", ts |-> 0, todo |-> {}, key |-> Meta,
         copied |-> Nothing, doomed |-> {}, torn |-> FALSE]

Down == [pc |-> "down", mf |-> Nothing, ts |-> 0]

Init ==
  /\ now = 1
  /\ kv \in {[Nothing EXCEPT ![Meta] = {}],
             [k \in Key |-> IF k = Meta THEN Table ELSE 1]}
  /\ ddl = [t \in Table |-> "none"]
  /\ objects = [ts \in Time |-> Nothing]
  /\ manifests = [ts \in Time |-> None]
  /\ latest = 0
  /\ reused = {} /\ torn = {} /\ suspect = FALSE
  /\ snap = [c \in Caller |-> Idle]
  /\ boot = [Down EXCEPT !.pc = "serving"]
  /\ taken = 0 /\ writes = 0 /\ faults = 0 /\ crashes = 0

Serving == boot.pc = "serving"

Fault == faults < MaxFaults /\ faults' = faults + 1

Old(ts, time) == time - ts >= MinAge

\* The clock; a snapshot that is being taken is younger than MinAge.
Tick ==
  /\ now < MaxTime
  /\ \A c \in Caller : snap[c].ts # 0 => ~ Old(snap[c].ts, now + 1)
  /\ now' = now + 1
  /\ UNCHANGED <<kv, ddl, objects, manifests, latest, begun, suspect, snap, boot,
                 writes, faults, crashes>>

-----------------------------------------------------------------------------
\* The catalog's writers, key by key in their order.

Write(t, from, next, values) ==
  /\ writes < MaxWrites
  /\ writes' = writes + 1
  /\ ddl[t] = from
  /\ ddl' = [ddl EXCEPT ![t] = next]
  /\ kv' = values
  /\ UNCHANGED <<now, objects, manifests, latest, begun, suspect, boot, faults, crashes>>

Listed(t) == t \in kv[Meta]

CreateManifest(t) ==
  /\ ~ Listed(t)
  /\ Write(t, "none", "manifest", [kv EXCEPT ![<<"manifest", t>>] = 1])
  /\ UNCHANGED snap

CreateRecord(t) ==
  /\ Write(t, "manifest", "record", [kv EXCEPT ![<<"table", t>>] = 1])
  /\ UNCHANGED snap

\* A snapshot that has yet to copy the list may find the table there, and its other
\* keys missing from the keys it began with.
CreateMeta(t) ==
  /\ Write(t, "record", "none", [kv EXCEPT ![Meta] = @ \cup {t}])
  /\ snap' = [c \in Caller |->
       [snap[c] EXCEPT !.torn = snap[c].torn \/ Meta \in snap[c].todo]]

DropMeta(t) ==
  /\ Listed(t)
  /\ Write(t, "none", "unlisted", [kv EXCEPT ![Meta] = @ \ {t}])
  /\ UNCHANGED snap

DropRecord(t) ==
  /\ Write(t, "unlisted", "unrecorded", [kv EXCEPT ![<<"table", t>>] = None])
  /\ UNCHANGED snap

DropManifest(t) ==
  /\ Write(t, "unrecorded", "none", [kv EXCEPT ![<<"manifest", t>>] = None])
  /\ UNCHANGED snap

Commit(t) ==
  /\ Listed(t) /\ kv[<<"manifest", t>>] \in 1..(MaxVersion - 1)
  /\ Write(t, "none", "none", [kv EXCEPT ![<<"manifest", t>>] = @ + 1])
  /\ UNCHANGED snap

-----------------------------------------------------------------------------
\* Snapshot.

SnapStep(c, pc) ==
  /\ snap[c].pc = pc
  /\ UNCHANGED <<now, kv, ddl, suspect, boot, writes, crashes>>

Return(c) == snap' = [snap EXCEPT ![c] = Idle]

\* manifest.<t> sorts before meta, and meta before table.<t>.
Rank(k) == CASE k[1] = "manifest" -> 1 [] k[1] = "meta" -> 2 [] k[1] = "table" -> 3

First(keys) == {k \in keys : \A j \in keys : Rank(k) <= Rank(j)}

\* The prefix of a timestamp holds an object.
Exists(ts) == objects[ts] # Nothing \/ manifests[ts] # None

\* The timestamp is in use already.
InUse(ts) == Exists(ts) \/ \E c \in Caller : snap[c].ts = ts

\* The timestamp, and the list of the keys.  Nothing keeps the loop and a statement
\* from beginning in the same second.
Snapshot(c) ==
  /\ Serving
  /\ SnapStep(c, "idle")
  /\ taken < MaxSnapshots
  /\ taken' = taken + 1
  /\ reused' = IF InUse(now) THEN reused \cup {now} ELSE reused
  /\ snap' = [snap EXCEPT ![c] =
                [Idle EXCEPT !.pc = "get", !.ts = now, !.todo = {k \in Key : kv[k] # None},
                             !.torn = suspect]]
  /\ UNCHANGED <<objects, manifests, latest, torn, faults>>

\* A key that has gone since it was listed is an error, as is a failed read.
Get(c) ==
  /\ SnapStep(c, "get")
  /\ \/ \E k \in First(snap[c].todo) :
          /\ IF kv[k] = None THEN Return(c)
             ELSE snap' = [snap EXCEPT ![c].pc = "put", ![c].key = k,
                                       ![c].copied[k] = kv[k]]
          /\ UNCHANGED faults
     \/ Fault /\ Return(c)
  /\ UNCHANGED <<objects, manifests, latest, begun>>

\* Mutant: the error of a Put is dropped.
PutSkips(c) ==
  LET s == snap[c] IN
  /\ SnapStep(c, "put")
  /\ snap' = [snap EXCEPT ![c].todo = @ \ {s.key},
                          ![c].pc = IF s.todo = {s.key} THEN "manifest" ELSE "get"]
  /\ \/ objects' = [objects EXCEPT ![s.ts][s.key] = s.copied[s.key]] /\ UNCHANGED faults
     \/ Fault /\ UNCHANGED objects
  /\ UNCHANGED <<manifests, latest, begun>>

\* A Put that reports an error may have been applied.
Put(c) ==
  LET s == snap[c]
      written == [objects EXCEPT ![s.ts][s.key] = s.copied[s.key]] IN
  /\ SnapStep(c, "put")
  /\ \/ /\ objects' = written
        /\ snap' = [snap EXCEPT ![c].todo = @ \ {s.key},
                                ![c].pc = IF s.todo = {s.key} THEN "manifest" ELSE "get"]
        /\ UNCHANGED faults
     \/ Fault /\ Return(c) /\ objects' \in {objects, written}
  /\ UNCHANGED <<manifests, latest, begun>>

PutManifest(c) ==
  LET s == snap[c]
      Written == /\ manifests' = [manifests EXCEPT ![s.ts] = s.copied]
                 /\ torn' = IF s.torn THEN torn \cup {s.ts} ELSE torn \ {s.ts} IN
  /\ SnapStep(c, "manifest")
  /\ \/ /\ Written
        /\ snap' = [snap EXCEPT ![c].pc = "latest"]
        /\ UNCHANGED faults
     \/ Fault /\ Return(c) /\ (Written \/ UNCHANGED <<manifests, torn>>)
  /\ UNCHANGED <<objects, latest, reused, taken>>

\* The pointer.  Only the loop goes on to collect old snapshots.
PutLatest(c) ==
  /\ SnapStep(c, "latest")
  /\ \/ /\ latest' = snap[c].ts
        /\ IF c = "loop" THEN snap' = [snap EXCEPT ![c] = [Idle EXCEPT !.pc = "list"]]
                         ELSE Return(c)
        /\ UNCHANGED faults
     \/ Fault /\ Return(c) /\ latest' \in {latest, snap[c].ts}
  /\ UNCHANGED <<objects, manifests, begun>>

-----------------------------------------------------------------------------
\* GCSnapshots.

\* The timestamps with an object, of which the Keep newest stay.
gcList ==
  LET found == {ts \in Time : Exists(ts)}
      newest == {ts \in found : Cardinality({u \in found : u > ts}) < Keep} IN
  /\ SnapStep("loop", "list")
  /\ \/ /\ snap' = [snap EXCEPT !["loop"].pc = "read", !["loop"].doomed = found \ newest]
        /\ UNCHANGED faults
     \/ Fault /\ Return("loop")
  /\ UNCHANGED <<objects, manifests, latest, begun>>

\* Mutant: the target of the pointer is not kept.
gcLatestBlind ==
  /\ SnapStep("loop", "read")
  /\ snap' = [snap EXCEPT !["loop"].pc = "delete",
                          !["loop"].doomed = {ts \in @ : Old(ts, now)}]
  /\ UNCHANGED <<objects, manifests, latest, begun, faults>>

\* The target of the pointer stays, and what is younger than MinAge.
gcLatest ==
  /\ SnapStep("loop", "read")
  /\ \/ /\ snap' = [snap EXCEPT !["loop"].pc = "delete",
                                !["loop"].doomed = {ts \in @ \ {latest} : Old(ts, now)}]
        /\ UNCHANGED faults
     \/ Fault /\ Return("loop")
  /\ UNCHANGED <<objects, manifests, latest, begun>>

\* Every object of one timestamp.  A deletion that fails is skipped, and a List
\* that fails ends the collection.
gcDelete ==
  LET doomed == snap["loop"].doomed IN
  /\ SnapStep("loop", "delete")
  /\ \/ doomed = {} /\ Return("loop") /\ UNCHANGED <<objects, manifests, faults>>
     \/ doomed # {} /\ Fault /\ Return("loop") /\ UNCHANGED <<objects, manifests>>
     \/ \E ts \in doomed :
          /\ snap' = [snap EXCEPT !["loop"].doomed = @ \ {ts}]
          /\ \/ /\ objects' = [objects EXCEPT ![ts] = Nothing]
                /\ manifests' = [manifests EXCEPT ![ts] = None]
                /\ UNCHANGED faults
             \/ \E left \in SUBSET Key :
                  /\ Fault
                  /\ objects' = [objects EXCEPT ![ts] =
                       [k \in Key |-> IF k \in left THEN objects[ts][k] ELSE None]]
                  /\ manifests' \in {manifests, [manifests EXCEPT ![ts] = None]}
  /\ UNCHANGED <<latest, begun>>

-----------------------------------------------------------------------------
\* Crashes, the loss of the bucket, and the coordinator's start.

BootStep(pc) ==
  /\ boot.pc = pc
  /\ UNCHANGED <<now, ddl, objects, manifests, latest, begun, snap, writes, crashes>>

\* The process ends, and with it its calls.  What they wrote stays, unless the
\* bucket is lost before the next start.
Crash ==
  /\ crashes < MaxCrashes
  /\ crashes' = crashes + 1
  /\ boot.pc # "down"
  /\ boot' = Down
  /\ snap' = [c \in Caller |-> Idle]
  /\ ddl' = [t \in Table |-> "none"]
  /\ \/ UNCHANGED <<kv, suspect>>
     \/ kv' = Nothing /\ suspect' = FALSE
  /\ UNCHANGED <<now, objects, manifests, latest, begun, writes, faults>>

\* Catalog.Init, which every start runs first.
InitCatalog ==
  /\ BootStep("down")
  /\ boot' = [boot EXCEPT !.pc = "check"]
  /\ kv' = IF kv[Meta] = None THEN [kv EXCEPT ![Meta] = {}] ELSE kv
  /\ UNCHANGED <<suspect, faults>>

\* MaybeRestoreCatalog: unless the start has --force-restore-catalog=latest, a
\* catalog that lists tables is left alone.
MaybeRestoreCatalog ==
  /\ BootStep("check")
  /\ \E force \in BOOLEAN :
       boot' = [boot EXCEPT !.pc = IF ~ force /\ kv[Meta] # {} THEN "serving" ELSE "pointer"]
  /\ UNCHANGED <<kv, suspect, faults>>

\* Restore reads the pointer; without one there is nothing to restore.
readLatestTS ==
  /\ BootStep("pointer")
  /\ \/ /\ boot' = IF latest = 0 THEN [boot EXCEPT !.pc = "serving"]
                                 ELSE [boot EXCEPT !.pc = "manifest", !.ts = latest]
        /\ UNCHANGED faults
     \/ Fault /\ boot' = Down
  /\ UNCHANGED <<kv, suspect>>

readManifest ==
  /\ BootStep("manifest")
  /\ \/ /\ manifests[boot.ts] # None
        /\ boot' = [boot EXCEPT !.pc = "keys", !.mf = manifests[boot.ts]]
        /\ UNCHANGED faults
     \/ manifests[boot.ts] = None /\ boot' = Down /\ UNCHANGED faults
     \/ Fault /\ boot' = Down
  /\ UNCHANGED <<kv, suspect>>

\* What one key becomes.
Restored(k) == [kv EXCEPT ![k] = boot.mf[k]]

\* Mutant: a key whose copy cannot be read is left out.
restoreKeySkips ==
  /\ BootStep("keys")
  /\ \E k \in First({j \in Key : boot.mf[j] # None}) :
       /\ boot' = [boot EXCEPT !.mf[k] = None]
       /\ \/ objects[boot.ts][k] = boot.mf[k] /\ kv' = Restored(k) /\ UNCHANGED faults
          \/ Fault /\ UNCHANGED kv
  /\ suspect' = TRUE

\* One key: its copy, the test of its hash, and the write to the bucket, which may
\* be applied though it reports an error.
restoreKey ==
  /\ BootStep("keys")
  /\ \E k \in First({j \in Key : boot.mf[j] # None}) :
       \/ /\ objects[boot.ts][k] = boot.mf[k]
          /\ kv' = Restored(k)
          /\ boot' = [boot EXCEPT !.mf[k] = None]
          /\ UNCHANGED faults
       \/ objects[boot.ts][k] # boot.mf[k] /\ boot' = Down /\ UNCHANGED <<kv, faults>>
       \/ Fault /\ boot' = Down /\ UNCHANGED kv
       \/ Fault /\ boot' = Down /\ objects[boot.ts][k] = boot.mf[k] /\ kv' = Restored(k)
  /\ suspect' = (suspect \/ kv' # kv)

restored ==
  /\ BootStep("keys")
  /\ boot.mf = Nothing
  /\ boot' = [Down EXCEPT !.pc = "serving"]
  /\ suspect' = (boot.ts \in torn)
  /\ UNCHANGED <<kv, faults>>

-----------------------------------------------------------------------------
WriterStep ==
  Serving /\ \E t \in Table :
    \/ CreateManifest(t) \/ CreateRecord(t) \/ CreateMeta(t) \/ Commit(t)
    \/ DropMeta(t) \/ DropRecord(t) \/ DropManifest(t)

SnapshotStep ==
  \/ \E c \in Caller : Snapshot(c) \/ Get(c) \/ Put(c) \/ PutManifest(c) \/ PutLatest(c)
  \/ gcList \/ gcLatest \/ gcDelete

StartStep ==
  InitCatalog \/ MaybeRestoreCatalog \/ readLatestTS \/ readManifest \/ restoreKey \/ restored

Next == Tick \/ WriterStep \/ SnapshotStep \/ Crash \/ StartStep

Spec == Init /\ [][Next]_vars

\* A coordinator that ended is started again and its start runs.
LiveSpec == Spec /\ WF_vars(StartStep)

-----------------------------------------------------------------------------
\* Properties.

\* The snapshot that the pointer names is there, whatever snapshots failed half way,
\* overlapped or were collected since: its manifest.json and a copy of every key in
\* it.  The copies have the hashes that were recorded, unless a second snapshot began
\* in the same second and wrote over them.
LatestRestores ==
  latest # 0 =>
    /\ manifests[latest] # None
    /\ \A k \in Key : manifests[latest][k] # None =>
         /\ objects[latest][k] # None
         /\ latest \in reused \/ objects[latest][k] = manifests[latest][k]

\* What is served is whole: a listed table has its record and its manifest, though
\* the catalog was lost and restored.  Two cases are not covered by the code: a
\* restore that was cut off after it had put the list (the next start takes the
\* bucket for a catalog with contents of its own), and a snapshot that listed the
\* keys before a CREATE was done and copied the list of the tables after it.
ServesWhole ==
  Serving /\ ~ suspect =>
    \A t \in kv[Meta] : kv[<<"table", t>>] # None /\ kv[<<"manifest", t>>] # None

\* A coordinator that went down serves again, even if the bucket was lost: no
\* snapshot that the pointer can name makes its start fail for ever, but one whose
\* second was used twice.
ServesAgain == (boot.pc = "down") ~> Serving \/ latest \in reused

=============================================================================

-------------------------- MODULE ObjectRetirement ---------------------------
(***************************************************************************)
(* The interlock between calls that write a file path into a manifest and  *)
(* sweeps that delete objects no manifest names, within one Catalog.       *)
(*                                                                         *)
(* A sweep marks its paths, then reads the table list and the manifests    *)
(* one key at a time, then decides each path and deletes it.  A            *)
(* registration declares its paths before it writes and releases them      *)
(* after it.  Each refuses the paths the other one holds.                  *)
(*                                                                         *)
(* Abstractions.  The counts of the maps registering and retiring are the  *)
(* sets of calls that hold the path.  The loop of a manifest's             *)
(* compare-and-swap, which TableManifest takes apart, is one step.  One    *)
(* table is created at a time and none is dropped, so that the table list  *)
(* is read and put as one step; TableLifecycle is about the rest.  The     *)
(* clock ticks when an object is written.  The grace of the queue is any   *)
(* delay.                                                                  *)
(***************************************************************************)
EXTENDS Naturals

CONSTANTS
  Path,        \* object paths
  Table,       \* table names
  Listed,      \* the tables that exist to begin with
  Loaded,      \* the manifests to begin with: a set of paths for each table
  Register,    \* calls that register files, one after the other
  Sweep,       \* concurrent calls of RetireObjects
  MaxTime      \* bound: object writes

ASSUME StartAssumption ==
  /\ Table # {}
  /\ Listed \subseteq Table
  /\ Loaded \in [Table -> SUBSET Path]
  /\ \A t \in Table \ Listed : Loaded[t] = {}

ASSUME TimeAssumption == MaxTime \in Nat \ {0}

VARIABLES
  now,          \* the clock
  objects,      \* LastModified of the object at each path, 0 if there is none
  listed,       \* meta.Tables
  manifest,     \* the paths each table's manifest names
  queue,        \* Compactor.pendingDeletes: a path and the time it was queued
  abandoned,    \* uploads of failed statements that are still to be retired
  registering,  \* Catalog.registering: the calls that hold each path
  retiring,     \* Catalog.retiring: the sweeps that hold each path
  call,         \* the local variables of each registration
  sweep,        \* the local variables of each sweep
  vouched       \* history: entries whose object was there when the call that
                \* registered them declared the path

vars == <<now, objects, listed, manifest, queue, abandoned,
          registering, retiring, call, sweep, vouched>>

catalogVars == <<listed, manifest, vouched>>
queueVars == <<queue, abandoned>>

Time == 0..MaxTime

\* CommitCompaction, AddFiles and the append of a query's rows, and
\* CreateTableWithFiles.
Kind == {"compact", "add", "create"}

\* paths: what the call registers.  seen: those of them that had an object when
\* the call declared them.  old: what a compaction removes from the manifest.
Call == [pc : {"idle", "declared", "put", "ok", "failed", "done"},
         kind : Kind, table : Table, paths : SUBSET Path,
         seen : SUBSET Path, old : SUBSET Path]

NoCall == [pc |-> "idle", kind |-> "add", table |-> CHOOSE t \in Table : TRUE,
           paths |-> {}, seen |-> {}, old |-> {}]

\* wants: the requests and their NotModifiedAfter.  marked: the paths this
\* sweep holds.  toRead: the tables of the list whose manifest is still to be
\* read.  live: the paths found in the ones read.  left: the marked paths still
\* to be decided.  doomed: the path past its tests and about to be deleted.
\* unproven: the RetireUnproven outcomes.  queued: FALSE for a statement that
\* retires its own uploads, which drops what could not be proven.
Swept == [pc : {"idle", "marked", "reading", "returning"},
          wants : SUBSET (Path \X Time), marked : SUBSET Path,
          toRead : SUBSET Table, live : SUBSET Path, left : SUBSET Path,
          doomed : SUBSET Path, unproven : SUBSET Path, queued : BOOLEAN]

NoSweep == [pc |-> "idle", wants |-> {}, marked |-> {}, toRead |-> {},
            live |-> {}, left |-> {}, doomed |-> {}, unproven |-> {},
            queued |-> FALSE]

Init ==
  /\ now = 1
  /\ objects = [p \in Path |->
                  IF \E t \in Listed : p \in Loaded[t] THEN 1 ELSE 0]
  /\ listed = Listed
  /\ manifest = Loaded
  /\ queue = {}
  /\ abandoned = {}
  /\ registering = [p \in Path |-> {}]
  /\ retiring = [p \in Path |-> {}]
  /\ call = [r \in Register |-> NoCall]
  /\ sweep = [s \in Sweep |-> NoSweep]
  /\ vouched = Loaded

-----------------------------------------------------------------------------
\* Registrations.

\* A client or an operator writes an object at the path, again or for the
\* first time.
Upload(p) ==
  /\ now < MaxTime
  /\ now' = now + 1
  /\ objects' = [objects EXCEPT ![p] = now + 1]
  /\ UNCHANGED <<catalogVars, queueVars, registering, retiring, call, sweep>>

\* A sweep holds one of the paths: ErrPathRetiring, and nothing is written.
Refused(P) == \E p \in P : retiring[p] # {}

beginRegistration(r, k, t, P) ==
  /\ call[r] = NoCall
  /\ P = {} => k = "compact"
  /\ k = "create" <=> t \notin listed
  /\ k = "create" => \A q \in Register : call[q].pc \in {"declared", "put"}
                                          => call[q].kind # "create"
  /\ ~ Refused(P)
  /\ registering' = [p \in Path |-> IF p \in P THEN registering[p] \cup {r}
                                               ELSE registering[p]]
  /\ call' = [call EXCEPT ![r] =
       [pc |-> "declared", kind |-> k, table |-> t, paths |-> P,
        seen |-> {p \in P : objects[p] # 0}, old |-> {}]]
  /\ UNCHANGED <<now, objects, catalogVars, queueVars, retiring, sweep>>

\* The entries vouched for once those of gone have left t's manifest and those
\* of S have joined it.
Vouch(t, gone, S) ==
  [vouched EXCEPT ![t] = (@ \ gone) \cup S]

\* An update that was applied reports success, or an error if its reply is lost.
Applied == {"ok", "failed"}

\* AddFiles, CommitIngest: the compare-and-swap that adds the entries.
addFiles(r) ==
  LET c == call[r] IN
  /\ c.pc = "declared" /\ c.kind = "add"
  /\ manifest' = [manifest EXCEPT ![c.table] = @ \cup c.paths]
  /\ vouched' = Vouch(c.table, {}, c.seen)
  /\ \E answer \in Applied : call' = [call EXCEPT ![r].pc = answer]
  /\ UNCHANGED <<now, objects, listed, queueVars, registering, retiring, sweep>>

\* CommitCompaction: the output, if there is one, takes the place of the inputs, which
\* are queued if the compactor hears of it.
CommitCompaction(r, old) ==
  LET c == call[r] IN
  /\ c.pc = "declared" /\ c.kind = "compact"
  /\ old # {} /\ old \subseteq manifest[c.table]
  /\ c.paths \cap manifest[c.table] = {}
  /\ manifest' = [manifest EXCEPT ![c.table] = (@ \ old) \cup c.paths]
  /\ vouched' = Vouch(c.table, old, c.seen)
  /\ \E answer \in Applied :
       call' = [call EXCEPT ![r] = [@ EXCEPT !.pc = answer,
                                             !.old = IF answer = "ok" THEN old ELSE {}]]
  /\ UNCHANGED <<now, objects, listed, queueVars, registering, retiring, sweep>>

\* CreateTableWithFiles puts the manifest (and the table record, which no
\* sweep reads) before it lists the table.
putManifest(r) ==
  LET c == call[r] IN
  /\ c.pc = "declared" /\ c.kind = "create"
  /\ manifest' = [manifest EXCEPT ![c.table] = c.paths]
  /\ vouched' = Vouch(c.table, {}, c.seen)
  /\ call' = [call EXCEPT ![r].pc = "put"]
  /\ UNCHANGED <<now, objects, listed, queueVars, registering, retiring, sweep>>

putMeta(r) ==
  LET c == call[r] IN
  /\ c.pc = "put"
  /\ listed' = listed \cup {c.table}
  /\ call' = [call EXCEPT ![r].pc = "ok"]
  /\ UNCHANGED <<now, objects, manifest, vouched, queueVars, registering,
                 retiring, sweep>>

\* A write that is not applied fails; a create deletes the keys it has written.
Fails(r) ==
  LET c == call[r] IN
  /\ c.pc \in {"declared", "put"}
  /\ manifest' = [manifest EXCEPT ![c.table] = IF c.pc = "put" THEN {} ELSE @]
  /\ vouched' = Vouch(c.table, IF c.pc = "put" THEN Path ELSE {}, {})
  /\ call' = [call EXCEPT ![r].pc = "failed"]
  /\ UNCHANGED <<now, objects, listed, queueVars, registering, retiring, sweep>>

\* Mutant: the entry is deleted from the map whoever else holds it.
ReleaseAll(holders, h) == {}

\* A count that falls to zero is deleted from the map.
Release(holders, h) == holders \ {h}

\* The call returns.  A compactor then queues its inputs, and a failed
\* statement that wrote a query's rows is left with its uploads to retire.
endRegistration(r, reclaims) ==
  LET c == call[r] IN
  /\ c.pc \in {"ok", "failed"}
  /\ reclaims => c.pc = "failed" /\ c.kind # "compact"
  /\ registering' = [p \in Path |-> IF p \in c.paths
                                    THEN Release(registering[p], r)
                                    ELSE registering[p]]
  /\ queue' = queue \cup (c.old \X {now})
  /\ abandoned' = abandoned \cup (IF reclaims THEN c.paths ELSE {})
  /\ call' = [call EXCEPT ![r] = [NoCall EXCEPT !.pc = "done"]]
  /\ UNCHANGED <<now, objects, catalogVars, retiring, sweep>>

-----------------------------------------------------------------------------
\* Sweeps.

\* Mutant: a path is marked whether or not a registration holds it.
BusyNever(P) == {}

\* The paths that a registration in flight keeps from being marked.
Busy(P) == {p \in P : registering[p] # {}}

markRetiring(s, W, queued) ==
  LET P == {w[1] : w \in W}
      M == P \ Busy(P) IN
  /\ sweep[s].pc = "idle"
  /\ W # {}
  /\ retiring' = [p \in Path |-> IF p \in M THEN retiring[p] \cup {s}
                                            ELSE retiring[p]]
  /\ sweep' = [sweep EXCEPT ![s] =
       [NoSweep EXCEPT !.pc = IF M = {} THEN "returning" ELSE "marked",
                       !.wants = W, !.marked = M, !.left = M,
                       !.unproven = Busy(P), !.queued = queued]]
  /\ UNCHANGED <<now, objects, catalogVars, registering, call>>

\* The due part of the compactor's queue.
FlushDeferredDeletes(s) ==
  \E cutoff \in Time :
    LET due == {e \in queue : e[2] <= cutoff} IN
    /\ markRetiring(s, due, TRUE)
    /\ queue' = queue \ due
    /\ UNCHANGED abandoned

\* No NotModifiedAfter: nothing is written after MaxTime.
reclaimPendingObjects(s) ==
  /\ markRetiring(s, abandoned \X {MaxTime}, FALSE)
  /\ abandoned' = {}
  /\ UNCHANGED queue

\* liveCatalogState: the table list, and then one manifest after the other.
ListTables(s) ==
  /\ sweep[s].pc = "marked"
  /\ sweep' = [sweep EXCEPT ![s] = [@ EXCEPT !.pc = "reading",
                                             !.toRead = listed]]
  /\ UNCHANGED <<now, objects, catalogVars, queueVars, registering, retiring,
                 call>>

GetManifest(s, t) ==
  /\ sweep[s].pc = "reading"
  /\ t \in sweep[s].toRead
  /\ sweep' = [sweep EXCEPT ![s] =
       [@ EXCEPT !.toRead = sweep[s].toRead \ {t},
                 !.live = sweep[s].live \cup manifest[t]]]
  /\ UNCHANGED <<now, objects, catalogVars, queueVars, registering, retiring,
                 call>>

\* The list or a manifest could not be read.
ReadError(s) ==
  /\ \/ sweep[s].pc = "marked"
     \/ sweep[s].pc = "reading" /\ sweep[s].toRead # {}
  /\ sweep' = [sweep EXCEPT ![s] =
       [@ EXCEPT !.pc = "returning", !.left = {},
                 !.unproven = sweep[s].unproven \cup sweep[s].marked]]
  /\ UNCHANGED <<now, objects, catalogVars, queueVars, registering, retiring,
                 call>>

\* The tests that come before a delete: p is live, or Head answers that it
\* was written since it was scheduled.  A Head that fails tests nothing.
Preserve(s, p) ==
  /\ sweep[s].pc = "reading" /\ sweep[s].toRead = {} /\ sweep[s].doomed = {}
  /\ p \in sweep[s].left
  /\ \/ p \in sweep[s].live
     \/ \E w \in sweep[s].wants : w[1] = p /\ objects[p] > w[2]
  /\ sweep' = [sweep EXCEPT ![s].left = @ \ {p}]
  /\ UNCHANGED <<now, objects, catalogVars, queueVars, registering, retiring,
                 call>>

Doom(s, p) ==
  /\ sweep[s].pc = "reading" /\ sweep[s].toRead = {} /\ sweep[s].doomed = {}
  /\ p \in sweep[s].left \ sweep[s].live
  /\ sweep' = [sweep EXCEPT ![s] =
       [@ EXCEPT !.left = sweep[s].left \ {p}, !.doomed = {p}]]
  /\ UNCHANGED <<now, objects, catalogVars, queueVars, registering, retiring,
                 call>>

Delete(s) ==
  /\ sweep[s].doomed # {}
  /\ objects' = [p \in Path |-> IF p \in sweep[s].doomed THEN 0 ELSE objects[p]]
  /\ sweep' = [sweep EXCEPT ![s].doomed = {}]
  /\ UNCHANGED <<now, catalogVars, queueVars, registering, retiring, call>>

DeleteError(s) ==
  /\ sweep[s].doomed # {}
  /\ sweep' = [sweep EXCEPT ![s] =
       [@ EXCEPT !.doomed = {},
                 !.unproven = sweep[s].unproven \cup sweep[s].doomed]]
  /\ UNCHANGED <<now, objects, catalogVars, queueVars, registering, retiring,
                 call>>

\* The batch is over: the marks go, and retire requeues what is unproven.
unmarkRetiring(s) ==
  LET w == sweep[s] IN
  /\ \/ w.pc = "returning"
     \/ w.pc = "reading" /\ w.toRead = {} /\ w.left = {} /\ w.doomed = {}
  /\ retiring' = [p \in Path |-> IF p \in w.marked THEN Release(retiring[p], s)
                                                 ELSE retiring[p]]
  /\ queue' = queue \cup {e \in w.wants : w.queued /\ e[1] \in w.unproven}
  /\ sweep' = [sweep EXCEPT ![s] = NoSweep]
  /\ UNCHANGED <<now, objects, catalogVars, abandoned, registering, call>>

RegisterStep(r) ==
  \/ \E k \in Kind, t \in Table, P \in SUBSET Path :
       beginRegistration(r, k, t, P)
  \/ addFiles(r) \/ putManifest(r) \/ putMeta(r) \/ Fails(r)
  \/ \E old \in SUBSET Path : CommitCompaction(r, old)
  \/ \E reclaims \in BOOLEAN : endRegistration(r, reclaims)

SweepStep(s) ==
  \/ FlushDeferredDeletes(s) \/ reclaimPendingObjects(s)
  \/ ListTables(s) \/ ReadError(s)
  \/ \E t \in Table : GetManifest(s, t)
  \/ \E p \in Path : Preserve(s, p) \/ Doom(s, p)
  \/ Delete(s) \/ DeleteError(s) \/ unmarkRetiring(s)

Next ==
  \/ \E p \in Path : Upload(p)
  \/ \E r \in Register : RegisterStep(r)
  \/ \E s \in Sweep : SweepStep(s)

Spec == Init /\ [][Next]_vars

-----------------------------------------------------------------------------
\* Properties.

\* The types of the catalog, of its two maps and of the calls in progress.
TypeOK ==
  /\ now \in Time
  /\ objects \in [Path -> Time]
  /\ listed \subseteq Table
  /\ manifest \in [Table -> SUBSET Path]
  /\ queue \subseteq Path \X Time
  /\ abandoned \subseteq Path
  /\ registering \in [Path -> SUBSET Register]
  /\ retiring \in [Path -> SUBSET Sweep]
  /\ call \in [Register -> Call]
  /\ sweep \in [Sweep -> Swept]
  /\ vouched \in [Table -> SUBSET Path]

\* RetireObjects never pulls the bytes from under a table: an entry whose
\* object was there when its registration was declared still has its object,
\* for as long as a listed table names it, however many sweeps ran since.
RegisteredBytesStay ==
  \A t \in listed : \A p \in manifest[t] \cap vouched[t] : objects[p] # 0

\* A sweep deletes only objects that no listed table names at the moment of
\* the delete and that no call is about to register, although it read the
\* manifests one by one and some time ago.
DeletesOnlyUnreferenced ==
  [][\A p \in Path : objects[p] # 0 /\ objects'[p] = 0 =>
       /\ \A t \in listed : p \notin manifest[t]
       /\ registering[p] = {}]_vars

=============================================================================

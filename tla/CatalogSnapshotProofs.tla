------------------------ MODULE CatalogSnapshotProofs ------------------------
(***************************************************************************)
(* Disaster recovery, for any tables, retention and ages.  The snapshot    *)
(* that the latest pointer names can be restored, whatever snapshots are   *)
(* taken, overlap, are collected or are interrupted: LatestRestores is not *)
(* inductive, as the pointer is written after a copy that took many steps  *)
(* and the collector deletes what it listed earlier.  SnapInv says what a  *)
(* call has stored so far, that two calls with one prefix began in one     *)
(* second, and that what the collector dooms is too old to be written to.  *)
(* And what is served is whole: WholeInv follows the keys of a table from  *)
(* the statements through a snapshot, its manifest.json and a restore back *)
(* into the bucket.                                                        *)
(***************************************************************************)
EXTENDS CatalogSnapshot, TLAPS

\* A leaf is Zenon's unless it names the SMT solver.
USE ZenonT(60)

\* A copy of the bucket, whole or in part.
Copy == {f \in [Key -> Value] : f[Meta] \in (SUBSET Table) \cup {None}}

\* What a call of Snapshot or of the collector holds.
SnapCall ==
  [pc : {"idle", "get", "put", "manifest", "latest", "list", "read", "delete"},
   ts : Time \cup {0}, todo : SUBSET Key, key : Key, copied : Copy, doomed : SUBSET Time,
   torn : BOOLEAN]

\* The state has its types: the snapshots and the calls,
SnapTypes ==
  /\ now \in Time
  /\ objects \in [Time -> [Key -> Value]]
  /\ manifests \in [Time -> Copy \cup {None}]
  /\ latest \in Time \cup {0}
  /\ snap \in [Caller -> SnapCall]
\* and the bucket and the coordinator that starts.
BootTypes ==
  /\ kv \in Copy
  /\ boot \in [pc : {"down", "check", "pointer", "manifest", "keys", "serving"},
               mf : Copy, ts : Time \cup {0}]
  /\ boot.pc # "down" => kv[Meta] \in SUBSET Table
  /\ boot.pc = "manifest" => boot.ts \in Time

\* A call between its first Get and its PutLatest.
Taking == {"get", "put", "manifest", "latest"}

\* What a timestamp has stored can be restored: its manifest.json, and the copies.
Restorable(ts) ==
  /\ manifests[ts] # None
  /\ \A k \in Key : manifests[ts][k] # None =>
       /\ objects[ts][k] # None
       /\ ts \in reused \/ objects[ts][k] = manifests[ts][k]

\* What a call knows.  Its prefix is younger than the age at which the collector takes
\* it, and what it copied is stored there, or was written over by another call of
\* the same second; what the collector dooms is older than that, and is not the
\* latest.
CallTakes(c) ==
  LET s == snap[c] IN
  /\ s.ts # 0 <=> s.pc \in Taking
  /\ s.ts # 0 =>
       /\ s.ts = latest => s.ts \in reused
       /\ s.ts <= now /\ now < s.ts + MinAge
       /\ \A k \in Key : \/ s.copied[k] = None
                         \/ s.pc = "put" /\ s.key = k
                         \/ /\ objects[s.ts][k] # None
                            /\ s.ts \in reused \/ objects[s.ts][k] = s.copied[k]
  /\ s.pc = "put" => s.copied[s.key] # None
  /\ s.pc = "latest" => Restorable(s.ts)
  /\ s.pc = "delete" =>
       \A ts \in s.doomed : ts # latest /\ ts + MinAge <= now
  /\ s.pc \in {"list", "read", "delete"} => c = "loop"

\* No two calls write under one prefix, unless they began in the same second.
OwnPrefix ==
  \A c, d \in Caller :
    c # d /\ snap[c].ts # 0 /\ snap[c].ts = snap[d].ts => snap[c].ts \in reused

\* The inductive invariant.
SnapInv ==
  /\ SnapTypes /\ BootTypes /\ suspect \in BOOLEAN
  /\ \A c \in Caller : CallTakes(c)
  /\ OwnPrefix
  /\ LatestRestores

\* The list of the tables is a key of its own.
LEMMA MetaIsKey ==
  Meta \in Key /\ \A t \in Table : <<"manifest", t>> # Meta /\ <<"table", t>> # Meta
  BY DEF Key, Meta

\* What a key may hold.
LEMMA Values == None \in Value /\ Nat \subseteq Value /\ (SUBSET Table) \subseteq Value
  BY DEF Value

\* A copy to which nothing was added yet,
LEMMA NothingType ==
  Nothing \in Copy /\ Nothing \in [Key -> Value] /\ \A k \in Key : Nothing[k] = None
<1>1. Nothing \in [Key -> Value] /\ \A k \in Key : Nothing[k] = None
  BY Values DEF Nothing
<1> QED
  BY <1>1, MetaIsKey DEF Copy

\* and a call that has not begun.
LEMMA IdleType == Idle \in SnapCall /\ Idle.pc = "idle" /\ Idle.ts = 0
  BY NothingType, MetaIsKey DEF Idle, SnapCall

\* The bucket is empty at first, or its tables are whole.
LEMMA SnapInit == ASSUME Init PROVE SnapInv
<1> USE DEF Init
<1>1. SnapTypes
  BY NothingType, IdleType, SnapshotAssumption, SMTT(30) DEF SnapTypes, Time
<1>2. BootTypes
  <2>1. kv \in Copy /\ kv[Meta] \in SUBSET Table
    <3>1. CASE kv = [Nothing EXCEPT ![Meta] = {}]
      BY <3>1, NothingType, MetaIsKey DEF Copy, Value
    <3>2. CASE kv = [k \in Key |-> IF k = Meta THEN Table ELSE 1]
      <4>1. 1 \in Value /\ Table \in Value
        BY Values, SMTT(30)
      <4> QED
        BY <3>2, <4>1, MetaIsKey DEF Copy
    <3> QED
      BY <3>1, <3>2
  <2> QED
    BY <2>1, NothingType DEF BootTypes, Down
<1>3. \A c \in Caller : snap[c] = Idle
  OBVIOUS
<1>4. \A c \in Caller : CallTakes(c)
  BY <1>3, IdleType DEF CallTakes, Taking
<1>5. OwnPrefix
  BY <1>3, IdleType DEF OwnPrefix
<1>6. LatestRestores /\ suspect \in BOOLEAN
  BY DEF LatestRestores
<1> QED
  BY <1>1, <1>2, <1>4, <1>5, <1>6 DEF SnapInv

\* A CREATE marks the snapshots that it may tear, and no writer does more to them.
LEMMA WritersMark ==
  ASSUME SnapInv, WriterStep
  PROVE  /\ snap' \in [Caller -> SnapCall]
         /\ \A c \in Caller :
              /\ snap'[c].pc = snap[c].pc /\ snap'[c].ts = snap[c].ts
              /\ snap'[c].todo = snap[c].todo /\ snap'[c].key = snap[c].key
              /\ snap'[c].copied = snap[c].copied /\ snap'[c].doomed = snap[c].doomed
<1>t. snap \in [Caller -> SnapCall]
  BY DEF SnapInv, SnapTypes
<1>1. CASE snap' = snap
  BY <1>1, <1>t
<1>2. CASE snap' # snap
  <2>1. snap' = [c \in Caller |->
                   [snap[c] EXCEPT !.torn = snap[c].torn \/ Meta \in snap[c].todo]]
    BY <1>2 DEF WriterStep, CreateManifest, CreateRecord, CreateMeta, Commit, DropMeta,
       DropRecord, DropManifest
  <2>2. ASSUME NEW c \in Caller
        PROVE  /\ snap'[c] \in SnapCall
               /\ snap'[c].pc = snap[c].pc /\ snap'[c].ts = snap[c].ts
               /\ snap'[c].todo = snap[c].todo /\ snap'[c].key = snap[c].key
               /\ snap'[c].copied = snap[c].copied /\ snap'[c].doomed = snap[c].doomed
    <3>1. snap'[c] = [snap[c] EXCEPT !.torn = snap[c].torn \/ Meta \in snap[c].todo]
      BY <2>1
    <3>2. (snap[c].torn \/ Meta \in snap[c].todo) \in BOOLEAN /\ snap[c] \in SnapCall
      BY <1>t
    <3> QED
      BY <3>1, <3>2 DEF SnapCall
  <2> QED
    BY <2>1, <2>2
<1> QED
  BY <1>1, <1>2

\* The steps of the writers and of a start leave what is stored alone.
LEMMA BucketKeeps ==
  ASSUME SnapInv, WriterStep \/ StartStep
  PROVE  SnapInv'
<1>1. /\ now' = now /\ objects' = objects /\ manifests' = manifests /\ latest' = latest
      /\ reused' = reused /\ (StartStep => snap' = snap)
  BY DEF WriterStep, StartStep, CreateManifest, CreateRecord, CreateMeta, begun,
     Commit, DropMeta, DropRecord, DropManifest, Write, InitCatalog, MaybeRestoreCatalog,
     readLatestTS, readManifest, restoreKey, restored, BootStep
<1>s. /\ snap' \in [Caller -> SnapCall]
      /\ \A c \in Caller :
           /\ snap'[c].pc = snap[c].pc /\ snap'[c].ts = snap[c].ts
           /\ snap'[c].todo = snap[c].todo /\ snap'[c].key = snap[c].key
           /\ snap'[c].copied = snap[c].copied /\ snap'[c].doomed = snap[c].doomed
  BY <1>1, WritersMark DEF SnapInv, SnapTypes
<1>2. SnapTypes' /\ OwnPrefix' /\ LatestRestores'
  BY <1>1, <1>s DEF SnapInv, SnapTypes, OwnPrefix, LatestRestores
<1>b. suspect' \in BOOLEAN
  <2>1. CASE WriterStep
    <3>1. suspect' = suspect
      BY <2>1 DEF WriterStep, CreateManifest, CreateRecord, CreateMeta, Commit, DropMeta,
         DropRecord, DropManifest, Write
    <3> QED
      BY <3>1 DEF SnapInv
  <2>2. CASE InitCatalog \/ MaybeRestoreCatalog \/ readLatestTS \/ readManifest
    BY <2>2 DEF SnapInv, InitCatalog, MaybeRestoreCatalog, readLatestTS, readManifest
  <2>3. CASE restoreKey
    <3>1. suspect' = (suspect \/ kv' # kv)
      BY <2>3 DEF restoreKey
    <3> QED
      BY <3>1
  <2>4. CASE restored
    <3>1. suspect' = (boot.ts \in torn)
      BY <2>4 DEF restored
    <3> QED
      BY <3>1, SMTT(30)
  <2> QED
    BY <2>1, <2>2, <2>3, <2>4 DEF StartStep
<1>c. ASSUME NEW c \in Caller PROVE CallTakes(c)'
  <2>1. CallTakes(c) /\ (Restorable(snap[c].ts) => Restorable(snap[c].ts)')
    BY <1>1, <1>s DEF SnapInv, Restorable
  <2> QED
    BY <1>1, <1>s, <2>1 DEF CallTakes
<1>t. SnapTypes /\ BootTypes
  BY DEF SnapInv
<1>3. BootTypes'
  <2>1. CASE WriterStep
    <3>1. boot' = boot /\ boot.pc = "serving" /\ kv[Meta] \in SUBSET Table
      BY <2>1, <1>t DEF BootTypes, WriterStep, Serving, CreateManifest, CreateRecord,
         CreateMeta, Commit, DropMeta, DropRecord, DropManifest, Write
    <3>2. PICK t \in Table :
            \/ \E v \in Value : kv' = [kv EXCEPT ![<<"manifest", t>>] = v]
            \/ \E v \in Value : kv' = [kv EXCEPT ![<<"table", t>>] = v]
            \/ \E v \in SUBSET Table : kv' = [kv EXCEPT ![Meta] = v]
      <4> PICK t \in Table :
            \/ CreateManifest(t) \/ CreateRecord(t) \/ CreateMeta(t) \/ Commit(t)
            \/ DropMeta(t) \/ DropRecord(t) \/ DropManifest(t)
        BY <2>1 DEF WriterStep
      <4>1. CASE CreateManifest(t) \/ CreateRecord(t) \/ DropRecord(t) \/ DropManifest(t)
        BY <4>1, Values
           DEF CreateManifest, CreateRecord, DropRecord, DropManifest, Write
      <4>2. CASE CreateMeta(t) \/ DropMeta(t)
        BY <4>2, <3>1 DEF CreateMeta, DropMeta, Write
      <4>3. CASE Commit(t)
        <5>1. kv[<<"manifest", t>>] + 1 \in Nat
          BY <4>3, SnapshotAssumption, SMTT(30) DEF Commit
        <5> QED
          BY <4>3, <5>1, Values DEF Commit, Write
      <4> QED
        BY <4>1, <4>2, <4>3
    <3>3. kv' \in Copy /\ kv'[Meta] \in SUBSET Table
      BY <3>1, <3>2, <1>t, MetaIsKey, SMTT(30) DEF BootTypes, Copy, Value
    <3> QED
      BY <3>1, <3>3, <1>t DEF BootTypes
  <2>3. CASE InitCatalog
    <3>1. kv' \in Copy /\ kv'[Meta] \in SUBSET Table
      BY <2>3, <1>t, MetaIsKey DEF InitCatalog, BootTypes, Copy, Value
    <3> QED
      BY <3>1, <2>3, <1>t DEF InitCatalog, BootTypes
  <2>4. CASE MaybeRestoreCatalog \/ readLatestTS \/ readManifest \/ restored
    <3>d. Down \in [pc : {"down", "check", "pointer", "manifest", "keys", "serving"},
               mf : Copy, ts : Time \cup {0}] /\ Down.pc = "down"
      BY NothingType DEF Down
    <3>1. CASE MaybeRestoreCatalog
      <4>1. PICK p \in {"serving", "pointer"} : boot' = [boot EXCEPT !.pc = p]
        BY <3>1 DEF MaybeRestoreCatalog
      <4> QED
        BY <3>1, <4>1, <1>t DEF MaybeRestoreCatalog, BootStep, BootTypes
    <3>2. CASE readLatestTS
      BY <3>2, <3>d, <1>t DEF readLatestTS, BootStep, BootTypes, SnapTypes
    <3>3. CASE readManifest
      BY <3>3, <3>d, <1>t DEF readManifest, BootStep, BootTypes, SnapTypes
    <3>4. CASE restored
      BY <3>4, <3>d, <1>t DEF restored, BootStep, BootTypes
    <3> QED
      BY <2>4, <3>1, <3>2, <3>3, <3>4
  <2>5. CASE restoreKey
    <3>d. Down \in [pc : {"down", "check", "pointer", "manifest", "keys", "serving"},
               mf : Copy, ts : Time \cup {0}] /\ Down.pc = "down"
      BY NothingType DEF Down
    <3>1. CASE boot' = Down /\ kv' = kv
      BY <3>1, <3>d, <1>t DEF BootTypes
    <3>2. CASE ~ (boot' = Down /\ kv' = kv)
      <4>1. PICK k \in Key : /\ boot.mf[k] # None
                             /\ kv' = [kv EXCEPT ![k] = boot.mf[k]]
                             /\ boot' \in {Down, [boot EXCEPT !.mf[k] = None]}
        BY <2>5, <3>2 DEF restoreKey, First, Restored
      <4>2. kv' \in Copy /\ kv'[Meta] \in SUBSET Table
        BY <4>1, <2>5, <1>t, MetaIsKey DEF BootTypes, Copy, restoreKey, BootStep
      <4>3. [boot.mf EXCEPT ![k] = None] \in Copy
        BY <4>1, <1>t, MetaIsKey DEF BootTypes, Copy, Value
      <4>4. boot' \in {Down, [boot EXCEPT !.mf = [boot.mf EXCEPT ![k] = None]]}
        BY <4>1, <1>t DEF BootTypes
      <4>5. CASE boot' = Down
        BY <4>2, <4>5, <3>d DEF BootTypes
      <4>6. CASE boot' = [boot EXCEPT !.mf = [boot.mf EXCEPT ![k] = None]]
        BY <4>2, <4>3, <4>6, <1>t DEF BootTypes
      <4> QED
        BY <4>4, <4>5, <4>6
    <3> QED
      BY <3>1, <3>2
  <2> QED
    BY <2>1, <2>3, <2>4, <2>5 DEF StartStep
<1> QED
  BY <1>2, <1>b, <1>c, <1>3 DEF SnapInv

\* A step of one call c: the others keep their prefixes and what they wrote there, but
\* for what a call of the same second replaces.
LEMMA CallKeeps ==
  ASSUME SnapInv, NEW c \in Caller, now' = now, kv' = kv, boot' = boot, suspect' = suspect,
         snap' \in [Caller -> SnapCall],
         objects' \in [Time -> [Key -> Value]],
         manifests' \in [Time -> Copy \cup {None}],
         reused \subseteq reused',
         \A d \in Caller \ {c} :
           /\ snap'[d] = snap[d]
           /\ snap[d].ts # 0 =>
                /\ snap'[c].ts = snap[d].ts => snap[d].ts \in reused'
                /\ snap[d].ts = latest' => snap[d].ts \in reused'
                /\ Restorable(snap[d].ts) => Restorable(snap[d].ts)'
                /\ \A k \in Key :
                     /\ objects[snap[d].ts][k] # None => objects'[snap[d].ts][k] # None
                     /\ \/ snap[d].ts \in reused'
                        \/ objects'[snap[d].ts][k] = objects[snap[d].ts][k],
         latest' = latest \/ (snap[c].ts # 0 /\ latest' = snap[c].ts),
         CallTakes(c)', LatestRestores'
  PROVE  SnapInv'
<1>1. SnapTypes' /\ BootTypes'
  BY SMTT(30) DEF SnapInv, SnapTypes, SnapCall, BootTypes
<1>2. ASSUME NEW d \in Caller PROVE CallTakes(d)'
  <2>1. CASE d = c
    BY <2>1
  <2>2. CASE d # c
    <3>1. snap'[d] = snap[d] /\ CallTakes(d)
      BY <2>2 DEF SnapInv
    <3>2. ASSUME snap[d].pc = "delete", NEW ts \in snap[d].doomed PROVE latest' # ts
      <4>1. ts \in Nat /\ snap[c].ts \in Nat /\ now \in Nat /\ MinAge \in Nat
        BY SnapshotAssumption, SMTT(30) DEF SnapInv, SnapTypes, SnapCall, Time
      <4>2. ts # latest /\ ts + MinAge <= now
        BY <3>2 DEF SnapInv, CallTakes
      <4>3. snap[c].ts # 0 => now < snap[c].ts + MinAge
        BY DEF SnapInv, CallTakes
      <4> QED
        BY <4>1, <4>2, <4>3, SMTT(30)
    <3>3. ASSUME snap[d].ts # 0, NEW k \in Key
          PROVE  \/ snap[d].copied[k] = None
                 \/ snap[d].pc = "put" /\ snap[d].key = k
                 \/ /\ objects'[snap[d].ts][k] # None
                    /\ snap[d].ts \in reused' \/ objects'[snap[d].ts][k] = snap[d].copied[k]
      BY <2>2, <3>1, <3>3 DEF CallTakes
    <3>4. snap[d].pc = "latest" => Restorable(snap[d].ts)'
      BY <2>2, <3>1 DEF CallTakes, Taking
    <3>5. snap[d].ts # 0 /\ snap[d].ts = latest' => snap[d].ts \in reused'
      BY <2>2
    <3> QED
      BY <3>1, <3>2, <3>3, <3>4, <3>5 DEF CallTakes
  <2> QED
    BY <2>1, <2>2
<1>3. OwnPrefix'
  BY DEF SnapInv, OwnPrefix
<1>4. suspect' \in BOOLEAN
  BY DEF SnapInv
<1> QED
  BY <1>1, <1>2, <1>3, <1>4 DEF SnapInv

\* A call that shares neither its prefix nor the latest with another, or whose second
\* was used twice.
LEMMA Shared ==
  ASSUME SnapInv, NEW c \in Caller, NEW d \in Caller, d # c, snap[d].ts # 0
  PROVE  /\ snap[d].ts \in Time
         /\ snap[d].ts = snap[c].ts => snap[d].ts \in reused
         /\ snap[d].ts = latest => snap[d].ts \in reused
  BY DEF SnapInv, SnapTypes, SnapCall, OwnPrefix, CallTakes

\* What is stored under other prefixes stays restorable.
LEMMA RestorableKeeps ==
  ASSUME NEW ts \in Time, Restorable(ts), reused \subseteq reused',
         manifests'[ts] = manifests[ts],
         \A k \in Key : /\ objects[ts][k] # None => objects'[ts][k] # None
                        /\ ts \in reused' \/ objects'[ts][k] = objects[ts][k]
  PROVE  Restorable(ts)'
  BY DEF Restorable

\* The pointer names what can be restored.
LEMMA LatestIs ==
  /\ LatestRestores <=> (latest # 0 => Restorable(latest))
  /\ LatestRestores' <=> (latest' # 0 => Restorable(latest)')
  BY DEF LatestRestores, Restorable

\* A call gives up; of what it was about to store, an object may be there.
LEMMA ReturnKeeps ==
  ASSUME SnapInv, NEW c \in Caller, now' = now, kv' = kv, boot' = boot, suspect' = suspect,
         Return(c),
         objects' \in [Time -> [Key -> Value]],
         manifests' \in [Time -> Copy \cup {None}],
         reused' = reused,
         \A ts \in Time :
           /\ \A k \in Key :
                /\ objects[ts][k] # None => objects'[ts][k] # None
                /\ ts = snap[c].ts \/ objects'[ts][k] = objects[ts][k]
           /\ \/ manifests'[ts] = manifests[ts]
              \/ ts = snap[c].ts /\ (ts \in reused => Restorable(ts)'),
         latest' = latest
  PROVE  SnapInv'
<1>1. /\ snap' \in [Caller -> SnapCall] /\ snap'[c] = Idle
      /\ \A d \in Caller \ {c} : snap'[d] = snap[d]
  BY IdleType DEF SnapInv, SnapTypes, Return
<1>2. CallTakes(c)'
  BY <1>1, IdleType DEF CallTakes, Taking
<1>3. ASSUME NEW ts \in Time, ts = snap[c].ts => ts \in reused, Restorable(ts)
      PROVE  Restorable(ts)'
  <2>1. \A k \in Key : /\ objects[ts][k] # None => objects'[ts][k] # None
                       /\ ts \in reused' \/ objects'[ts][k] = objects[ts][k]
    BY <1>3
  <2> QED
    BY <1>3, <2>1, RestorableKeeps
<1>4. LatestRestores'
  <2>1. latest \in Time \cup {0} /\ LatestRestores
    BY DEF SnapInv, SnapTypes
  <2>2. latest # 0 /\ latest = snap[c].ts => latest \in reused
    BY DEF SnapInv, CallTakes
  <2> QED
    BY <1>3, <2>1, <2>2, LatestIs
<1>5. ASSUME NEW d \in Caller \ {c}, snap[d].ts # 0
      PROVE  /\ snap'[c].ts # snap[d].ts
             /\ snap[d].ts = latest' => snap[d].ts \in reused'
             /\ Restorable(snap[d].ts) => Restorable(snap[d].ts)'
             /\ \A k \in Key :
                  /\ objects[snap[d].ts][k] # None => objects'[snap[d].ts][k] # None
                  /\ \/ snap[d].ts \in reused'
                     \/ objects'[snap[d].ts][k] = objects[snap[d].ts][k]
  BY <1>1, <1>3, <1>5, IdleType, Shared
<1> QED
  BY <1>1, <1>2, <1>4, <1>5, CallKeeps

\* A step that stores nothing disturbs no other call.
LEMMA StoresNothing ==
  ASSUME SnapInv, NEW c \in Caller, reused \subseteq reused',
         objects' = objects, manifests' = manifests, latest' = latest
  PROVE  \A d \in Caller \ {c} : snap[d].ts # 0 /\ snap'[d] = snap[d] =>
           /\ snap[d].ts = latest' => snap[d].ts \in reused'
           /\ Restorable(snap[d].ts) => Restorable(snap[d].ts)'
           /\ \A k \in Key :
                /\ objects[snap[d].ts][k] # None => objects'[snap[d].ts][k] # None
                /\ \/ snap[d].ts \in reused'
                   \/ objects'[snap[d].ts][k] = objects[snap[d].ts][k]
  BY Shared DEF Restorable

\* Snapshot begins under a prefix that it notes if it is in use, and reads the next
\* key.
LEMMA SnapshotKeeps ==
  ASSUME SnapInv, NEW c \in Caller, Snapshot(c) \/ Get(c) PROVE SnapInv'
<1>0. /\ now' = now /\ kv' = kv /\ boot' = boot /\ suspect' = suspect
      /\ objects' = objects /\ manifests' = manifests /\ latest' = latest
      /\ reused \subseteq reused' /\ (Get(c) => reused' = reused)
  BY DEF Snapshot, Get, SnapStep, begun
<1>t. /\ objects \in [Time -> [Key -> Value]] /\ manifests \in [Time -> Copy \cup {None}]
      /\ snap[c] \in SnapCall /\ snap \in [Caller -> SnapCall] /\ kv \in Copy /\ CallTakes(c)
      /\ now \in Time /\ LatestRestores /\ latest \in Time \cup {0}
  BY DEF SnapInv, SnapTypes, BootTypes
<1>l. LatestRestores'
  BY <1>0, <1>t DEF LatestRestores
<1>1. CASE Snapshot(c)
  <2> DEFINE s == [Idle EXCEPT !.pc = "get", !.ts = now, !.todo = {k \in Key : kv[k] # None},
                               !.torn = suspect]
  <2>0. suspect \in BOOLEAN
    BY DEF SnapInv
  <2>1. /\ s \in SnapCall /\ s.pc = "get" /\ s.ts = now /\ s.copied = Nothing
    BY <1>t, <2>0, NothingType, MetaIsKey DEF SnapCall, Idle
  <2>2. snap' = [snap EXCEPT ![c] = s]
    BY <1>1 DEF Snapshot
  <2> HIDE DEF s
  <2>3. /\ snap' \in [Caller -> SnapCall] /\ snap'[c] = s
        /\ \A d \in Caller \ {c} : snap'[d] = snap[d]
    BY <2>1, <2>2, <1>t
  <2>r. InUse(now) => now \in reused'
    BY <1>1 DEF Snapshot
  <2>4. now = latest => now \in reused'
    <3>1. now # 0
      BY <1>t, SMTT(30) DEF Time
    <3> QED
      BY <2>r, <3>1, <1>t DEF InUse, Exists, LatestRestores
  <2>5. now \in Nat /\ now # 0 /\ now <= now /\ now < now + MinAge
    BY <1>t, SnapshotAssumption, SMTT(30) DEF Time
  <2>6. CallTakes(c)'
    BY <1>0, <2>1, <2>3, <2>4, <2>5, NothingType DEF CallTakes, Taking
  <2>7. \A d \in Caller : snap[d].ts = now => now \in reused'
    BY <2>r DEF InUse
  <2> QED
    BY <1>0, <1>t, <1>l, <2>1, <2>3, <2>6, <2>7, StoresNothing, CallKeeps
<1>2. CASE Get(c) /\ ~ Return(c)
  <2>1. PICK k \in Key :
          /\ kv[k] # None
          /\ snap' = [snap EXCEPT ![c].pc = "put", ![c].key = k, ![c].copied[k] = kv[k]]
    BY <1>2, <1>t DEF Get, First, SnapCall
  <2> DEFINE s == snap[c]
             r == [s EXCEPT !.pc = "put", !.key = k, !.copied = [s.copied EXCEPT ![k] = kv[k]]]
  <2>2. [s.copied EXCEPT ![k] = kv[k]] \in Copy
    BY <1>t, MetaIsKey DEF SnapCall, Copy
  <2>3. r \in SnapCall
    BY <2>2, <1>t DEF SnapCall
  <2>4. snap' = [snap EXCEPT ![c] = r]
    BY <2>1, <1>t DEF SnapCall
  <2>5. /\ snap' \in [Caller -> SnapCall] /\ snap'[c] = r
        /\ \A d \in Caller \ {c} : snap'[d] = snap[d]
    BY <2>3, <2>4, <1>t
  <2>6. /\ r.pc = "put" /\ r.key = k /\ r.ts = s.ts /\ r.doomed = s.doomed
        /\ r.copied = [s.copied EXCEPT ![k] = kv[k]]
    BY <1>t DEF SnapCall
  <2>c. r.copied[k] = kv[k] /\ \A j \in Key \ {k} : r.copied[j] = s.copied[j]
    BY <2>6, <1>t DEF SnapCall, Copy
  <2>g. s.pc = "get"
    BY <1>2 DEF Get, SnapStep
  <2> HIDE DEF r
  <2>7. CallTakes(c)'
    <3>1. \A j \in Key : \/ r.copied[j] = None \/ r.key = j
                         \/ /\ objects[s.ts][j] # None
                            /\ s.ts \in reused \/ objects[s.ts][j] = r.copied[j]
      BY <1>t, <2>6, <2>c, <2>g DEF CallTakes, Taking
    <3>2. /\ s.ts # 0 /\ s.ts <= now /\ now < s.ts + MinAge
          /\ s.ts = latest => s.ts \in reused
      BY <1>t, <2>g DEF CallTakes, Taking
    <3>3. /\ now' = now /\ latest' = latest /\ objects' = objects /\ reused' = reused
          /\ snap'[c] = r /\ r.pc = "put" /\ r.ts = s.ts /\ r.copied[r.key] # None
      BY <1>0, <1>2, <2>1, <2>5, <2>6, <2>c
    <3> QED
      BY <3>1, <3>2, <3>3 DEF CallTakes, Taking
  <2>8. \A d \in Caller \ {c} : snap[d].ts # 0 /\ s.ts = snap[d].ts => snap[d].ts \in reused
    BY Shared
  <2> QED
    BY <1>0, <1>t, <1>l, <2>5, <2>6, <2>7, <2>8, StoresNothing, CallKeeps
<1>3. CASE Get(c) /\ Return(c)
  BY <1>0, <1>3, <1>t, ReturnKeeps
<1> QED
  BY <1>1, <1>2, <1>3

\* It stores what it read,
LEMMA PutKeeps ==
  ASSUME SnapInv, NEW c \in Caller, Put(c) PROVE SnapInv'
<1> DEFINE s == snap[c]
           written == [objects EXCEPT ![s.ts][s.key] = s.copied[s.key]]
<1>0. /\ now' = now /\ kv' = kv /\ boot' = boot /\ suspect' = suspect
      /\ reused' = reused
      /\ manifests' = manifests /\ latest' = latest /\ s.pc = "put"
  BY DEF Put, SnapStep, begun
<1>t. /\ objects \in [Time -> [Key -> Value]] /\ manifests \in [Time -> Copy \cup {None}]
      /\ s \in SnapCall /\ snap \in [Caller -> SnapCall] /\ CallTakes(c)
      /\ now \in Time /\ LatestRestores /\ latest \in Time \cup {0}
  BY DEF SnapInv, SnapTypes, BootTypes
<1>s. /\ s.ts \in Time /\ s.key \in Key /\ s.copied \in [Key -> Value] /\ s.ts # 0
      /\ s.copied[s.key] # None
  BY <1>0, <1>t DEF SnapCall, Copy, CallTakes, Taking
<1>w. /\ written \in [Time -> [Key -> Value]]
      /\ \A ts \in Time \ {s.ts} : written[ts] = objects[ts]
      /\ written[s.ts][s.key] = s.copied[s.key]
      /\ \A k \in Key \ {s.key} : written[s.ts][k] = objects[s.ts][k]
  BY <1>t, <1>s
<1>o. objects' \in {objects, written}
  BY DEF Put
<1> HIDE DEF written
<1>p. /\ objects' \in [Time -> [Key -> Value]]
      /\ \A ts \in Time : \A k \in Key :
           /\ objects[ts][k] # None => objects'[ts][k] # None
           /\ ts = s.ts \/ objects'[ts][k] = objects[ts][k]
  BY <1>t, <1>s, <1>w, <1>o
<1>1. CASE Return(c)
  BY <1>0, <1>t, <1>p, <1>1, ReturnKeeps
<1>2. CASE ~ Return(c)
  <2> DEFINE r == [s EXCEPT !.todo = s.todo \ {s.key},
                            !.pc = IF s.todo = {s.key} THEN "manifest" ELSE "get"]
  <2>1. /\ objects' = written
        /\ snap' = [snap EXCEPT ![c].todo = @ \ {s.key},
                                ![c].pc = IF s.todo = {s.key} THEN "manifest" ELSE "get"]
    BY <1>2 DEF Put, written
  <2>2. r \in SnapCall /\ r.ts = s.ts /\ r.copied = s.copied /\ r.pc \in {"manifest", "get"}
    BY <1>t DEF SnapCall
  <2>3. snap' = [snap EXCEPT ![c] = r]
    BY <2>1, <1>t DEF SnapCall
  <2> HIDE DEF r
  <2>4. /\ snap' \in [Caller -> SnapCall] /\ snap'[c] = r
        /\ \A d \in Caller \ {c} : snap'[d] = snap[d]
    BY <2>2, <2>3, <1>t
  <2>5. CallTakes(c)'
    <3>1. /\ s.ts <= now /\ now < s.ts + MinAge
          /\ s.ts = latest => s.ts \in reused
          /\ \A k \in Key : \/ s.copied[k] = None \/ s.key = k
                            \/ /\ objects[s.ts][k] # None
                               /\ s.ts \in reused \/ objects[s.ts][k] = s.copied[k]
      BY <1>t, <1>s DEF CallTakes
    <3>2. \A k \in Key : \/ s.copied[k] = None
                         \/ /\ objects'[s.ts][k] # None
                            /\ s.ts \in reused \/ objects'[s.ts][k] = s.copied[k]
      BY <1>w, <1>s, <2>1, <3>1
    <3> QED
      BY <1>0, <1>s, <2>2, <2>4, <3>1, <3>2 DEF CallTakes, Taking
  <2>6. ASSUME NEW ts \in Time, ts = s.ts => ts \in reused, Restorable(ts)
        PROVE  Restorable(ts)'
    <3>1. \A k \in Key : /\ objects[ts][k] # None => objects'[ts][k] # None
                         /\ ts \in reused' \/ objects'[ts][k] = objects[ts][k]
      BY <1>0, <1>p, <2>6
    <3> QED
      BY <1>0, <2>6, <3>1, RestorableKeeps
  <2>7. LatestRestores'
    <3>1. latest = s.ts => latest \in reused
      BY <1>t, <1>s DEF CallTakes
    <3> QED
      BY <1>0, <1>t, <2>6, <3>1, LatestIs
  <2>8. ASSUME NEW d \in Caller \ {c}, snap[d].ts # 0
        PROVE  /\ snap'[c].ts = snap[d].ts => snap[d].ts \in reused'
               /\ snap[d].ts = latest' => snap[d].ts \in reused'
               /\ Restorable(snap[d].ts) => Restorable(snap[d].ts)'
               /\ \A k \in Key :
                    /\ objects[snap[d].ts][k] # None => objects'[snap[d].ts][k] # None
                    /\ \/ snap[d].ts \in reused'
                       \/ objects'[snap[d].ts][k] = objects[snap[d].ts][k]
    BY <1>0, <1>p, <2>2, <2>4, <2>6, <2>8, Shared
  <2> QED
    BY <1>0, <1>t, <1>p, <2>4, <2>5, <2>7, <2>8, CallKeeps
<1> QED
  BY <1>1, <1>2

\* then the manifest,
LEMMA PutManifestKeeps ==
  ASSUME SnapInv, NEW c \in Caller, PutManifest(c) PROVE SnapInv'
<1> DEFINE s == snap[c]
           written == [manifests EXCEPT ![s.ts] = s.copied]
<1>0. /\ now' = now /\ kv' = kv /\ boot' = boot /\ suspect' = suspect
      /\ reused' = reused
      /\ objects' = objects /\ latest' = latest /\ s.pc = "manifest"
  BY DEF PutManifest, SnapStep
<1>t. /\ objects \in [Time -> [Key -> Value]] /\ manifests \in [Time -> Copy \cup {None}]
      /\ s \in SnapCall /\ snap \in [Caller -> SnapCall] /\ CallTakes(c)
      /\ now \in Time /\ LatestRestores /\ latest \in Time \cup {0}
  BY DEF SnapInv, SnapTypes, BootTypes
<1>s. s.ts \in Time /\ s.copied \in Copy /\ s.ts # 0 /\ s.copied # None
  BY <1>0, <1>t, SnapshotAssumption DEF SnapCall, CallTakes, Taking, Copy
<1>p. /\ manifests' \in [Time -> Copy \cup {None}]
      /\ \A ts \in Time \ {s.ts} : manifests'[ts] = manifests[ts]
      /\ manifests'[s.ts] \in {manifests[s.ts], s.copied}
  BY <1>t, <1>s DEF PutManifest
<1>r. ASSUME NEW ts \in Time, ts = s.ts, manifests'[ts] = s.copied PROVE Restorable(ts)'
  <2>1. \A k \in Key : s.copied[k] # None =>
          objects[ts][k] # None /\ (ts \in reused \/ objects[ts][k] = s.copied[k])
    BY <1>0, <1>t, <1>s, <1>r DEF CallTakes
  <2> QED
    BY <1>0, <1>s, <1>r, <2>1 DEF Restorable
<1>1. CASE Return(c)
  <2>1. \A ts \in Time : \/ manifests'[ts] = manifests[ts]
                         \/ ts = s.ts /\ (ts \in reused => Restorable(ts)')
    BY <1>p, <1>r
  <2> QED
    BY <1>0, <1>t, <1>1, <2>1, <1>p, ReturnKeeps
<1>2. CASE ~ Return(c)
  <2> DEFINE r == [s EXCEPT !.pc = "latest"]
  <2>1. manifests' = written /\ snap' = [snap EXCEPT ![c].pc = "latest"]
    BY <1>2 DEF PutManifest
  <2>2. r \in SnapCall /\ r.ts = s.ts /\ r.copied = s.copied /\ r.pc = "latest"
    BY <1>t DEF SnapCall
  <2>3. snap' = [snap EXCEPT ![c] = r]
    BY <2>1, <1>t DEF SnapCall
  <2> HIDE DEF r
  <2>4. /\ snap' \in [Caller -> SnapCall] /\ snap'[c] = r
        /\ \A d \in Caller \ {c} : snap'[d] = snap[d]
    BY <2>2, <2>3, <1>t
  <2>r. \A ts \in Time : ts = s.ts => Restorable(ts)'
    BY <1>r, <1>t, <1>s, <2>1
  <2>5. CallTakes(c)'
    <3>1. /\ s.ts <= now /\ now < s.ts + MinAge
          /\ s.ts = latest => s.ts \in reused
          /\ \A k \in Key : \/ s.copied[k] = None
                            \/ /\ objects[s.ts][k] # None
                               /\ s.ts \in reused \/ objects[s.ts][k] = s.copied[k]
      BY <1>0, <1>t, <1>s DEF CallTakes
    <3> QED
      BY <1>0, <1>s, <2>2, <2>4, <2>r, <3>1 DEF CallTakes, Taking
  <2>6. ASSUME NEW ts \in Time, Restorable(ts) PROVE Restorable(ts)'
    <3>1. CASE ts = s.ts
      BY <3>1, <2>r
    <3>2. CASE ts # s.ts
      BY <1>0, <1>p, <2>6, <3>2, RestorableKeeps
    <3> QED
      BY <3>1, <3>2
  <2>7. LatestRestores'
    BY <1>0, <1>t, <2>6, LatestIs
  <2>8. ASSUME NEW d \in Caller \ {c}, snap[d].ts # 0
        PROVE  /\ snap'[c].ts = snap[d].ts => snap[d].ts \in reused'
               /\ snap[d].ts = latest' => snap[d].ts \in reused'
               /\ Restorable(snap[d].ts) => Restorable(snap[d].ts)'
    BY <1>0, <2>2, <2>4, <2>6, <2>8, Shared
  <2> QED
    BY <1>0, <1>t, <1>p, <2>4, <2>5, <2>7, <2>8, CallKeeps
<1> QED
  BY <1>1, <1>2

\* and last the pointer: all that the manifest names is stored by then.
LEMMA PutLatestKeeps ==
  ASSUME SnapInv, NEW c \in Caller, PutLatest(c) PROVE SnapInv'
<1> DEFINE s == snap[c]
<1>0. /\ now' = now /\ kv' = kv /\ boot' = boot /\ suspect' = suspect
      /\ reused' = reused
      /\ objects' = objects /\ manifests' = manifests /\ s.pc = "latest"
      /\ latest' \in {latest, s.ts}
  BY DEF PutLatest, SnapStep, begun
<1>t. /\ objects \in [Time -> [Key -> Value]] /\ manifests \in [Time -> Copy \cup {None}]
      /\ s \in SnapCall /\ snap \in [Caller -> SnapCall] /\ CallTakes(c)
      /\ now \in Time /\ LatestRestores /\ latest \in Time \cup {0}
  BY DEF SnapInv, SnapTypes, BootTypes
<1>s. s.ts \in Time /\ s.ts # 0 /\ Restorable(s.ts)
  BY <1>0, <1>t DEF SnapCall, CallTakes, Taking
<1> DEFINE l == [Idle EXCEPT !.pc = "list"]
<1>l. l \in SnapCall /\ l.pc = "list" /\ l.ts = 0
  BY IdleType DEF SnapCall, Idle
<1>1. \/ snap' = [snap EXCEPT ![c] = Idle]
      \/ c = "loop" /\ snap' = [snap EXCEPT ![c] = l]
  BY DEF PutLatest, Return
<1> HIDE DEF l
<1>2. /\ snap' \in [Caller -> SnapCall] /\ snap'[c] \in {Idle, l}
      /\ (snap'[c] = l => c = "loop" \/ l = Idle)
      /\ \A d \in Caller \ {c} : snap'[d] = snap[d]
  BY <1>1, <1>t, <1>l, IdleType
<1>3. CallTakes(c)'
  BY <1>2, <1>l, IdleType DEF CallTakes, Taking
<1>r. \A ts \in Time : Restorable(ts) <=> Restorable(ts)'
  BY <1>0 DEF Restorable
<1>4. LatestRestores'
  BY <1>0, <1>t, <1>s, <1>r, LatestIs
<1>5. ASSUME NEW d \in Caller \ {c}, snap[d].ts # 0
      PROVE  /\ snap'[c].ts # snap[d].ts
             /\ snap[d].ts = latest' => snap[d].ts \in reused'
             /\ Restorable(snap[d].ts) => Restorable(snap[d].ts)'
  BY <1>0, <1>2, <1>l, <1>r, <1>5, IdleType, Shared
<1> QED
  BY <1>0, <1>t, <1>s, <1>2, <1>3, <1>4, <1>5, CallKeeps

\* The collector deletes prefixes that are neither young nor the latest.
LEMMA GCKeeps ==
  ASSUME SnapInv, gcList \/ gcLatest \/ gcDelete PROVE SnapInv'
<1> DEFINE s == snap["loop"]
<1>c. "loop" \in Caller
  BY DEF Caller
<1>0. /\ now' = now /\ kv' = kv /\ boot' = boot /\ suspect' = suspect
      /\ latest' = latest /\ reused' = reused /\ s.pc \in {"list", "read", "delete"}
  BY DEF gcList, gcLatest, gcDelete, SnapStep, begun
<1>t. /\ objects \in [Time -> [Key -> Value]] /\ manifests \in [Time -> Copy \cup {None}]
      /\ s \in SnapCall /\ snap \in [Caller -> SnapCall] /\ CallTakes("loop")
      /\ now \in Time /\ LatestRestores /\ latest \in Time \cup {0}
  BY <1>c DEF SnapInv, SnapTypes, BootTypes
<1>s. s.ts = 0 /\ s.doomed \subseteq Time
  BY <1>0, <1>t DEF SnapCall, CallTakes, Taking
<1>n. MinAge \in Nat /\ now \in Nat /\ Time \subseteq Nat \ {0}
  BY <1>t, SnapshotAssumption, SMTT(30) DEF Time
\* The loop goes on with a new record r.
<1>1. ASSUME NEW pc \in {"read", "delete"}, NEW D \in SUBSET Time,
             snap' = [snap EXCEPT !["loop"] = [s EXCEPT !.pc = pc, !.doomed = D]],
             pc = "delete" => \A ts \in D : ts # latest /\ ts + MinAge <= now
      PROVE  /\ snap' \in [Caller -> SnapCall] /\ snap'["loop"].ts = 0 /\ CallTakes("loop")'
             /\ \A d \in Caller \ {"loop"} : snap'[d] = snap[d]
  <2> DEFINE r == [s EXCEPT !.pc = pc, !.doomed = D]
  <2>1. r \in SnapCall /\ r.ts = 0 /\ r.pc = pc /\ r.doomed = D
    BY <1>t, <1>s DEF SnapCall
  <2> HIDE DEF r
  <2>2. /\ snap' \in [Caller -> SnapCall] /\ snap'["loop"] = r
        /\ \A d \in Caller \ {"loop"} : snap'[d] = snap[d]
    BY <1>1, <1>c, <1>t, <2>1 DEF r
  <2>3. CallTakes("loop")'
    BY <1>0, <1>1, <2>1, <2>2 DEF CallTakes, Taking
  <2> QED
    BY <2>1, <2>2, <2>3
<1>2. CASE gcList \/ gcLatest
  <2>0. objects' = objects /\ manifests' = manifests
    BY <1>2 DEF gcList, gcLatest
  <2>1. CASE Return("loop")
    BY <1>c, <1>0, <1>t, <2>0, <2>1, ReturnKeeps
  <2>2. CASE ~ Return("loop")
    <3>1. PICK pc \in {"read", "delete"}, D \in SUBSET Time :
            /\ snap' = [snap EXCEPT !["loop"].pc = pc, !["loop"].doomed = D]
            /\ pc = "delete" => \A ts \in D : ts # latest /\ Old(ts, now)
      <4>1. CASE gcList
        <5> DEFINE found == {ts \in Time : Exists(ts)}
                   newest == {ts \in found : Cardinality({u \in found : u > ts}) < Keep}
        <5>1. snap' = [snap EXCEPT !["loop"].pc = "read", !["loop"].doomed = found \ newest]
          BY <4>1, <2>2 DEF gcList
        <5> QED
          BY <5>1
      <4>2. CASE gcLatest
        <5>1. snap' = [snap EXCEPT !["loop"].pc = "delete",
                         !["loop"].doomed = {ts \in s.doomed \ {latest} : Old(ts, now)}]
          BY <4>2, <2>2, <1>t DEF gcLatest, SnapCall
        <5>2. {ts \in s.doomed \ {latest} : Old(ts, now)} \in SUBSET Time
          BY <1>s
        <5> QED
          BY <5>1, <5>2
      <4> QED
        BY <1>2, <4>1, <4>2
    <3>2. snap' = [snap EXCEPT !["loop"] = [s EXCEPT !.pc = pc, !.doomed = D]]
      BY <3>1, <1>t, <1>c DEF SnapCall
    <3>3. pc = "delete" => \A ts \in D : ts # latest /\ ts + MinAge <= now
      BY <3>1, <1>n, SMTT(30) DEF Old
    <3>4. LatestRestores'
      BY <1>0, <1>t, <2>0 DEF LatestRestores
    <3> QED
      BY <1>0, <1>c, <1>t, <2>0, <1>1, <3>2, <3>3, <3>4, StoresNothing, CallKeeps
  <2> QED
    BY <2>1, <2>2
<1>3. CASE gcDelete
  <2>p. s.pc = "delete" /\ \A ts \in s.doomed : ts # latest /\ ts + MinAge <= now
    BY <1>3, <1>t DEF gcDelete, SnapStep, CallTakes
  <2>1. CASE objects' = objects /\ manifests' = manifests /\ Return("loop")
    BY <1>c, <1>0, <1>t, <2>1, ReturnKeeps
  <2>2. CASE ~ (objects' = objects /\ manifests' = manifests /\ Return("loop"))
    <3>1. PICK ts \in s.doomed, left \in [Key -> Value] :
            /\ snap' = [snap EXCEPT !["loop"].doomed = @ \ {ts}]
            /\ objects' = [objects EXCEPT ![ts] = left]
            /\ manifests' \in {manifests, [manifests EXCEPT ![ts] = None]}
      <4>1. PICK ts \in s.doomed :
              /\ snap' = [snap EXCEPT !["loop"].doomed = @ \ {ts}]
              /\ \/ /\ objects' = [objects EXCEPT ![ts] = Nothing]
                    /\ manifests' = [manifests EXCEPT ![ts] = None]
                 \/ \E left \in SUBSET Key :
                      /\ objects' = [objects EXCEPT ![ts] =
                           [k \in Key |-> IF k \in left THEN objects[ts][k] ELSE None]]
                      /\ manifests' \in {manifests, [manifests EXCEPT ![ts] = None]}
        BY <1>3, <2>2 DEF gcDelete
      <4>2. \A left \in SUBSET Key :
              [k \in Key |-> IF k \in left THEN objects[ts][k] ELSE None] \in [Key -> Value]
        BY <1>t, <1>s, Values, SMTT(30)
      <4> QED
        BY <4>1, <4>2, NothingType
    <3>2. ts \in Time
      BY <1>s
    <3>3. /\ objects' \in [Time -> [Key -> Value]] /\ manifests' \in [Time -> Copy \cup {None}]
          /\ \A u \in Time \ {ts} : objects'[u] = objects[u] /\ manifests'[u] = manifests[u]
      BY <1>t, <3>1, <3>2
    <3>4. snap' =
            [snap EXCEPT !["loop"] = [s EXCEPT !.pc = "delete", !.doomed = s.doomed \ {ts}]]
      BY <3>1, <1>t, <1>c, <2>p DEF SnapCall
    <3>5. LatestRestores'
      BY <1>0, <1>t, <3>2, <3>3, <2>p DEF LatestRestores
    <3>6. s.doomed \ {ts} \in SUBSET Time
      BY <1>s
    <3>7. ASSUME NEW d \in Caller, snap[d].ts # 0 PROVE snap[d].ts \in Time \ {ts}
      <4>1. snap[d].ts \in Time /\ now < snap[d].ts + MinAge
        BY <3>7 DEF SnapInv, SnapTypes, SnapCall, CallTakes
      <4>2. snap[d].ts \in Nat /\ ts \in Nat /\ ts + MinAge <= now
        BY <4>1, <1>n, <3>2, <2>p
      <4>3. snap[d].ts # ts
        BY <4>1, <4>2, <1>n, SMTT(30)
      <4> QED
        BY <4>1, <4>3
    <3>8. /\ snap' \in [Caller -> SnapCall] /\ snap'["loop"].ts = 0 /\ CallTakes("loop")'
          /\ \A d \in Caller \ {"loop"} : snap'[d] = snap[d]
      BY <1>1, <2>p, <3>4, <3>6
    <3>9. ASSUME NEW d \in Caller \ {"loop"}, snap[d].ts # 0
          PROVE  /\ snap[d].ts = latest' => snap[d].ts \in reused'
                 /\ Restorable(snap[d].ts) => Restorable(snap[d].ts)'
                 /\ objects'[snap[d].ts] = objects[snap[d].ts]
      <4>1. snap[d].ts \in Time \ {ts}
        BY <3>7, <3>9
      <4>2. Restorable(snap[d].ts) => Restorable(snap[d].ts)'
        BY <1>0, <3>3, <3>8, <4>1 DEF Restorable
      <4> QED
        BY <1>0, <1>c, <3>3, <3>9, <4>1, <4>2, Shared
    <3> QED
      BY <1>0, <1>c, <3>3, <3>5, <3>8, <3>9, CallKeeps
  <2> QED
    BY <2>1, <2>2
<1> QED
  BY <1>2, <1>3

\* Time passes, and a call that took too long has given up.
LEMMA TickKeeps == ASSUME SnapInv, Tick PROVE SnapInv'
<1>0. /\ kv' = kv /\ boot' = boot /\ latest' = latest /\ snap' = snap
      /\ objects' = objects /\ manifests' = manifests /\ now' = now + 1
      /\ reused' = reused /\ suspect' = suspect
  BY DEF Tick, begun
<1>n. MinAge \in Nat /\ now \in Nat /\ Time \subseteq Nat \ {0} /\ now' \in Time
  BY SnapshotAssumption, SMTT(30) DEF SnapInv, SnapTypes, Tick, Time
<1>1. SnapTypes' /\ BootTypes' /\ suspect' \in BOOLEAN /\ OwnPrefix' /\ LatestRestores'
  BY <1>0, <1>n DEF SnapInv, SnapTypes, BootTypes, OwnPrefix, LatestRestores
<1>2. ASSUME NEW c \in Caller PROVE CallTakes(c)'
  <2>0. snap[c].ts \in Time \cup {0} /\ snap[c].doomed \subseteq Time
    BY DEF SnapInv, SnapTypes, SnapCall
  <2>n. snap[c].ts \in Nat /\ snap[c].doomed \subseteq Nat
    BY <2>0, SnapshotAssumption, SMTT(30) DEF Time
  <2>1. CallTakes(c) /\ snap[c].ts \in Nat /\ snap[c].doomed \subseteq Nat
    BY <2>n DEF SnapInv
  <2>2. snap[c].ts # 0 => now + 1 < snap[c].ts + MinAge
    <3>1. snap[c].ts # 0 => ~ (now + 1) - snap[c].ts >= MinAge
      BY DEF Tick, Old
    <3> QED
      BY <2>1, <3>1, <1>n, SMTT(30)
  <2>3. snap[c].ts # 0 => snap[c].ts <= now + 1
    <3>1. snap[c].ts # 0 => snap[c].ts <= now
      BY <2>1 DEF CallTakes
    <3> QED
      BY <2>1, <3>1, <1>n, SMTT(30)
  <2>4. snap[c].pc = "delete" => \A ts \in snap[c].doomed : ts + MinAge <= now + 1
    <3>1. snap[c].pc = "delete" => \A ts \in snap[c].doomed : ts + MinAge <= now
      BY <2>1 DEF CallTakes
    <3> QED
      BY <2>1, <3>1, <1>n, SMTT(30)
  <2>5. Restorable(snap[c].ts) => Restorable(snap[c].ts)'
    BY <1>0 DEF Restorable
  <2> QED
    BY <1>0, <2>1, <2>2, <2>3, <2>4, <2>5 DEF CallTakes
<1> QED
  BY <1>1, <1>2 DEF SnapInv

\* The process ends; what it stored stays, whatever becomes of the bucket.
LEMMA CrashKeeps == ASSUME SnapInv, Crash PROVE SnapInv'
<1>1. SnapTypes' /\ LatestRestores'
  BY IdleType DEF SnapInv, SnapTypes, LatestRestores, Crash, begun
<1>2. BootTypes' /\ suspect' \in BOOLEAN
  BY NothingType DEF SnapInv, BootTypes, Crash, Down
<1>3. \A c \in Caller : snap'[c] = Idle
  BY DEF Crash
<1>4. \A c \in Caller : CallTakes(c)'
  BY <1>3, IdleType DEF CallTakes, Taking
<1>5. OwnPrefix'
  BY <1>3, IdleType DEF OwnPrefix
<1> QED
  BY <1>1, <1>2, <1>4, <1>5 DEF SnapInv

\* Snapshot, the loop, the collector, a start and the loss of the bucket keep the
\* invariant.
THEOREM SnapshotsInductive == Spec => []SnapInv
<1>1. SnapInv /\ [Next]_vars => SnapInv'
  <2> SUFFICES ASSUME SnapInv, [Next]_vars PROVE SnapInv'
    OBVIOUS
  <2>1. CASE UNCHANGED vars
    BY <2>1, SMTT(30)
       DEF vars, SnapInv, SnapTypes, BootTypes, CallTakes, OwnPrefix, LatestRestores,
           Restorable
  <2>2. CASE SnapshotStep
    BY <2>2, SnapshotKeeps, PutKeeps, PutManifestKeeps, PutLatestKeeps, GCKeeps
       DEF SnapshotStep
  <2> QED
    BY <2>1, <2>2, BucketKeeps, TickKeeps, CrashKeeps DEF Next
<1> QED
  BY <1>1, SnapInit, PTL DEF Spec

\* Whenever a latest pointer exists, the snapshot it names has its manifest and every
\* object the manifest lists: PutLatest is the last write of Snapshot, and gcSnapshots
\* spares the prefix the pointer names and those that are still being written.
THEOREM LatestIsRestorable == Spec => []LatestRestores
<1>1. SnapInv => LatestRestores
  BY DEF SnapInv
<1> QED
  BY <1>1, SnapshotsInductive, PTL

-----------------------------------------------------------------------------
\* What is served is whole.

\* The keys of a table, apart from the list of the tables.
KeysOf(t) == {<<"table", t>>, <<"manifest", t>>}

\* A copy of the bucket that has a list, and the keys of what it lists.
Whole(m) == m[Meta] # None /\ \A t \in m[Meta] : \A k \in KeysOf(t) : m[k] # None

\* The bucket is whole, and CREATE and DROP write its keys in an order that keeps it so.
BucketWhole ==
  ~ suspect /\ kv[Meta] # None =>
    \A t \in Table :
      /\ t \in kv[Meta] \/ ddl[t] = "record" => \A k \in KeysOf(t) : kv[k] # None
      /\ ddl[t] = "manifest" => kv[<<"manifest", t>>] # None
      /\ ddl[t] \in {"unlisted", "unrecorded"} => t \notin kv[Meta]

\* A call copies a key, or has copied it.
Covers(c, k) == k \in snap[c].todo \/ snap[c].copied[k] # None

\* A call that no CREATE has torn copies the list, and the keys of what it lists.
CallWhole(c) ==
  LET s == snap[c] IN
  s.ts # 0 =>
    /\ s.pc \in {"manifest", "latest"} => s.todo = {}
    /\ ~ s.torn =>
         /\ Covers(c, Meta)
         /\ Meta \in s.todo => \A t \in kv[Meta] : \A k \in KeysOf(t) : Covers(c, k)
         /\ s.copied[Meta] # None =>
              \A t \in s.copied[Meta] : \A k \in KeysOf(t) : Covers(c, k)

ManifestsWhole ==
  \A ts \in Time : manifests[ts] # None /\ ts \notin torn => Whole(manifests[ts])

\* While a coordinator starts nothing else runs, and what it has restored is in the
\* bucket.
Starts ==
  /\ ~ Serving => (\A t \in Table : ddl[t] = "none") /\ \A c \in Caller : snap[c] = Idle
  /\ boot.pc = "keys" =>
       /\ boot.ts \in Time /\ manifests[boot.ts] # None
       /\ \A k \in Key :
            \/ boot.mf[k] = manifests[boot.ts][k]
            \/ boot.mf[k] = None /\ kv[k] = manifests[boot.ts][k]

DDL == {"none", "manifest", "record", "unlisted", "unrecorded"}

\* The inductive invariant.
WholeInv ==
  /\ ddl \in [Table -> DDL]
  /\ BucketWhole /\ ManifestsWhole /\ Starts
  /\ \A c \in Caller : CallWhole(c)

\* The keys of a table are keys, and none is the list.
LEMMA KeysOfType == \A t \in Table : KeysOf(t) \subseteq Key /\ Meta \notin KeysOf(t)
<1> SUFFICES ASSUME NEW t \in Table
             PROVE  /\ <<"table", t>> \in Key /\ <<"manifest", t>> \in Key
                    /\ Meta # <<"table", t>> /\ Meta # <<"manifest", t>>
  BY DEF KeysOf
<1>1. Meta # <<"table", t>> /\ Meta # <<"manifest", t>>
  BY MetaIsKey
<1>2. <<"table", t>> \in Key /\ <<"manifest", t>> \in Key
  BY SMTT(30) DEF Key
<1> QED
  BY <1>1, <1>2

LEMMA WholeInit == ASSUME Init PROVE WholeInv
<1>1. /\ ddl = [t \in Table |-> "none"] /\ manifests = [ts \in Time |-> None]
      /\ snap = [c \in Caller |-> Idle] /\ boot.pc = "serving"
      /\ kv \in {[Nothing EXCEPT ![Meta] = {}], [k \in Key |-> IF k = Meta THEN Table ELSE 1]}
  BY DEF Init, Down
<1>2. BucketWhole
  <2>1. CASE kv = [Nothing EXCEPT ![Meta] = {}]
    <3>1. kv[Meta] = {}
      BY <2>1, NothingType, MetaIsKey
    <3> QED
      BY <1>1, <3>1 DEF BucketWhole
  <2>2. CASE kv = [k \in Key |-> IF k = Meta THEN Table ELSE 1]
    <3>1. \A t \in Table : \A k \in KeysOf(t) : kv[k] = 1
      BY <2>2, KeysOfType
    <3>2. \A t \in Table : \A k \in KeysOf(t) : kv[k] # None
      <4>1. 1 # None
        BY SnapshotAssumption, SMTT(30)
      <4> QED
        BY <3>1, <4>1
    <3> QED
      BY <1>1, <3>2 DEF BucketWhole
  <2> QED
    BY <1>1, <2>1, <2>2
<1>3. ManifestsWhole /\ Starts /\ ddl \in [Table -> DDL]
  BY <1>1 DEF ManifestsWhole, Starts, Serving, DDL
<1>4. \A c \in Caller : CallWhole(c)
  BY <1>1, IdleType DEF CallWhole
<1> QED
  BY <1>2, <1>3, <1>4 DEF WholeInv

\* Two tables have no key in common.
LEMMA KeysApart ==
  ASSUME NEW t \in Table, NEW u \in Table, u # t
  PROVE  /\ <<"table", t>> \notin KeysOf(u) /\ <<"manifest", t>> \notin KeysOf(u)
         /\ <<"table", t>> # <<"manifest", t>>
  BY SMTT(30) DEF KeysOf

\* CREATE and DROP keep the bucket whole, and mark what they tear.
LEMMA WriterWhole ==
  ASSUME SnapInv, WholeInv, WriterStep PROVE WholeInv'
<1>t. /\ kv \in [Key -> Value] /\ kv[Meta] \in SUBSET Table /\ kv[Meta] # None
      /\ ddl \in [Table -> DDL] /\ Serving /\ snap \in [Caller -> SnapCall]
  BY SnapshotAssumption
     DEF SnapInv, SnapTypes, BootTypes, Copy, WholeInv, WriterStep, Serving
<1>m. Meta \in Key /\ 1 # None /\ \A n \in Nat : n + 1 # None
  BY MetaIsKey, SnapshotAssumption, SMTT(30)
<1> PICK t \in Table :
      \/ CreateManifest(t) \/ CreateRecord(t) \/ CreateMeta(t) \/ Commit(t)
      \/ DropMeta(t) \/ DropRecord(t) \/ DropManifest(t)
  BY DEF WriterStep
<1>k. /\ <<"table", t>> \in Key /\ <<"manifest", t>> \in Key
      /\ Meta # <<"table", t>> /\ Meta # <<"manifest", t>>
      /\ KeysOf(t) = {<<"table", t>>, <<"manifest", t>>}
  BY KeysOfType DEF KeysOf
<1>0. /\ boot' = boot /\ suspect' = suspect /\ manifests' = manifests /\ torn' = torn
  BY DEF CreateManifest, CreateRecord, CreateMeta, Commit, DropMeta, DropRecord,
     DropManifest, Write, begun
<1>b. BucketWhole
  BY DEF WholeInv
\* Which key is written, and what the statement does next.
<1>1. \/ /\ kv' = [kv EXCEPT ![<<"manifest", t>>] = 1] /\ t \notin kv[Meta]
         /\ ddl' = [ddl EXCEPT ![t] = "manifest"]
      \/ /\ kv' = [kv EXCEPT ![<<"table", t>>] = 1] /\ ddl[t] = "manifest"
         /\ ddl' = [ddl EXCEPT ![t] = "record"]
      \/ /\ kv' = [kv EXCEPT ![Meta] = kv[Meta] \cup {t}] /\ ddl[t] = "record"
         /\ ddl' = [ddl EXCEPT ![t] = "none"]
         /\ snap' = [c \in Caller |->
              [snap[c] EXCEPT !.torn = snap[c].torn \/ Meta \in snap[c].todo]]
      \/ /\ kv' = [kv EXCEPT ![Meta] = kv[Meta] \ {t}]
         /\ ddl' = [ddl EXCEPT ![t] = "unlisted"] /\ snap' = snap
      \/ /\ kv' = [kv EXCEPT ![<<"table", t>>] = None] /\ ddl[t] = "unlisted"
         /\ ddl' = [ddl EXCEPT ![t] = "unrecorded"]
      \/ /\ kv' = [kv EXCEPT ![<<"manifest", t>>] = None] /\ ddl[t] = "unrecorded"
         /\ ddl' = [ddl EXCEPT ![t] = "none"]
      \/ /\ \E v : v # None /\ kv' = [kv EXCEPT ![<<"manifest", t>>] = v]
         /\ ddl[t] = "none" /\ ddl' = [ddl EXCEPT ![t] = "none"]
  <2>1. CASE Commit(t)
    <3>1. kv[<<"manifest", t>>] + 1 # None
      BY <2>1, SnapshotAssumption, SMTT(30) DEF Commit
    <3> QED
      BY <2>1, <3>1 DEF Commit, Write
  <2> QED
    BY <2>1 DEF CreateManifest, CreateRecord, CreateMeta, DropMeta, DropRecord,
       DropManifest, Write, Listed
<1>d. ddl' \in [Table -> DDL] /\ \A u \in Table \ {t} : ddl'[u] = ddl[u]
  BY <1>1, <1>t DEF DDL
<1>s. \/ snap' = snap
      \/ /\ kv' = [kv EXCEPT ![Meta] = kv[Meta] \cup {t}]
         /\ snap' = [c \in Caller |->
              [snap[c] EXCEPT !.torn = snap[c].torn \/ Meta \in snap[c].todo]]
  BY DEF CreateManifest, CreateRecord, CreateMeta, Commit, DropMeta, DropRecord,
     DropManifest, Write
\* The list grows in the step that marks the calls.
<1>e. \/ kv'[Meta] \in {kv[Meta], kv[Meta] \ {t}}
      \/ /\ kv'[Meta] = kv[Meta] \cup {t}
         /\ snap' = [c \in Caller |->
              [snap[c] EXCEPT !.torn = snap[c].torn \/ Meta \in snap[c].todo]]
  BY <1>1, <1>t, <1>k, <1>m
<1>2. BucketWhole'
  <2> SUFFICES ASSUME ~ suspect, NEW u \in Table
               PROVE  /\ u \in kv'[Meta] \/ ddl'[u] = "record" =>
                           \A k \in KeysOf(u) : kv'[k] # None
                      /\ ddl'[u] = "manifest" => kv'[<<"manifest", u>>] # None
                      /\ ddl'[u] \in {"unlisted", "unrecorded"} => u \notin kv'[Meta]
    BY <1>0 DEF BucketWhole
  <2>0. /\ u \in kv[Meta] \/ ddl[u] = "record" => \A k \in KeysOf(u) : kv[k] # None
        /\ ddl[u] = "manifest" => kv[<<"manifest", u>>] # None
        /\ ddl[u] \in {"unlisted", "unrecorded"} => u \notin kv[Meta]
    BY <1>b, <1>t DEF BucketWhole
  <2>1. CASE u # t
    <3>1. \A k \in KeysOf(u) : kv'[k] = kv[k]
      BY <1>1, <1>t, <2>1, KeysApart, KeysOfType
    <3>2. u \in kv'[Meta] <=> u \in kv[Meta]
      BY <1>e, <2>1
    <3>3. <<"manifest", u>> \in KeysOf(u)
      BY DEF KeysOf
    <3> QED
      BY <1>d, <2>0, <2>1, <3>1, <3>2, <3>3
  <2>2. CASE u = t
    <3>n. <<"table", t>> # <<"manifest", t>>
      BY SMTT(30)
    <3> QED
      BY <1>1, <1>t, <1>k, <1>m, <2>0, <2>2, <3>n
  <2> QED
    BY <2>1, <2>2
<1>3. ManifestsWhole' /\ Starts'
  BY <1>0, <1>t DEF WholeInv, ManifestsWhole, Whole, Starts, Serving
<1>4. ASSUME NEW c \in Caller PROVE CallWhole(c)'
  <2>0. CallWhole(c) /\ snap[c] \in SnapCall
    BY <1>t DEF WholeInv
  <2>1. CASE kv'[Meta] \subseteq kv[Meta] /\ snap' = snap
    BY <2>0, <2>1 DEF CallWhole, Covers
  <2>2. CASE snap' = [d \in Caller |->
                      [snap[d] EXCEPT !.torn = snap[d].torn \/ Meta \in snap[d].todo]]
    <3>1. /\ snap'[c].pc = snap[c].pc /\ snap'[c].ts = snap[c].ts
          /\ snap'[c].todo = snap[c].todo /\ snap'[c].copied = snap[c].copied
          /\ ~ snap'[c].torn => ~ snap[c].torn /\ Meta \notin snap[c].todo
      BY <2>0, <2>2 DEF SnapCall
    <3> QED
      BY <2>0, <3>1 DEF CallWhole, Covers
  <2>3. kv'[Meta] \in {kv[Meta], kv[Meta] \ {t}} => kv'[Meta] \subseteq kv[Meta]
    OBVIOUS
  <2> QED
    BY <1>e, <1>s, <2>1, <2>2, <2>3
<1> QED
  BY <1>d, <1>2, <1>3, <1>4 DEF WholeInv

\* A start restores what the manifest names, and serves.
LEMMA StartWhole ==
  ASSUME SnapInv, WholeInv, StartStep PROVE WholeInv'
<1>0. /\ ddl' = ddl /\ snap' = snap /\ manifests' = manifests /\ torn' = torn
      /\ boot.pc # "serving"
  BY DEF StartStep, InitCatalog, MaybeRestoreCatalog, readLatestTS, readManifest,
     restoreKey, restored, BootStep, begun
<1>t. /\ kv \in Copy /\ kv \in [Key -> Value] /\ manifests \in [Time -> Copy \cup {None}]
      /\ boot \in [pc : {"down", "check", "pointer", "manifest", "keys", "serving"},
                    mf : Copy, ts : Time \cup {0}]
      /\ boot.pc = "manifest" => boot.ts \in Time
      /\ Meta \in Key
  BY MetaIsKey DEF SnapInv, SnapTypes, BootTypes, Copy
<1>w. BucketWhole /\ ManifestsWhole /\ Starts /\ ddl \in [Table -> DDL]
  BY DEF WholeInv
<1>i. (\A t \in Table : ddl[t] = "none") /\ \A c \in Caller : snap[c] = Idle
  BY <1>0, <1>w DEF Starts, Serving
<1>1. ManifestsWhole' /\ ddl' \in [Table -> DDL]
  BY <1>0, <1>w DEF ManifestsWhole, Whole
<1>2. \A c \in Caller : CallWhole(c)'
  BY <1>0, <1>i, IdleType DEF CallWhole
\* While no CREATE or DROP is under way, the listed tables are what matters.
<1>3. ASSUME ~ suspect' /\ kv'[Meta] # None =>
               \A t \in Table \cap kv'[Meta] : \A k \in KeysOf(t) : kv'[k] # None
      PROVE  BucketWhole'
  <2> SUFFICES ASSUME ~ suspect', kv'[Meta] # None, NEW t \in Table
               PROVE  /\ t \in kv'[Meta] \/ ddl'[t] = "record" =>
                           \A k \in KeysOf(t) : kv'[k] # None
                      /\ ddl'[t] = "manifest" => kv'[<<"manifest", t>>] # None
                      /\ ddl'[t] \in {"unlisted", "unrecorded"} => t \notin kv'[Meta]
    BY DEF BucketWhole
  <2>1. ddl'[t] = "none"
    BY <1>0, <1>i
  <2> QED
    BY <1>3, <2>1
<1>4. ASSUME kv' = kv, suspect' = suspect PROVE BucketWhole'
  BY <1>3, <1>4, <1>w DEF BucketWhole
<1>d. Down.pc = "down" /\ [Down EXCEPT !.pc = "serving"].pc = "serving"
  BY DEF Down
<1>5. CASE InitCatalog
  <2>1. kv'[Meta] = {} \/ kv' = kv
    BY <1>5, <1>t DEF InitCatalog
  <2>2. suspect' = suspect /\ boot'.pc = "check"
    BY <1>5, <1>t DEF InitCatalog
  <2>3. BucketWhole'
    BY <1>3, <1>4, <2>1, <2>2
  <2>4. Starts'
    BY <1>0, <1>i, <2>2 DEF Starts, Serving
  <2> QED
    BY <1>1, <1>2, <2>3, <2>4 DEF WholeInv
<1>6. CASE MaybeRestoreCatalog \/ readLatestTS
  <2>1. kv' = kv /\ suspect' = suspect /\ boot'.pc # "keys"
    BY <1>6, <1>t, <1>d DEF MaybeRestoreCatalog, readLatestTS
  <2>2. Starts'
    BY <1>0, <1>i, <2>1 DEF Starts
  <2> QED
    BY <1>1, <1>2, <1>4, <2>1, <2>2 DEF WholeInv
<1>7. CASE readManifest
  <2>1. kv' = kv /\ suspect' = suspect
    BY <1>7 DEF readManifest
  <2>2. CASE boot' = Down
    BY <1>0, <1>1, <1>2, <1>4, <1>i, <1>d, <2>1, <2>2 DEF WholeInv, Starts
  <2>3. CASE boot' # Down
    <3>1. /\ manifests[boot.ts] # None /\ boot.ts \in Time
          /\ boot' = [boot EXCEPT !.pc = "keys", !.mf = manifests[boot.ts]]
      BY <1>7, <1>t, <2>3 DEF readManifest, BootStep
    <3>2. boot'.ts = boot.ts /\ boot'.mf = manifests[boot.ts]
      BY <1>t, <3>1
    <3>3. Starts'
      BY <1>0, <1>i, <3>1, <3>2 DEF Starts
    <3> QED
      BY <1>1, <1>2, <1>4, <2>1, <3>3 DEF WholeInv
  <2> QED
    BY <2>2, <2>3
<1>8. CASE restoreKey
  <2>1. boot.pc = "keys" /\ (suspect' <=> suspect \/ kv' # kv)
    BY <1>8 DEF restoreKey, BootStep
  <2>2. BucketWhole'
    <3>1. CASE kv' = kv
      BY <1>3, <1>w, <2>1, <3>1 DEF BucketWhole
    <3>2. CASE kv' # kv
      BY <1>3, <2>1, <3>2
    <3> QED
      BY <3>1, <3>2
  <2>3. Starts'
    <3>1. CASE boot' = Down
      BY <1>0, <1>i, <1>d, <3>1 DEF Starts
    <3>2. CASE boot' # Down
      <4>1. PICK k \in Key : /\ boot.mf[k] # None /\ kv' = [kv EXCEPT ![k] = boot.mf[k]]
                             /\ boot' = [boot EXCEPT !.mf[k] = None]
        BY <1>8, <3>2 DEF restoreKey, First, Restored
      <4> DEFINE M == manifests[boot.ts]
      <4>2. /\ boot.ts \in Time /\ M # None
            /\ \A j \in Key : boot.mf[j] = M[j] \/ (boot.mf[j] = None /\ kv[j] = M[j])
        BY <1>w, <2>1 DEF Starts
      <4>3. /\ boot'.ts = boot.ts /\ boot'.pc = "keys"
            /\ boot'.mf = [boot.mf EXCEPT ![k] = None] /\ boot.mf \in [Key -> Value]
        BY <1>t, <2>1, <4>1 DEF Copy
      <4>4. \A j \in Key : boot'.mf[j] = M[j] \/ (boot'.mf[j] = None /\ kv'[j] = M[j])
        BY <1>t, <4>1, <4>2, <4>3
      <4> QED
        BY <1>0, <1>i, <4>2, <4>3, <4>4 DEF Starts
    <3> QED
      BY <3>1, <3>2
  <2> QED
    BY <1>1, <1>2, <2>2, <2>3 DEF WholeInv
<1>9. CASE restored
  <2>1. /\ boot.pc = "keys" /\ boot.mf = Nothing /\ (suspect' <=> boot.ts \in torn)
        /\ kv' = kv /\ boot'.pc = "serving"
    BY <1>9, <1>d DEF restored, BootStep
  <2>2. boot.ts \in Time /\ manifests[boot.ts] # None
        /\ \A k \in Key : manifests[boot.ts][k] # None => kv[k] = manifests[boot.ts][k]
    BY <1>w, <2>1, NothingType DEF Starts
  <2>3. BucketWhole'
    <3> SUFFICES ASSUME ~ suspect', NEW t \in Table \cap kv[Meta], NEW k \in KeysOf(t)
                 PROVE  kv[k] # None
      BY <1>3, <2>1
    <3>1. Whole(manifests[boot.ts])
      BY <1>w, <2>1, <2>2 DEF ManifestsWhole
    <3>2. kv[Meta] = manifests[boot.ts][Meta]
      BY <1>t, <2>2, <3>1 DEF Whole
    <3>3. k \in Key
      BY KeysOfType
    <3> QED
      BY <2>2, <3>1, <3>2, <3>3 DEF Whole
  <2>4. Starts'
    BY <2>1 DEF Starts, Serving
  <2> QED
    BY <1>1, <1>2, <2>3, <2>4 DEF WholeInv
<1> QED
  BY <1>5, <1>6, <1>7, <1>8, <1>9 DEF StartStep

\* A call copies what it lists, and its manifest.json says so.
LEMMA SnapshotWhole ==
  ASSUME SnapInv, WholeInv, SnapshotStep PROVE WholeInv'
<1>t. /\ snap \in [Caller -> SnapCall] /\ kv \in [Key -> Value]
      /\ manifests \in [Time -> Copy \cup {None}]
      /\ boot.pc # "down" => kv[Meta] \in SUBSET Table
      /\ Meta \in Key
  BY MetaIsKey DEF SnapInv, SnapTypes, BootTypes, Copy
<1>w. BucketWhole /\ ManifestsWhole /\ Starts /\ ddl \in [Table -> DDL]
  BY DEF WholeInv
<1>0. ddl' = ddl /\ kv' = kv /\ suspect' = suspect /\ boot' = boot
  BY DEF SnapshotStep, Snapshot, Get, Put, PutManifest, PutLatest, gcList, gcLatest,
     gcDelete, SnapStep
<1>s. Serving
  <2>1. \E c \in Caller : snap[c].pc # "idle" \/ Serving
    BY DEF SnapshotStep, Snapshot, Get, Put, PutManifest, PutLatest, gcList, gcLatest,
       gcDelete, SnapStep, Caller
  <2> QED
    BY <1>w, <2>1, IdleType DEF Starts
<1>1. BucketWhole' /\ Starts' /\ ddl' \in [Table -> DDL]
  BY <1>0, <1>s, <1>w DEF BucketWhole, Starts, Serving
\* The calls of the others and an idle call.
<1>2. ASSUME NEW c \in Caller, snap'[c] = snap[c] \/ snap'[c].ts = 0 PROVE CallWhole(c)'
  BY <1>0, <1>2 DEF WholeInv, CallWhole, Covers
<1>3. ASSUME NEW c \in Caller, Snapshot(c) \/ Get(c) \/ Put(c) \/ PutLatest(c)
      PROVE  /\ manifests' = manifests /\ torn' = torn
             /\ \A d \in Caller \ {c} : snap'[d] = snap[d]
  BY <1>3, <1>t DEF Snapshot, Get, Put, PutLatest, begun, Return
<1>m. ASSUME manifests' = manifests, torn' = torn PROVE ManifestsWhole'
  BY <1>m, <1>w DEF ManifestsWhole, Whole
<1>4. ASSUME NEW c \in Caller, Snapshot(c) PROVE WholeInv'
  <2> DEFINE s == [Idle EXCEPT !.pc = "get", !.ts = now, !.todo = {k \in Key : kv[k] # None},
                               !.torn = suspect]
  <2>1. snap'[c] = s
    BY <1>4, <1>t DEF Snapshot
  <2>2. /\ s.pc = "get" /\ s.todo = {k \in Key : kv[k] # None} /\ s.torn = suspect
        /\ s.copied = Nothing
    BY DEF Idle
  <2> HIDE DEF s
  <2>3. kv[Meta] \in SUBSET Table /\ kv[Meta] # None
    BY <1>s, <1>t, SnapshotAssumption DEF Serving
  <2>4. ~ suspect => \A t \in kv[Meta] : \A k \in KeysOf(t) : k \in s.todo
    BY <1>w, <2>2, <2>3, KeysOfType DEF BucketWhole
  <2>5. Meta \in s.todo /\ s.copied[Meta] = None
    BY <1>t, <2>2, <2>3, NothingType
  <2>6. CallWhole(c)'
    BY <1>0, <2>1, <2>2, <2>4, <2>5 DEF CallWhole, Covers
  <2> QED
    BY <1>1, <1>2, <1>3, <1>4, <1>m, <2>6 DEF WholeInv
<1>5. ASSUME NEW c \in Caller, Get(c) PROVE WholeInv'
  <2>1. CASE Return(c)
    <3>1. snap'[c].ts = 0
      BY <1>t, <2>1, IdleType DEF Return
    <3> QED
      BY <1>1, <1>2, <1>3, <1>5, <1>m, <3>1 DEF WholeInv
  <2>2. CASE ~ Return(c)
    <3>1. PICK k \in snap[c].todo :
            /\ kv[k] # None
            /\ snap' = [snap EXCEPT ![c].pc = "put", ![c].key = k, ![c].copied[k] = kv[k]]
      BY <1>5, <2>2 DEF Get, First
    <3>t. /\ k \in Key /\ snap[c].copied \in [Key -> Value] /\ snap[c] \in SnapCall
          /\ CallWhole(c)
      BY <1>t DEF SnapCall, Copy, WholeInv
    <3>2. /\ snap'[c].pc = "put" /\ snap'[c].ts = snap[c].ts /\ snap'[c].todo = snap[c].todo
          /\ snap'[c].torn = snap[c].torn
          /\ snap'[c].copied = [snap[c].copied EXCEPT ![k] = kv[k]]
      BY <1>t, <3>1, <3>t DEF SnapCall
    <3>3. \A j \in Key : snap'[c].copied[j] = IF j = k THEN kv[k] ELSE snap[c].copied[j]
      BY <3>2, <3>t
    <3>4. \A j \in Key : Covers(c, j) => j \in snap'[c].todo \/ snap'[c].copied[j] # None
      BY <3>1, <3>2, <3>3 DEF Covers
    <3>5. ASSUME snap[c].ts # 0, ~ snap[c].torn, snap'[c].copied[Meta] # None,
                 NEW t \in snap'[c].copied[Meta], NEW j \in KeysOf(t)
          PROVE  Covers(c, j)
      <4>1. CASE k = Meta
        BY <1>t, <3>1, <3>3, <3>5, <3>t, <4>1 DEF CallWhole
      <4>2. CASE k # Meta
        BY <1>t, <3>3, <3>5, <3>t, <4>2 DEF CallWhole
      <4> QED
        BY <4>1, <4>2
    <3>6. /\ kv[Meta] \in SUBSET Table
          /\ snap'[c].copied[Meta] # None => snap'[c].copied[Meta] \in SUBSET Table
      BY <1>s, <1>t, <3>3, <3>t DEF Serving, SnapCall, Copy
    <3>7. CallWhole(c)'
      <4> SUFFICES ASSUME snap[c].ts # 0, ~ snap[c].torn
                   PROVE  /\ Covers(c, Meta)'
                          /\ Meta \in snap[c].todo =>
                               \A t \in kv[Meta] : \A j \in KeysOf(t) : Covers(c, j)'
                          /\ snap'[c].copied[Meta] # None =>
                               \A t \in snap'[c].copied[Meta] : \A j \in KeysOf(t) : Covers(c, j)'
        BY <1>0, <3>2 DEF CallWhole
      <4>1. \A j \in Key : Covers(c, j) => Covers(c, j)'
        BY <3>4 DEF Covers
      <4>2. /\ Covers(c, Meta)
            /\ Meta \in snap[c].todo => \A t \in kv[Meta] : \A j \in KeysOf(t) : Covers(c, j)
        BY <3>t DEF CallWhole
      <4> QED
        BY <1>t, <3>5, <3>6, <4>1, <4>2, KeysOfType
    <3> QED
      BY <1>1, <1>2, <1>3, <1>5, <1>m, <3>7 DEF WholeInv
  <2> QED
    BY <2>1, <2>2
<1>6. ASSUME NEW c \in Caller, Put(c) PROVE WholeInv'
  <2>1. CASE Return(c)
    <3>1. snap'[c].ts = 0
      BY <1>t, <2>1, IdleType DEF Return
    <3> QED
      BY <1>1, <1>2, <1>3, <1>6, <1>m, <3>1 DEF WholeInv
  <2>2. CASE ~ Return(c)
    <3> DEFINE s == snap[c]
    <3>1. snap' = [snap EXCEPT ![c].todo = @ \ {s.key},
                               ![c].pc = IF s.todo = {s.key} THEN "manifest" ELSE "get"]
      BY <1>6, <2>2 DEF Put
    <3>t. s \in SnapCall /\ CallWhole(c) /\ s.copied[s.key] # None
      BY <1>6, <1>t DEF WholeInv, SnapInv, CallTakes, Put, SnapStep
    <3>2. /\ snap'[c].ts = s.ts /\ snap'[c].todo = s.todo \ {s.key}
          /\ snap'[c].torn = s.torn /\ snap'[c].copied = s.copied
          /\ snap'[c].pc = IF s.todo = {s.key} THEN "manifest" ELSE "get"
      BY <1>t, <3>1, <3>t DEF SnapCall
    <3>3. \A j : Covers(c, j) => Covers(c, j)'
      BY <3>2, <3>t DEF Covers
    <3>4. snap'[c].pc \in {"manifest", "latest"} => snap'[c].todo = {}
      BY <3>2
    <3>5. CallWhole(c)'
      BY <1>0, <3>2, <3>3, <3>4, <3>t DEF CallWhole
    <3> QED
      BY <1>1, <1>2, <1>3, <1>6, <1>m, <3>5 DEF WholeInv
  <2> QED
    BY <2>1, <2>2
<1>7. ASSUME NEW c \in Caller, PutManifest(c) PROVE WholeInv'
  <2> DEFINE s == snap[c]
  <2>t. /\ s \in SnapCall /\ CallWhole(c) /\ s.pc = "manifest" /\ s.ts \in Time
        /\ s.ts # 0 /\ s.copied \in Copy /\ s.todo = {}
    BY <1>7, <1>t
       DEF WholeInv, SnapInv, CallTakes, Taking, CallWhole, PutManifest, SnapStep, SnapCall
  <2>1. ManifestsWhole'
    <3>1. ~ s.torn => Whole(s.copied)
      <4>1. \A k \in Key : Covers(c, k) => s.copied[k] # None
        BY <2>t DEF Covers
      <4>2. s.copied[Meta] # None => s.copied[Meta] \in SUBSET Table
        BY <2>t DEF Copy
      <4> QED
        BY <1>t, <2>t, <4>1, <4>2, KeysOfType DEF CallWhole, Whole
    <3>2. CASE manifests' = manifests /\ torn' = torn
      BY <1>m, <3>2
    <3>3. CASE ~ (manifests' = manifests /\ torn' = torn)
      <4>1. /\ manifests' = [manifests EXCEPT ![s.ts] = s.copied]
            /\ torn' = IF s.torn THEN torn \cup {s.ts} ELSE torn \ {s.ts}
        BY <1>7, <3>3 DEF PutManifest
      <4> SUFFICES ASSUME NEW ts \in Time, manifests'[ts] # None, ts \notin torn'
                   PROVE  Whole(manifests'[ts])
        BY DEF ManifestsWhole, Whole
      <4>2. CASE ts = s.ts
        BY <1>t, <2>t, <3>1, <4>1, <4>2
      <4>3. CASE ts # s.ts
        BY <1>t, <1>w, <4>1, <4>3 DEF ManifestsWhole
      <4> QED
        BY <4>2, <4>3
    <3> QED
      BY <3>2, <3>3
  <2>2. /\ \A d \in Caller \ {c} : snap'[d] = snap[d]
        /\ snap'[c] = Idle \/ snap'[c] = [s EXCEPT !.pc = "latest"]
    BY <1>7, <1>t DEF PutManifest, Return
  <2>3. CallWhole(c)'
    <3>1. CASE snap'[c] = Idle
      BY <1>2, <3>1, IdleType
    <3>2. CASE snap'[c] = [s EXCEPT !.pc = "latest"]
      <4>1. /\ snap'[c].ts = s.ts /\ snap'[c].todo = s.todo /\ snap'[c].torn = s.torn
            /\ snap'[c].copied = s.copied
        BY <2>t, <3>2 DEF SnapCall
      <4> QED
        BY <1>0, <2>t, <4>1 DEF CallWhole, Covers
    <3> QED
      BY <2>2, <3>1, <3>2
  <2> QED
    BY <1>1, <1>2, <2>1, <2>2, <2>3 DEF WholeInv
<1>8. ASSUME NEW c \in Caller, PutLatest(c) PROVE WholeInv'
  <2>1. snap'[c].ts = 0
    BY <1>8, <1>t, IdleType DEF PutLatest, Return, Idle
  <2> QED
    BY <1>1, <1>2, <1>3, <1>8, <1>m, <2>1 DEF WholeInv
<1>9. CASE gcList \/ gcLatest \/ gcDelete
  <2>c. "loop" \in Caller /\ snap["loop"] \in SnapCall /\ snap["loop"].ts = 0
    <3>1. "loop" \in Caller /\ CallTakes("loop")
      BY DEF Caller, SnapInv
    <3> QED
      BY <1>9, <1>t, <3>1 DEF CallTakes, Taking, gcList, gcLatest, gcDelete, SnapStep
  <2>1. /\ \A d \in Caller \ {"loop"} : snap'[d] = snap[d]
        /\ torn' = torn
    BY <1>9, <1>t DEF gcList, gcLatest, gcDelete, Return, begun
  <2>2. snap'["loop"].ts = 0
    <3>1. \/ snap' = [snap EXCEPT !["loop"] = Idle]
          \/ \E D : snap' = [snap EXCEPT !["loop"].doomed = D]
          \/ \E p, D : snap' = [snap EXCEPT !["loop"].pc = p, !["loop"].doomed = D]
      BY <1>9 DEF gcList, gcLatest, gcDelete, Return
    <3>2. \/ snap'["loop"] = Idle
          \/ \E D : snap'["loop"] = [snap["loop"] EXCEPT !.doomed = D]
          \/ \E p, D : snap'["loop"] = [snap["loop"] EXCEPT !.pc = p, !.doomed = D]
      BY <1>t, <2>c, <3>1
    <3> QED
      BY <2>c, <3>2, IdleType DEF SnapCall
  <2>3. \A ts \in Time : manifests'[ts] \in {manifests[ts], None}
    <3>1. manifests' = manifests \/ \E ts : manifests' = [manifests EXCEPT ![ts] = None]
      BY <1>9 DEF gcList, gcLatest, gcDelete
    <3> QED
      BY <1>t, <3>1
  <2>4. ManifestsWhole'
    <3> SUFFICES ASSUME NEW ts \in Time, manifests'[ts] # None, ts \notin torn'
                 PROVE  Whole(manifests'[ts])
      BY DEF ManifestsWhole, Whole
    <3> QED
      BY <1>w, <2>1, <2>3 DEF ManifestsWhole
  <2> QED
    BY <1>1, <1>2, <2>1, <2>2, <2>4 DEF WholeInv
<1> QED
  BY <1>4, <1>5, <1>6, <1>7, <1>8, <1>9 DEF SnapshotStep

\* Time passes, and the process ends.
LEMMA EnvironmentWhole ==
  ASSUME SnapInv, WholeInv, Tick \/ Crash PROVE WholeInv'
<1>w. BucketWhole /\ ManifestsWhole /\ Starts /\ ddl \in [Table -> DDL]
  BY DEF WholeInv
<1>1. CASE Tick
  <2>1. /\ kv' = kv /\ ddl' = ddl /\ manifests' = manifests /\ torn' = torn
        /\ suspect' = suspect /\ snap' = snap /\ boot' = boot
    BY <1>1 DEF Tick, begun
  <2>2. BucketWhole' /\ ManifestsWhole' /\ Starts'
    BY <1>w, <2>1 DEF BucketWhole, ManifestsWhole, Whole, Starts, Serving
  <2>3. \A c \in Caller : CallWhole(c)'
    BY <2>1 DEF WholeInv, CallWhole, Covers
  <2> QED
    BY <1>w, <2>1, <2>2, <2>3 DEF WholeInv
<1>2. CASE Crash
  <2>1. /\ manifests' = manifests /\ torn' = torn /\ boot'.pc = "down"
        /\ \A c \in Caller : snap'[c] = Idle
        /\ ddl' = [t \in Table |-> "none"]
        /\ (kv' = kv /\ suspect' = suspect) \/ kv' = Nothing
    BY <1>2 DEF Crash, begun, Down
  <2>2. BucketWhole'
    <3> SUFFICES ASSUME ~ suspect', kv'[Meta] # None, NEW t \in Table
                 PROVE  t \in kv'[Meta] => \A k \in KeysOf(t) : kv'[k] # None
      BY <2>1 DEF BucketWhole
    <3>1. kv' = kv /\ suspect' = suspect
      BY <2>1, NothingType, MetaIsKey
    <3> QED
      BY <1>w, <3>1 DEF BucketWhole
  <2>3. ManifestsWhole' /\ Starts'
    BY <1>w, <2>1 DEF ManifestsWhole, Whole, Starts
  <2>4. \A c \in Caller : CallWhole(c)'
    BY <2>1, IdleType DEF CallWhole
  <2>5. ddl' \in [Table -> DDL]
    BY <2>1 DEF DDL
  <2> QED
    BY <2>2, <2>3, <2>4, <2>5 DEF WholeInv
<1> QED
  BY <1>1, <1>2

\* A catalog that is served, and that is neither a part of a restore nor a torn
\* snapshot, has the record and the manifest of every table it lists: CREATE and DROP
\* write the list last and first, Snapshot gives up when a listed key has gone, and
\* Restore returns only when every key of manifest.json is in the bucket.
THEOREM RestoredIsWhole == Spec => []ServesWhole
<1>1. SnapInv /\ WholeInv /\ [Next]_vars => WholeInv'
  <2> SUFFICES ASSUME SnapInv, WholeInv, [Next]_vars PROVE WholeInv'
    OBVIOUS
  <2>1. CASE UNCHANGED vars
    <3>1. /\ kv' = kv /\ ddl' = ddl /\ manifests' = manifests /\ torn' = torn
          /\ suspect' = suspect /\ snap' = snap /\ boot' = boot
      BY <2>1 DEF vars
    <3>2. BucketWhole' /\ ManifestsWhole' /\ Starts' /\ ddl' \in [Table -> DDL]
      BY <3>1 DEF WholeInv, BucketWhole, ManifestsWhole, Whole, Starts, Serving
    <3>3. \A c \in Caller : CallWhole(c)'
      BY <3>1 DEF WholeInv, CallWhole, Covers
    <3> QED
      BY <3>2, <3>3 DEF WholeInv
  <2> QED
    BY <2>1, WriterWhole, SnapshotWhole, StartWhole, EnvironmentWhole DEF Next
<1>2. SnapInv /\ WholeInv => ServesWhole
  <2> SUFFICES ASSUME SnapInv, WholeInv, Serving, ~ suspect, NEW t \in kv[Meta]
               PROVE  kv[<<"table", t>>] # None /\ kv[<<"manifest", t>>] # None
    BY DEF ServesWhole
  <2>1. kv[Meta] \in SUBSET Table /\ kv[Meta] # None
    BY SnapshotAssumption DEF SnapInv, BootTypes, Serving
  <2> QED
    BY <2>1 DEF WholeInv, BucketWhole, KeysOf
<1> QED
  BY <1>1, <1>2, SnapshotsInductive, WholeInit, PTL DEF Spec

=============================================================================

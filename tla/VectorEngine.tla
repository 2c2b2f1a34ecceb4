---------------------------- MODULE VectorEngine ----------------------------
(***************************************************************************)
(* The vector side of the engine (src/engine.rs): put_indexed, put,        *)
(* delete, flush and close called by several threads, the vector index     *)
(* behind its own lock, HNSW snapshots on disk, and the recovery of the    *)
(* index when the engine is opened.                                        *)
(*                                                                         *)
(* A call updates the LSM under the engine mutex, releases it, then        *)
(* updates the index under the index lock, releases that, then writes a    *)
(* snapshot under no lock; each part is one action and calls interleave    *)
(* between the parts.  The LSM part is atomic here: module Lsm is about    *)
(* what happens inside it, and shows that a crash keeps what took effect.  *)
(* The graph is abstracted to the map it represents, from key to vector;   *)
(* a vector is a model value with a dimension.                             *)
(*                                                                         *)
(* An operator that no action uses, defined just above another one with    *)
(* the same parameters (KeptIndexed, DeltaAfter, TablesOnly, ...), is a    *)
(* deliberately wrong variant of that one: PROJECT.json pairs it with the  *)
(* property that must notice the difference.                               *)
(***************************************************************************)
EXTENDS Naturals, FiniteSets, FiniteSetsExt

CONSTANTS
    Threads,
    Keys, Vectors,
    Dim,         \* [Vectors -> dimensions]
    Rejected,    \* vectors HnswIndex::insert refuses (zero norm under cosine)
    Plain,       \* a value that is not a vector
    Tombstone, Missing,
    Uses,        \* [Threads -> keys the thread works on]
    Calls,       \* the operations clients call
    MemtableMax, \* entries at which the memtable is flushed
    Trigger,     \* options.l0_compaction_trigger
    FailAt,      \* parts of a call whose I/O may fail
    MaxId, MaxOps, MaxCrashes, MaxFails   \* bounds of the instance

Entries == Vectors \cup {Plain, Tombstone}
Tables == [Keys -> Entries \cup {Missing}]
NoTable == [k \in Keys |-> Missing]
Ids == 0 .. MaxId
SnapIds == 0 .. MaxId + 1
Dims == {Dim[v] : v \in Vectors}
Indexes == [vec : [Keys -> Vectors \cup {Missing}], dim : Dims \cup {0}]
EmptyIndex == [vec |-> NoTable, dim |-> 0]
Operations == {"put", "delete", "put_indexed", "flush", "close"}
NoCall == [op |-> Missing, key |-> Missing, entry |-> Missing]
CallRecords == [op : {"delete", "put_indexed"}, key : Keys, entry : Entries] \cup {NoCall}
Labels == {"Idle", "Lsm", "Index", "Encode", "Publish", "Cleanup"}

ASSUME VectorAssumption ==
    /\ IsFiniteSet(Threads)
    /\ Dim \in [Vectors -> Nat \ {0}] /\ Rejected \subseteq Vectors
    /\ Plain \notin Vectors /\ Tombstone \notin Vectors \cup {Plain} /\ Missing \notin Entries
    /\ Uses \in [Threads -> SUBSET Keys] /\ Calls \subseteq Operations
    /\ MemtableMax \in Nat /\ Trigger \in Nat
    /\ FailAt \subseteq {"Lsm", "Publish", "Cleanup"}
    /\ MaxId \in Nat /\ MaxOps \in Nat /\ MaxCrashes \in Nat /\ MaxFails \in Nat

VARIABLES
    status,      \* "Up", "Down", or "Failed" when open returned an error
    lsm,         \* [memtable, tables by id, l1 ids, next_sst_id]
    closed,      \* EngineInner.closed
    index,       \* VectorIndex: key to vector, expected_dim
    snaps,       \* hnsw_<id>.idx files: [id, index]
    pc, call,    \* per thread: next part of the call, and the call
    next_id_after, \* per thread: {} or {id}, Option<u64> of the LSM part
    bytes,       \* per thread: the encoded snapshot
    behind,      \* ghost: keys last written by a call that returned an error
    ops, crashes, fails

threadVars == <<pc, call, next_id_after, bytes>>
vars == <<status, lsm, closed, index, snaps, threadVars, behind, ops, crashes, fails>>

-----------------------------------------------------------------------------
(* The LSM part of a call, under the engine mutex                          *)

IdsOf(s) == {i \in Ids : s.tables[i] # NoTable}

\* The newest of the tables ids that has an entry for k.
NewestIn(s, ids, k) ==
    LET hits == {i \in ids : s.tables[i][k] # Missing}
    IN  IF hits = {} THEN Missing ELSE s.tables[Max(hits)][k]
Newest(s, ids, k) == IF s.memtable[k] # Missing THEN s.memtable[k] ELSE NewestIn(s, ids, k)

Written(s, k, e) == [s EXCEPT !.memtable[k] = e]

flush_inner(s) ==
    IF s.memtable = NoTable THEN s
    ELSE [s EXCEPT !.tables[s.next_sst_id] = s.memtable,
                   !.next_sst_id = @ + 1, !.memtable = NoTable]

maybe_auto_flush(s) ==
    IF Cardinality({k \in Keys : s.memtable[k] # Missing}) >= MemtableMax
    THEN flush_inner(s) ELSE s

\* All tables into one, tombstones dropped; no table when nothing is left.
compact_l0_l1(s) ==
    LET cell(k) == NewestIn(s, IdsOf(s), k)
        output == [k \in Keys |-> IF cell(k) = Tombstone THEN Missing ELSE cell(k)]
        id == s.next_sst_id
    IN  [s EXCEPT !.tables = [i \in Ids |-> IF i = id THEN output ELSE NoTable],
                  !.l1 = IF output = NoTable THEN {} ELSE {id},
                  !.next_sst_id = id + 1]

maybe_compact(s) ==
    IF Cardinality(IdsOf(s) \ s.l1) < Trigger THEN s ELSE compact_l0_l1(s)

\* discover_sstables: the next id is above every file found, or 0.
Reopened(s) == [s EXCEPT !.next_sst_id = IF IdsOf(s) = {} THEN 0 ELSE Max(IdsOf(s)) + 1]

-----------------------------------------------------------------------------
(* The index and its recovery                                              *)

KeptIndexed(x, k) == x
Removed(x, k) == [x EXCEPT !.vec[k] = Missing]
Inserted(x, k, v) == [x EXCEPT !.vec[k] = v, !.dim = Dim[v]]

\* Can these vectors be inserted into an index of dimension d (0: none yet)?
Insertable(vs, d) ==
    /\ vs \cap Rejected = {}
    /\ \A v, w \in vs : Dim[v] = Dim[w]
    /\ \A v \in vs : d \in {0, Dim[v]}
DimAfter(vs, d) == IF vs = {} THEN d ELSE Dim[CHOOSE v \in vs : TRUE]

\* The vectors the LSM holds: what full_rebuild_index_from_lsm inserts.
LsmVector(s, k) == LET e == Newest(s, IdsOf(s), k) IN IF e \in Vectors THEN e ELSE Missing
LsmVectors(s) == {LsmVector(s, k) : k \in Keys} \ {Missing}
full_rebuild(s) == [vec |-> [k \in Keys |-> LsmVector(s, k)], dim |-> DimAfter(LsmVectors(s), 0)]

\* load_snapshot_and_apply_delta: the memtable and the tables from the
\* snapshot's next id on are applied over the snapshot, newest first.
DeltaAfter(s, snap) == {i \in IdsOf(s) : i > snap.id}
DeltaIds(s, snap) == {i \in IdsOf(s) : i >= snap.id}
TablesOnly(s, snap, k) == NewestIn(s, DeltaIds(s, snap), k)
DeltaEntry(s, snap, k) == Newest(s, DeltaIds(s, snap), k)
DeltaVectors(s, snap) == {DeltaEntry(s, snap, k) : k \in Keys} \cap Vectors
ApplyRaw(old, e) == IF e = Missing THEN old ELSE e
ApplyEntry(old, e) == CASE e = Missing -> old [] e \in Vectors -> e [] OTHER -> Missing
apply_delta(s, snap) ==
    [vec |-> [k \in Keys |-> ApplyEntry(snap.index.vec[k], DeltaEntry(s, snap, k))],
     dim |-> DimAfter(DeltaVectors(s, snap), snap.index.dim)]

LatestSnapshot == CHOOSE x \in snaps : \A y \in snaps : y.id <= x.id

UsableSnapshot(s) == snaps # {} /\ Insertable(DeltaVectors(s, LatestSnapshot), LatestSnapshot.index.dim)

-----------------------------------------------------------------------------
(* Calls                                                                   *)

Up == status = "Up"
Goto(t, label) == pc' = [pc EXCEPT ![t] = label]

\* Room in the instance for the two ids the LSM part can allocate.
HasRoom == lsm.next_sst_id < MaxId
Start(t, op) == /\ Up /\ pc[t] = "Idle" /\ op \in Calls
                /\ ops < MaxOps /\ HasRoom
                /\ ops' = ops + 1
Requests(t, op, k, e) == call' = [call EXCEPT ![t] = [op |-> op, key |-> k, entry |-> e]]
Ends(t) == call' = [call EXCEPT ![t] = NoCall]

\* The LSM part, and where the call goes on: delete and put_indexed to the
\* index, every call to a snapshot if the LSM allocated an id.
SnapshotLabel(s) == IF s.next_sst_id # lsm.next_sst_id THEN "Encode" ELSE "Idle"
LsmPart(t, s, indexes) ==
    /\ lsm' = s
    /\ next_id_after' = [next_id_after EXCEPT ![t] =
                            IF s.next_sst_id # lsm.next_sst_id THEN {s.next_sst_id} ELSE {}]
    /\ Goto(t, IF indexes THEN "Index" ELSE SnapshotLabel(s))
    /\ UNCHANGED <<status, closed, index, snaps, bytes, crashes, fails>>

WriteLsm(k, e) == maybe_compact(maybe_auto_flush(Written(lsm, k, e)))

\* The LSM after an error behind a write that took effect, s with the write
\* and f with the flush: the flush fails, before or after it registers the
\* table, or the compaction does.
AfterError(s, f) ==
    {x \in {s, [f EXCEPT !.memtable = s.memtable]} : f # s}
       \cup {x \in {f} : maybe_compact(f) # f}
Fails(part) == part \in FailAt /\ fails < MaxFails /\ fails' = fails + 1

\* The error returns from the call: no index part, no snapshot.
LsmError(t, s, f) ==
    /\ Fails("Lsm")
    /\ lsm' \in AfterError(s, f)
    /\ Goto(t, "Idle") /\ Ends(t)
    /\ UNCHANGED <<status, closed, index, snaps, next_id_after, bytes, crashes>>
WriteError(t, k, e) ==
    /\ LsmError(t, Written(lsm, k, e), maybe_auto_flush(Written(lsm, k, e)))
    /\ behind' = behind \cup {k}

put(t) == \E k \in Uses[t] :
    /\ Start(t, "put") /\ ~closed
    /\ \/ /\ LsmPart(t, WriteLsm(k, Plain), FALSE)
          /\ behind' = behind \ {k} /\ UNCHANGED call
       \/ WriteError(t, k, Plain)

delete(t) == \E k \in Uses[t] :
    /\ Start(t, "delete") /\ ~closed
    /\ \/ /\ LsmPart(t, WriteLsm(k, Tombstone), TRUE)
          /\ Requests(t, "delete", k, Tombstone) /\ UNCHANGED behind
       \/ WriteError(t, k, Tombstone)

flush(t) ==
    /\ Start(t, "flush") /\ ~closed
    /\ \/ LsmPart(t, maybe_compact(flush_inner(lsm)), FALSE) /\ UNCHANGED call
       \/ LsmError(t, lsm, flush_inner(lsm))
    /\ UNCHANGED behind

close(t) ==
    /\ Start(t, "close") /\ ~closed
    /\ closed' = TRUE
    /\ UNCHANGED <<status, lsm, index, snaps, threadVars, behind, crashes, fails>>

\* put_indexed first checks the dimension under the index's read lock.
NoDimCheck(v) == TRUE
PassesDimCheck(v) == index.dim \in {0, Dim[v]}
put_indexed(t) == \E k \in Uses[t], v \in Vectors :
    /\ Start(t, "put_indexed") /\ PassesDimCheck(v)
    /\ Requests(t, "put_indexed", k, v)
    /\ Goto(t, "Lsm")
    /\ UNCHANGED <<status, lsm, closed, index, snaps, next_id_after, bytes, behind, crashes, fails>>

PutIndexedLsm(t) ==
    /\ Up /\ pc[t] = "Lsm"
    /\ \/ /\ ~closed /\ HasRoom
          /\ LsmPart(t, WriteLsm(call[t].key, call[t].entry), TRUE)
          /\ UNCHANGED <<call, behind>>
       \/ ~closed /\ HasRoom /\ WriteError(t, call[t].key, call[t].entry)
       \/ /\ closed /\ Goto(t, "Idle") /\ Ends(t)
          /\ UNCHANGED <<status, lsm, closed, index, snaps, next_id_after, bytes,
                         behind, crashes, fails>>
    /\ UNCHANGED ops

\* The index part.  put_indexed checks the dimension again; a vector the
\* graph refuses has already cost the key its old node.
AfterIndex(t) == /\ Goto(t, IF next_id_after[t] = {} THEN "Idle" ELSE "Encode")
                 /\ behind' = behind \ {call[t].key}
                 /\ UNCHANGED next_id_after
FailsIndex(t) == /\ Goto(t, "Idle")
                 /\ behind' = behind \cup {call[t].key}
                 /\ next_id_after' = [next_id_after EXCEPT ![t] = {}]
IndexPart(t) ==
    /\ Up /\ pc[t] = "Index"
    /\ LET k == call[t].key
           v == call[t].entry
       IN  \/ call[t].op = "delete" /\ index' = Removed(index, k) /\ AfterIndex(t)
           \/ /\ call[t].op = "put_indexed" /\ PassesDimCheck(v) /\ v \notin Rejected
              /\ index' = Inserted(Removed(index, k), k, v) /\ AfterIndex(t)
           \/ /\ call[t].op = "put_indexed" /\ PassesDimCheck(v) /\ v \in Rejected
              /\ index' = [Removed(index, k) EXCEPT !.dim = Dim[v]] /\ FailsIndex(t)
           \/ /\ call[t].op = "put_indexed" /\ ~PassesDimCheck(v)
              /\ UNCHANGED index /\ FailsIndex(t)
    /\ Ends(t)
    /\ UNCHANGED <<status, lsm, closed, snaps, bytes, ops, crashes, fails>>

\* write_snapshot: encode under the read lock, publish by rename, then
\* remove every other snapshot.
Encode(t) ==
    /\ Up /\ pc[t] = "Encode"
    /\ bytes' = [bytes EXCEPT ![t] = index]
    /\ Goto(t, "Publish")
    /\ UNCHANGED <<status, lsm, closed, index, snaps, call, next_id_after, behind,
                   ops, crashes, fails>>

SnapshotEnds(t) == /\ Goto(t, "Idle")
                   /\ next_id_after' = [next_id_after EXCEPT ![t] = {}]
                   /\ bytes' = [bytes EXCEPT ![t] = EmptyIndex]

\* An error before the rename leaves the directory as it was, one of the
\* directory sync does not; either is returned and the cleanup skipped.
Publish(t) ==
    /\ Up /\ pc[t] = "Publish"
    /\ LET id == CHOOSE i \in next_id_after[t] : TRUE
           published == {x \in snaps : x.id # id} \cup {[id |-> id, index |-> bytes[t]]}
       IN  \/ /\ snaps' = published /\ Goto(t, "Cleanup")
              /\ UNCHANGED <<next_id_after, bytes, fails>>
           \/ Fails("Publish") /\ snaps' \in {snaps, published} /\ SnapshotEnds(t)
    /\ UNCHANGED <<status, lsm, closed, index, call, behind, ops, crashes>>

\* Removing a snapshot is best effort: an error leaves it behind.
Cleanup(t) ==
    /\ Up /\ pc[t] = "Cleanup"
    /\ LET own == {x \in snaps : x.id \in next_id_after[t]}
       IN  \/ snaps' = own /\ UNCHANGED fails
           \/ /\ Fails("Cleanup")
              /\ \E kept \in SUBSET (snaps \ own) : snaps' = own \cup kept
    /\ SnapshotEnds(t)
    /\ UNCHANGED <<status, lsm, closed, index, call, behind, ops, crashes>>

-----------------------------------------------------------------------------
(* Crash and open                                                          *)

NoThreads == /\ call' = [t \in Threads |-> NoCall]
             /\ pc' = [t \in Threads |-> "Idle"]
             /\ next_id_after' = [t \in Threads |-> {}]
             /\ bytes' = [t \in Threads |-> EmptyIndex]

\* Every thread and all memory is gone; the directory stays.
Crash ==
    /\ Up /\ crashes < MaxCrashes
    /\ status' = "Down"
    /\ NoThreads
    /\ index' = EmptyIndex
    /\ crashes' = crashes + 1
    /\ UNCHANGED <<lsm, closed, snaps, behind, ops, fails>>

\* Engine::open: tables, WAL, then recover_vector_index.  The highest
\* snapshot is used and the others removed; if applying the delta fails the
\* index is rebuilt from the LSM, and if that fails so does open.
Open ==
    /\ status = "Down"
    /\ closed' = FALSE
    /\ lsm' = Reopened(lsm)
    /\ snaps' = IF snaps = {} THEN {} ELSE {LatestSnapshot}
    /\ \/ /\ UsableSnapshot(lsm)
          /\ index' = apply_delta(lsm, LatestSnapshot)
          /\ status' = "Up"
       \/ /\ ~UsableSnapshot(lsm) /\ Insertable(LsmVectors(lsm), 0)
          /\ index' = full_rebuild(lsm)
          /\ status' = "Up"
       \/ /\ ~UsableSnapshot(lsm) /\ ~Insertable(LsmVectors(lsm), 0)
          /\ UNCHANGED index
          /\ status' = "Failed"
    /\ UNCHANGED <<threadVars, behind, ops, crashes, fails>>

Init ==
    /\ status = "Down"
    /\ lsm = [memtable |-> NoTable, tables |-> [i \in Ids |-> NoTable],
              l1 |-> {}, next_sst_id |-> 0]
    /\ closed = FALSE /\ index = EmptyIndex /\ snaps = {}
    /\ pc = [t \in Threads |-> "Idle"]
    /\ call = [t \in Threads |-> NoCall]
    /\ next_id_after = [t \in Threads |-> {}]
    /\ bytes = [t \in Threads |-> EmptyIndex]
    /\ behind = {}
    /\ ops = 0 /\ crashes = 0 /\ fails = 0

ThreadStep(t) == \/ PutIndexedLsm(t) \/ IndexPart(t)
                 \/ Encode(t) \/ Publish(t) \/ Cleanup(t)
Next == \/ \E t \in Threads : put(t) \/ delete(t) \/ put_indexed(t) \/ flush(t) \/ close(t)
        \/ \E t \in Threads : ThreadStep(t)
        \/ Crash \/ Open

Spec == Init /\ [][Next]_vars

-----------------------------------------------------------------------------
(* Properties                                                              *)

\* Every variable has a value of its type; in particular the index and the
\* snapshots hold vectors only, never a plain value or a tombstone.
TypeOK ==
    /\ status \in {"Up", "Down", "Failed"} /\ closed \in BOOLEAN
    /\ lsm \in [memtable : Tables, tables : [Ids -> Tables],
                l1 : SUBSET Ids, next_sst_id : SnapIds]
    /\ index \in Indexes
    /\ snaps \subseteq [id : SnapIds, index : Indexes]
    /\ pc \in [Threads -> Labels] /\ call \in [Threads -> CallRecords]
    /\ next_id_after \in [Threads -> {{}} \cup {{i} : i \in SnapIds}]
    /\ bytes \in [Threads -> Indexes]
    /\ behind \subseteq Keys
    /\ ops \in Nat /\ crashes \in Nat /\ fails \in Nat

Quiet == Up /\ \A t \in Threads : pc[t] = "Idle"

\* Between calls nearest can find every vector the LSM holds, with its latest
\* value: put_indexed reaches the index, and recovery loses no vector.
IndexComplete ==
    Quiet => \A k \in Keys : LsmVector(lsm, k) # Missing => index.vec[k] = LsmVector(lsm, k)

\* Between calls the index is exactly what a rebuild from the LSM would give.
IndexExact == Quiet => \A k \in Keys : index.vec[k] = LsmVector(lsm, k)

\* At every instant, each snapshot on disk with its delta is the LSM's
\* vectors: wherever a crash strikes, open recovers the right index.
SnapshotsSound ==
    \A x \in snaps, k \in Keys : apply_delta(lsm, x).vec[k] = LsmVector(lsm, k)

\* The graph never holds vectors of two dimensions, whichever put_indexed
\* wins the race to establish the dimension.
IndexUniform == \A k \in Keys : index.vec[k] # Missing => Dim[index.vec[k]] = index.dim

\* Without a crash, once the threads are idle, the index has followed the LSM
\* for every key of one thread alone: a key deleted last is not indexed, and
\* one last written as a vector is indexed with it, however the LSM, index
\* and snapshot parts of the calls interleaved and whatever failed.  Only a
\* call that returned an error may leave its own key behind.
Owners(k) == {t \in Threads : k \in Uses[t]}
IndexCurrent ==
    Quiet /\ crashes = 0 => \A k \in Keys \ behind : Cardinality(Owners(k)) = 1 =>
        LET e == Newest(lsm, IdsOf(lsm), k)
        IN  /\ e \in {Tombstone, Missing} => index.vec[k] = Missing
            /\ e \in Vectors => index.vec[k] = e
=============================================================================

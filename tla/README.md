# sastran: a verification project

sastran (`src/`, Rust) is an embedded key-value store that also keeps vectors: an
LSM tree (write-ahead log, memtable, SSTables at two levels, compaction) and, on
top of it, an in-memory HNSW graph with snapshots on disk for nearest-neighbour
search. This directory holds TLA+ models of it, the TLC configurations that check
them, and TLAPS proofs. `PROJECT.json` maps every definition to the lines it models.

## 1. Inventory

| Part | State | Operations | Talks to |
|---|---|---|---|
| Storage engine (`engine.rs`, `EngineInner`) | memtable, levels (`l0`, `l1`), `next_sst_id`, WAL writer, `closed` | `put`, `delete`, `get`, `flush`, `close`, `open`; inside: `flush_inner`, WAL rotation, `compact_l0_l1`, `discover_sstables`, `replay_wal` | WAL, SSTables, file system |
| Vector side of the engine (`engine.rs`, `Engine`) | index behind an `RwLock`, snapshot files | `put_indexed`, the index part of `delete`, `write_snapshot`, `recover_vector_index`, `nearest`, `nearest_filtered` | storage engine, HNSW |
| Write-ahead log (`wal/`) | one append-only file with a header | `open`, `append`, `sync`, `next_record` | file system |
| Memtable (`memtable.rs`) | ordered map, byte count | `put`, `put_vector`, `delete`, `get`, `approximate_size` | – |
| SSTables (`sstable/writer.rs`, `reader.rs`) | an immutable file: blocks, index, bloom filter, footer | `create`, `add`, `finish`; `open`, `get`, `iter` | file system, bloom |
| Merging iterator (`sstable/merge.rs`) | heap of table iterators | `next` | SSTables |
| Bloom filter (`sstable/bloom.rs`) | bit array | `insert`, `contains`, codec | SSTables |
| HNSW graph (`hnsw/index.rs`) | arena of nodes with neighbour lists per layer, entry point | `insert`, `delete` with repair, `search` | – |
| Snapshot codec (`hnsw/snapshot.rs`) | – | `encode_snapshot`, `decode_snapshot` | HNSW |
| Quantizer (`quantize.rs`) | range per dimension | `train`, `quantize`, `dequantize` | no other part |
| File system interface (`io/`) | – | `open_append`, `rename`, `remove_file`, `sync_dir`, ... | the OS |

**How they interact.** A call of `put`, `delete` or `flush` takes the engine mutex
for its whole LSM part: append, fsync, memtable, perhaps a flush, perhaps a
compaction. There is no background thread. Two LSM parts therefore never
interleave; what interleaves with one is a power failure, the death of the process,
or an I/O error at any of its operations. Vector calls then take a *second* lock,
the index's, after releasing the first, and write the snapshot under neither: here
threads do interleave.

**What is hard.**
- Which files exist after a crash between two of the operations of a flush, a WAL
  rotation or a compaction, and what `open` concludes from the names alone.
- Errors in the middle of those, after which the engine keeps running.
- A log whose last record is torn, and what happens to the records after it.
- Entries at the edges of blocks, of limits and of length fields; a merge in which
  one of several sources fails.
- The order in which calls of different threads reach the LSM, the index and the
  snapshot; a snapshot that is labelled before it is encoded.
- A graph edited by inserts and deletes whose every edge list is capped, and
  searches that answer from it.

**What makes it correct.**
- Engine: a read answers with the last write that took effect; a write that took
  effect survives every crash; tables are ordered newest first; a reader's file is
  never removed; every call ends.
- Vector side: between calls the index holds exactly the vectors the LSM holds, and
  each snapshot with its delta gives that index; one dimension only.
- Log: replay yields the records in front of the first damaged one, no more and no
  less, and refuses no record that is wholly there.
- Tables: a lookup through filter, block index and block scan finds what was added; a
  merge yields the newest entry of every key or an error, and comes to its end; the
  memtable's byte count is what it holds.
- Graph: edges stay within layers and caps, the entry point is the highest live
  node, keys and live nodes correspond one to one, a snapshot can be read back, and
  searches return live vectors, closest first.

`PROJECT.json` lists the hazards, each at its line, with the properties for them.

## 2. Modules

| Module | Models |
|---|---|
| `DurableMap` | what the storage engine promises: a map whose effective writes are never undone |
| `Lsm` | the storage engine with its directory, one action per I/O operation |
| `MCLsm` | instances of `Lsm`: sets of crash points and failing operations |
| `LsmProofs`, `LsmCrashProofs` | theorems about `Lsm`: types, levels and reads; crashes, the refinement, `open` and the size of level 0 |
| `WalLog` | the log as a file of fields and bytes: the record codec, `WalWriter`, `WalReader`, torn and zeroed tails |
| `MCWalLog` | instance: lengths at the limits |
| `WalLogProofs` | theorems about `WalLog` |
| `Memtable` | the write buffer and its byte count |
| `SsTable` | a table file: `SsTableWriter`, `SsTableReader`, `SsTableIterator`, `BloomFilter` (operators, no state) |
| `MergingIterator` | the k-way merge, step by step |
| `TablePipeline` | composes the three: writes, `flush_inner`, `compact_l0_l1`, `get`, damaged blocks |
| `MCTablePipeline` | instance: lengths of keys and values, hash values |
| `SsTableProofs` | lemmas about `Memtable` and `SsTable`: what the writer builds, the reader finds and the iterator yields |
| `TablePipelineProofs` | theorems about `TablePipeline` |
| `VectorEngine` | several threads calling the engine; LSM parts, index parts and snapshots as separate steps; recovery of the index |
| `MCVectorEngine` | instances: dimensions, which thread uses which keys |
| `VectorEngineProofs` | theorems about `VectorEngine` |
| `VectorIndex` | the HNSW graph, the key maps, `nearest`, `nearest_filtered`, what a snapshot contains and what decoding accepts |
| `MCVectorIndex` | instances: points in the plane |
| `VectorIndexProofs` | theorems about `VectorIndex` |
| `SetLemmas` | lemmas that several proofs use: least and greatest elements, sums over finite sets |

An operator that no action uses, placed just above one with the same parameters, is
a deliberately wrong variant of it. `PROJECT.json` pairs each with the property that
must notice the change.

### `Lsm`

`pc` is the next I/O operation of the call in progress. `WriteAppend` and `WalSync`
are `put`/`delete`; `SstWrite` ... `WalSyncDir` are `flush_inner`; `CmpWrite` ...
`CmpFinish` are `compact_l0_l1`, with `DropUnlink`/`DropFinish` for a compaction that
has nothing to write; `Discover`, `Replay`, `OpenCreate`, `OpenHeader`, `OpenSyncDir`
are `Engine::open`. Every operation but a read of `open` can return an error where
`FailAt` says so; the state built so far stays, exactly as the `?` in the code leaves it,
and errors that the code only logs (unlinking inputs, the last `sync_dir`, cleaning up in
`discover_sstables`) are ignored in the same way.

The file system is external and modelled from how the code uses it. `disk` is the
directory the process sees, `dur` the durable one; `sync_dir` makes them equal, and a
power failure (`Crash`) gives each name that differs one content or the other.
`wal`, `walPrev` and `walDirty` do the same for `wal.log`. Unsynced log records may
survive as any prefix, the last one torn. `Kill` is the death of the process alone.
`attached` is false between unlinking `wal.log` and installing the new writer: an
error there leaves the engine writing to a file without a name. `Torn` stands for a
record of which a prefix is in the log; when bytes follow one, decoding may fail
(`open` fails) or its length field may swallow the rest (replay ends), and `Replay`
allows both.

A table is the map it holds, and a merge yields the newest entry of each key. Keys
have `KeyBytes` and values `ValueBytes` bytes, which is all `approximate_size` sees.
`acked` and `limbo` are ghosts: the last effective answer per key, and the answers of
later writes still in flight or failed. They restart at `open` from what the
directory holds, so `Durability` is about one crash at a time, any number of times.

### `WalLog`

The file is a sequence of cells: a header field, a field of a record, or one byte of a
key or value, each knowing the record it was written for. An append that fails leaves
any prefix of its cells and the writer goes on behind it; a power failure cuts the
file anywhere behind the last sync, or leaves zeros there (`ZeroFill`). `decode` makes
the code's checks in the code's order. A length field read where another field's bytes
lie may be any number up to one above its limit, since the model does not fix those
bytes; a CRC matches exactly the cells it was computed from, so collisions are left
out. `log` is a ghost that says what each append left. This is the ground for `Lsm`'s
logs: `ReplayExact` and `RefusedOnlyIfDamaged` say that replay sees the whole records up
to the first torn one, and either stops or refuses there. Errors of a sync are not
separate steps: they leave what not calling it would leave.

### `Memtable`, `SsTable`, `MergingIterator`, `TablePipeline`

Keys are numbers in the order of their bytes, with lengths; a value is an identity with
a length. A table file is a sequence of extents, one for each append, with the place
and length it really has, beside the offsets and lengths the writer recorded. A read
finds an extent only where the recorded offset and length are exact, and otherwise
bytes whose CRC fails. `SsTableWriter` and `SsTableReader` are operators on such files,
byte sizes included, so that the cut of blocks at `DATA_BLOCK_TARGET_SIZE` is the
code's. The bloom filter has the code's `m`, `k` and bit positions, with wrapping sums,
for hash values that are a constant.

In `MergingIterator` one `next` is several steps: take the winner, drop one older entry
at a time with a refill of its source, refill the winner's source. The heap is a set
with the code's order. `TablePipeline` runs them inside the engine: `Write` and `Flush`,
`FlushAdd` per entry, `FlushFinish`, then `Compact`, `NextItem`, `Drain`, `Emit` and
`Finish` for `compact_l0_l1`. A compaction that fails keeps the levels and leaves a
`.tmp` file that makes the next attempt with the same id fail (`tmps`). A flush hands over
the memtable's keys in ascending order (`StillToAdd`, the `BTreeMap`'s iterator), so the
order check of `SsTableWriter::add` could refuse a key only in a merge. `Damage` makes
a data block fail its CRC check, between calls. What happens when I/O fails or power
goes is `Lsm`'s subject and left out here. `holds` is a ghost: the entries a table was
made from.

### `VectorEngine`

The LSM is a memtable and tables, and an LSM part is one step, as the mutex makes it;
its internal crashes are `Lsm`'s business, and a crash here falls between steps. A
`put_indexed` is three to six steps: the dimension check under the read lock, the LSM
part, the index part, then encoding, publishing and cleaning up of a snapshot if the
LSM allocated an id. `Open` takes the snapshot with the highest id, applies the
memtable and the tables from that id on, and rebuilds from the whole LSM if that
fails. The index is the map from keys to vectors that the graph stands for.

`FailAt` names the parts that may return an error: the flush or compaction behind a
write that took effect (`"Lsm"`; the call ends without its index part), the writing of a
snapshot (`"Publish"`, with or without the new file in place), the removal of old ones
(`"Cleanup"`). An append or a sync that fails leaves the LSM as it was, as far as this
module can see. `behind` is a ghost: the keys last written by a call that returned an
error.

### `VectorIndex`

A vector is an identity with distances (`Dist`). `insert`, `search_layer`,
`greedy_search_layer`, `select_neighbors_heuristic`, `trim_neighbors`,
`repair_layer_after_delete`, `pick_new_entry`, `search` and `nearest_filtered` follow
the code's control flow; loops are folds over the arena whose steps do nothing once
the loop has ended, since each handles a node at most once, and each loop's body is an
operator of its own (`Nearer`, `visit`, `expand`, `LinkBack`, `LinkBoth`, `RepairNode`,
`Attempt`), so that a proof can speak of one step. The descents from layer to layer
(`Descend`, the one in `insert`) are recursive functions of the layer. The heaps of
`search_layer` are sets from which the closest or farthest is taken. No two distances
from one point are equal and each vector is inserted at most once, so the order in
which heaps and sorts leave ties is never asked for. `assign_level` may draw any
level. `Reload` reads a snapshot back.

## 3. Runs

All runs check deadlock off: clients may stop calling, bounds run out, and `open` may
fail for good. `ops`, `crashes` and `fails` count against `MaxOps`, `MaxCrashes`,
`MaxFails`, and in `Lsm` the last two together against `MaxFaults`; `MaxId` leaves room for the
ids those calls can allocate. In `VectorEngine` calls and LSM parts start only while there is
room for the two ids an LSM part can allocate (`HasRoom`): it keeps ids in `0 .. MaxId`, and
in these runs it is true of every state, so that `MaxOps` is what ends them.

| Run | Shows | Bounds and why |
|---|---|---|
| `LsmCrash` | types, `ReadsLatest`, `Durability`, `LevelOrder`, `RegisteredDurable`, and that `Lsm` implements `DurableMap` | 2 keys (interchangeable, hence `KeySymmetry`), 5 calls, trigger 2, memtable of one or two entries: a flush per call or two, so two compactions, the second with an L1 input. Two faults (`MaxFaults`): two power failures, one of them during the recovery from the other, or one and an error of a log sync, table write or compaction write |
| `LsmFaults` | `Durability`, `L0Bounded`, `EveryCallReturns` with I/O errors, a power failure that may tear a record, and puts only | 1 key, 2 values, 5 calls, 2 errors: an error, then an error or crash in the catching up |
| `LsmAnyFault` | `ReadsLatest`, `LevelOrder`, `RegisteredOnDisk`, `RefusalTakesTwoFaults` with no restriction on crashes, kills, errors and torn writes; both refusals of `open` (no header, bytes behind a torn record) are reached | 1 key, 4 calls, 2 crashes, 2 errors: a tear, a record behind it, an end of the process, and one more |
| `WalLog` | `TypeOK`, `ReplayExact`, `RefusedOnlyIfDamaged`, `AckedReplayed` | 3 appends, 2 crashes, 1 failed append: a torn record, records behind it, and a tear among those. Limits of 1 and 4 with every kind at and below them: key and value together are as long as a short record, so the length in a torn header can cover a whole record behind it |
| `Tables` | `SizeExact`, `GetExact`, `TablesWellFormed`, `NeverRefused`, `MergeExact`, `MergeProgress` | 3 keys of 1 and 2 bytes, values of 1 and 30 bytes, blocks of 23: two short entries share a block, a long one is larger than a block, so tables have up to three. 5 writes, trigger 2: a second compaction has an L1 input. 1 damaged block. Keys 1 and 3 share their hash, the sums of 2 wrap around |
| `VecSolo` | `TypeOK`, `IndexExact`, `SnapshotsSound` for one thread | 2 keys, 2 vectors, 5 calls, 2 crashes, 2 snapshot failures; several flushes, so delta and snapshot overlap |
| `VecThreads` | `IndexUniform` and `IndexCurrent` for two threads | 3 vectors of 2 dimensions, one refused by the graph; one key of one thread alone, one of both; all calls, 4 of them, so a race, a compaction and a call to see the result; 1 failed flush or compaction, 1 crash |
| `VecGraph` | the eight graph properties | 4 insertable vectors at 2 levels under 4 keys, in every order, with overwrites and deletes; caps of 2 so that trimming happens; an insertion beam of 2 so that it overflows. The final search beam is `2 * k = 4` whatever `EfSearch` says, so it does not overflow here |

Four runs expect a violation; each is a finding:

| Run | Property | What happens |
|---|---|---|
| `LsmDropCrash` | `Durability` | A compaction that finds only tombstones writes no table; a power failure while it unlinks its inputs can keep the old value and lose the tombstone. `engine.rs:853-855` expects the next open to clean up, but without an L1 table it has no threshold |
| `LsmTornAppend` | `Durability` | After a torn tail is tolerated, new records go behind it and the next replay does not reach them |
| `VecSnapshotRace` | `IndexComplete` | A snapshot is encoded after the engine mutex is released, before another thread's vector below its id reaches the index; after a crash that vector is missing |
| `VecFiltered` | `FilteredComplete` | Deleting a hub leaves its leaves without an edge, because the repair of a leaf searches from the leaf after its only edge is gone; `nearest_filtered` then misses a live vector whatever the beams |

### What the passing runs leave out, and why

Each exclusion is a window in which the property is known to fail; it is a named set
in an MC module or a constant of the cfg, and a hazard in `PROJECT.json`.

- `DropWindow`: a crash while an all-tombstone compaction unlinks (see
  `LsmDropCrash`). Left out of every run that checks `Durability` on disk.
- A second crash after a torn tail (see `LsmTornAppend`), or a failed append, which
  leaves the same bytes: `LsmFaults` has one crash and no failing `Append`. `WalLog` has
  both, and `AckedReplayed` excepts the records behind a torn one and no others.
- Errors in creating the new log during a rotation: the engine goes on acknowledging
  writes into a file without a name. Only `LsmAnyFault` has them.
- Errors that leave an unknown L1 table (`CmpSyncDir`, `CmpOpen` failing after the
  rename): its id is used again by the next L0 table, and discovery trusts it.
  Errors that leave an unknown L0 table, or an input that could not be unlinked, are
  harmful only when a later compaction drops tombstones; `LsmFaults` therefore has
  them with puts only, `LsmCrash` has deletes without them.
- A process death followed by a power failure: replay serves records from the page
  cache that nobody synced. Only `LsmAnyFault` has kills.
- Vector side: two threads sharing a key may pass the LSM and the index in different
  orders; `put` over an indexed key leaves the vector in the live index; a tombstone
  dropped by a compaction is in no delta, so an old snapshot keeps the deleted key; a
  compaction without output lets the ids restart at 0 below an older snapshot, which is
  then taken to reflect tables it has never seen; a flush or compaction that fails
  behind a vector leaves the index without it. `VecSolo` has no compaction, no `put` and
  no failing flush. `VecThreads` has everything and checks what holds regardless:
  `IndexCurrent` is about the time before a crash, keys of one thread, and calls that
  returned without an error.

One window is left out of no run. A crash between creating `wal.log` and syncing its
header leaves a log that `WalReader::open` refuses, on this open and on every later
one, although `engine.rs:20-21` says that the engine resumes the state it had before the
crash. That open does *not* always succeed is therefore part of the model (`pc` is
`"Corrupt"`), and the properties say what holds of a refusal: such a log never held a
record (`RefusalTakesTwoFaults`), the tables hold all that was acknowledged
(`Durability`, which is checked at `"Corrupt"` too), and a log with its header is refused
only after two faults. `RefusedOnlyIfDamaged` says the same of the bytes, with a tail of
zeros as a further reason.

A second disagreement with a comment shows in no run: `index.rs:57` calls `m_max_0` the
maximum at layer 0, but `insert` does not trim the list of the new node, which with `m_max_0`
below `m` holds up to `m` nodes. Nothing checks the parameters, so neither does the
model; `DegreeBounded` bounds a list by its cap or by `m`, whichever is larger. In the
runs, and with the defaults, the cap is the larger.

### Fairness

`Lsm` assumes weak fairness of `CallStep \/ OpenStep`: a call that holds the mutex
waits for nobody, so the operating system scheduling its thread is enough for it to
go on. Nothing is assumed of clients, of crashes or of a reopening; a crash in the
middle of a call ends it. The other modules check safety only; that a merge ends is the
action property `MergeProgress`, a number of entries left that no step of the merge
increases and that every winner taken and every entry dropped decreases.

## 4. Proofs

Every theorem holds for all values of the constants that satisfy the modules'
assumptions (`ConstantsAssumption`, `VectorAssumption`, `WalAssumption`, `IndexAssumption`, and
`MemtableAssumption` with those of the table modules), which TLC evaluates on every run: any number of keys,
values, threads, ids, calls, crashes and errors. Where a property holds only outside a
window of section 3, the theorem names that restriction as an operator of its proof module
and has it as a hypothesis, never as an assumption. TLC checked each inductive invariant
as an invariant of a run before it was proved.

| Theorem | States | For |
|---|---|---|
| `LsmProofs!TypeCorrect`, `LevelsOrdered`, `ReadersHaveFiles` | `[]TypeOK`, `[]LevelOrder`, `[]RegisteredOnDisk` | all faults |
| `LsmProofs!GetReadsLatest` | `[]ReadsLatest` | all faults |
| `LsmCrashProofs!CrashDurable`, `TablesStayDurable` | `[]Durability`, `[]RegisteredDurable` | `CrashModel` |
| `LsmCrashProofs!EngineImplementsMap` | `ImplementsDurableMap` | `CrashModel` |
| `LsmCrashProofs!RefusalsTakeTwoFaults` | `[]RefusalTakesTwoFaults` | all faults |
| `LsmCrashProofs!LevelZeroBounded` | `[]L0Bounded` | `BoundModel` |
| `WalLogProofs!WalTypeCorrect`, `ReplayIsExact`, `RefusalsJustified`, `AckedSurvive` | `[]TypeOK`, `[]ReplayExact`, `[]RefusedOnlyIfDamaged`, `[]AckedReplayed` | all faults |
| `TablePipelineProofs!SizeStaysExact`, `TablesAlwaysWellFormed`, `NothingRefused`, `MergeIsExact`, `GetIsExact` | `[]SizeExact`, `[]TablesWellFormed`, `[]NeverRefused`, `[]MergeExact`, `[]GetExact` | any damage |
| `TablePipelineProofs!MergeComesToItsEnd` | `MergeProgress` | any damage |
| `VectorEngineProofs!VectorTypeCorrect`, `DimensionsAgree`, `IndexFollowsLsm` | `[]TypeOK`, `[]IndexUniform`, `[]IndexCurrent` | all interleavings and faults |
| `VectorEngineProofs!SnapshotsRecover`, `IndexMatchesLsm` | `[]SnapshotsSound`, `[]IndexExact` | `SoloModel` |
| `VectorIndexProofs!IndexInvariant` | `[]IndexInv`, the invariant below | every history of calls |
| `VectorIndexProofs!EdgesInLayers`, `DegreesBounded`, `EntryIsHighest`, `KeysMatchLiveNodes`, `SnapshotsReadable` | `[]EdgesWithinLayers`, `[]DegreeBounded`, `[]EntryHighest`, `[]KeysMatchLive`, `[]SnapshotReadable` | every history of calls |
| `VectorIndexProofs!NearestIsSound`, `FilteredSearchExhausts`, `BeamIsExhaustive` | `[]NearestSound`, `[]FilteredExhaustsSearch`, `[]BeamExhaustive` | every history of calls |

### Storage engine

`LsmProofs`. Types and level order rest on `IInv == TypeOK /\ IdRoom /\ LevelOrder`. Types
alone are not inductive: that a new id is still in `0 .. MaxId` needs `IdRoom`, which says
at which steps how many ids are still to be had, and that an id can be prepended to L0
needs `LevelOrder`. The argument at `open` is that `discover_sstables` keeps the L0 tables
above the highest L1 table and takes the next id above every file. `ReadersHaveFiles` adds
`ReadersOnDisk`, `TableInFlight` (the table a flush or compaction is about to register is
in the directory and not empty) and `InputsRetired` (the ids a compaction still has to
unlink are none of the registered ones): `SstOpen` registers what `SstRename` put there two
steps before, and `Unlink` removes both names of an id.

For the reads `RInv` adds what a table in flight holds: until the flush or the compaction
registers it, the file of `NewL0` is the memtable and that of `NewL1` is `CompactionOutput`
(`FlushedTable`, `MergedTable`). `Lookup` is `get` with tombstones still visible. A flush keeps
it because the memtable's cell becomes the newest table's cell. The compaction is the heart:
the newest of the registered cells, by id, is the first one `get` meets, since ids ascend
from L1 to the head of L0 (`LevelOrder`); dropping a tombstone from the one table that is
left changes no answer.

`LsmCrashProofs`. `CInv` adds the log and both directories. `LogInv`: the memtable is what
replaying the synced log gives, or the log being rotated away holds no more than the table
just registered; `InFlight` says which of two logs a crash in the middle of a rotation may
leave, and that both give the same answers. `DirInv`: a registered table is on disk and durable, every other table
file is the table in flight or is below a durable L1 table (`OrphansDead`), so that
`discover_sstables` drops it. From these every directory a crash can leave yields `acked` or an answer in
`limbo`. `CrashModel` leaves out the windows of the two findings (`DropUnlink`/`DropFinish` for
crashes, torn appends), process deaths, and the errors of section 3 that leave a stray file
or half a rotation. `EngineImplementsMap` is the step simulation of `DurableMap` under `CInv`:
a step maps to a step of the map or to a stutter.

`RefusalsTakeTwoFaults` counts faults, under all of them. `TearInv` says of both logs a crash may
leave (`Tears`): a torn record in it takes one fault; a record behind a torn one takes one fault
while the engine runs, since a failed append is enough, and two once the process has ended
(`NeededBehind`), since its end is a fault more; and a log without a header has no record, since
records are appended only to an attached log. What makes it inductive at a power failure
is that a cut or torn survivor has bytes behind a torn record only if the log had a torn
record before (`SurvivorTears`).

`LevelZeroBounded` cannot count the listed tables alone: a flush whose `SstSyncDir` or
`SstOpen` fails leaves a file that the engine does not list and that the next discovery may.
`BoundInv` therefore bounds `Held`: what is listed, what a flush is about to list, and what
discovery would list after some crash, that is every id that one of the two directories has
in level 0 above all those both have in level 1 (`Owed`). Only the rename of a flush adds to
`Held`. A compaction that opens its output leaves nothing in it, since the output has the
highest id of all and both directories have it; inputs that the crash of an unlinking brings
back are below it. `LastIdKept` (both directories have the table with the last id given out)
is why no later `open` gives that id out again, and `LeftoversDead` why discovery lists
nothing new while it cleans up. `HeldBounded` is the count: below `Trigger + crashes + fails`
wherever a call may begin, up to it between the rename of a flush and the compaction behind
it; a call that does not get that far has counted as a crash or a failure.

`BoundModel` has every power failure, torn writes included, and every I/O error but one: it
leaves out deletes (a compaction that comes out empty has no output that keeps its inputs
down), the death of the process alone (it keeps inputs that a compaction has covered by an
output no crash is sure to find), and the failing creation of the new log in a rotation
(the next flushes stop at the missing `wal.log`, before their compaction, with a table more
each). That is wider than `LsmFaults`, which checks the same property for the errors of
`StrayFails`, crashes outside `DropWindow`, and at most three faults.

### Log

`WInv`: the file is the header followed by one chunk of cells for each entry of the ghost
`log`, the chunk a whole record or, where the append failed or a crash cut it, a prefix of
one or a run of zeros (`FileInv`); every acknowledged record is a whole chunk
below the sync mark (`AckedInv`); the reader stands at the start of a chunk and has
yielded exactly the records of the chunks before it (`ReaderInv`). The cut of a crash
is somewhere inside a chunk. `decode` at a whole chunk gives its record, and at a damaged
one stops or refuses, whatever number the field read as a length is.

### Tables

`SsTableProofs` has the lemmas about the operators. `WriterOK` (blocks contiguous, indexed,
ascending, remembered by the filter) holds of `create` and is kept by `add`; `finish` of such
a writer opens, and the reader is `TableOK` with the same contents; `get` finds exactly what
is in a `TableOK` table or says `Corruption` when the block is damaged, because the filter
has no false negatives, the block index leads to the one block whose keys surround the key, and the
scan stops at it; `iter_next` yields the items in order with none left out.

`TablePipelineProofs` has `PInv`. `LatestInv`: for each key the memtable or the newest table
that holds it has the last entry written. `FlushInv`: the writer holds exactly the memtable's
entries up to its last key. `MergeInv`: the heap is the current items of all iterators but the
winner's, every entry of a source is up to the winner's key or not yet yielded
(`NoneSkipped`), and the output is the live newest entries below it; once an error is pending
nothing is claimed of what was skipped, since the merge then fails at its next call.
`MergeComesToItsEnd` counts what is left as sums over blocks and sources; an iterator
that moves leaves less, and refilling puts at most one entry into the heap for it.

### Vector side

`TInv` (types, ids below the next one, what each thread's call carries) and `UInv` (the live
index and every snapshot have one dimension) hold under every interleaving: the dimension
check is repeated by the graph under the write lock. `KInv` relates index and LSM per
key through the steps of the call on it. `SnapshotsRecover` needs `SInv`: each snapshot is the
index of the LSM as it stood at the snapshot's id, and whatever was written since is in
the delta. Its hypothesis `SoloModel` is one thread, one dimension, no `put` over vectors,
no failing flush and no compaction: each of the others breaks it (section 3, finding
`VecSnapshotRace`).

### Graph

`IndexInv` says of the arena (`GoodGraph`) that it is a graph of nodes with a list per layer
up to their level, that no two nodes have the same vector, that an edge at a layer joins two
different nodes that have it (`Linked`) and that no list is over its limit (`Fits`); of the
entry point, `EntryHighest`; of the maps, `KeysMatchLive`. It is inductive because nothing in
it speaks of *which* edges a search finds: `search_layer` started at a node that has the layer
returns such nodes (`SearchIn`, from `Closed`: the nodes that have a layer have neighbours
that have it too), the heuristic returns at most `m` of its candidates (`SelectIs`), and
neither `m` nor the cap is above `DegreeLimit`. What is hard is the middle of a call. While
`insert` links a new node, no layer below the one being linked knows it yet (`Unknown`): that is why a search there never finds
the new node itself, which would give it an edge to itself. And one list may be over its limit
between a push and its trimming: the set `X` of `Fits` names it, and each of `LinkBack`,
`LinkBothEach` and `RepairNode` is shown to empty it again (`LinkBackIn`, `RepairNodeIn`).

What a fold computes is an induction over data, and the library's induction theorem takes an
operator, but a fold *of a function* can be unfolded: `FoldRuns` shows, by least elements,
that the recursion behind `FoldLeft` is a run `k[0], ..., k[n]` of its steps as long as they
stay in a set `D`, and `DescentExists` does the same for the recursions over layers. Each loop
of the model has a lemma that gives its run (`MoveRuns`, `VisitRuns`, `BeamRuns`, ...); what
the loop does is then an induction over the positions of the run (`UpTo`).

For `BeamIsExhaustive` the run of `search_layer` with room for the whole arena keeps its
results equal to what it visited, so the closest candidate is never farther than the worst
result and the early exit is not taken; each step expands one more node (`WideExpand`), so
after as many steps as there are nodes no candidate is left, and what was visited has no
neighbour outside. That is the smallest such set, as is `ReachableFrom` (`ReachIs`).
`FilteredSearchExhausts` bounds the doubling in the same way: after `i` rounds the factor is
above `i`, so that the search asks for every live node before the rounds run out.

### Only model-checked

- `EveryCallReturns`: liveness under fairness is out of the prover's reach.

- The findings, which are counterexamples.

## 5. Not modelled

- Bytes below the level of fields: how a number is laid out, and CRC collisions. In
  `SsTable` the fields of an entry are not cells of their own, since a block is read only
  after its CRC has been checked as a whole; the footer and the index block are not
  damaged, `Damage` is about data blocks.
- The byte format of HNSW snapshots and its checksum; what a snapshot contains and the
  consistency checks of `decode_snapshot` are in `VectorIndex`.
- The hash function of the bloom filter (any values may be given for it).
- The quantizer: floating-point arithmetic that no other part of the library calls.
- Read errors at `open`: `discover_sstables` returns when `list_dir` or
  `SsTableReader::open` fails, and `replay_wal` when a read does. Such an `open` has removed
  orphans and `.tmp` files at most: for the directory it is a `Kill` behind `Discover`.
- Distances in floating point, and tie-breaking between equal distances.
- `nearest` after `close`, which the code answers: it changes no state.
- Benchmarks, the example, logging and the wording of errors.

## 6. Plan

1. Done: all modules of section 2, the runs of section 3 and the theorems of section 4. Every
   safety property of a passing run is now stated by a theorem.
2. No further module is planned: what is left is listed in section 5.

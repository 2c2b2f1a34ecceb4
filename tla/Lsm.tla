-------------------------------- MODULE Lsm --------------------------------
(***************************************************************************)
(* The storage engine behind put, delete, get, flush and close             *)
(* (src/engine.rs, EngineInner) together with the directory it keeps: the  *)
(* write-ahead log, the SSTables of levels 0 and 1, and their .tmp files.  *)
(*                                                                         *)
(* Every call holds the engine mutex from beginning to end, so calls do    *)
(* not interleave; what interleaves with a call is a crash or an I/O       *)
(* error.  A call is therefore cut into one action per I/O operation, and  *)
(* pc says which operation is next.                                        *)
(*                                                                         *)
(* A file system with a cache: disk is the directory as the process sees   *)
(* it and dur the one a crash can fall back to; sync_dir makes them equal. *)
(* After a crash each name that differs may have either content.  The      *)
(* contents of an SSTable are synced before it is renamed into place; a    *)
(* table file is never empty, so the table with no cell stands for "no     *)
(* such file".                                                             *)
(*                                                                         *)
(* An operator that no action uses, defined just above another one with    *)
(* the same parameters (AnswerRaw, L1First, OldestWins, ...), is a         *)
(* deliberately wrong variant of that one: PROJECT.json pairs it with the  *)
(* property that must notice the difference.                               *)
(***************************************************************************)
EXTENDS Naturals, Sequences, FiniteSets, FiniteSetsExt

CONSTANTS
    Keys, Values,
    Tombstone,            \* the entry a delete leaves behind
    Missing,              \* no entry, and get's answer for no value
    Torn,                 \* a record of which only a prefix reached the WAL
    Writes,               \* the entries clients write: values, Tombstone
    Trigger,              \* options.l0_compaction_trigger
    MemtableMax,          \* options.memtable_max_size_bytes
    KeyBytes, ValueBytes, \* length of a key and of a value
    CrashAt,              \* the steps at which power may fail
    KillAt,               \* the steps at which the process may die alone
    FailAt,               \* the steps whose I/O may return an error
    TornWrites,           \* may a prefix of an unsynced record survive?
    MaxId, MaxOps, MaxCrashes, MaxFails,  \* bounds of the instance
    MaxFaults                             \* ... on crashes and failures together

FlushSteps == {"SstWrite", "SstRename", "SstSyncDir", "SstOpen",
               "WalRemove", "WalCreate", "WalHeader", "WalSyncDir"}
CompactSteps == {"CmpWrite", "CmpRename", "CmpSyncDir", "CmpOpen",
                 "CmpUnlink", "CmpFinish", "DropUnlink", "DropFinish"}
OpenSteps == {"Replay", "OpenCreate", "OpenHeader", "OpenSyncDir"}
BusySteps == {"WalSync", "FlushSync"} \cup FlushSteps \cup CompactSteps
UpSteps == {"Idle", "Closed"} \cup BusySteps
Steps == UpSteps \cup OpenSteps \cup {"Down", "Corrupt"}

Entries == Values \cup {Tombstone}
Cells == Entries \cup {Missing}
Answers == Values \cup {Missing}
Ids == 0 .. MaxId
Files == {0, 1} \X Ids
Tables == [Keys -> Cells]
NoTable == [k \in Keys |-> Missing]
Records == [key : Keys, entry : Entries]
NoReq == [key |-> Missing, entry |-> Missing]
Wals == [exists : BOOLEAN, hdr : BOOLEAN,
         recs : Seq(Records \cup {Torn}), synced : Nat]

ASSUME ConstantsAssumption ==
    /\ Tombstone # Missing /\ Tombstone \notin Values /\ Missing \notin Values
    /\ Torn \notin Records
    /\ Writes \subseteq Entries
    /\ Trigger \in Nat /\ MemtableMax \in Nat
    /\ KeyBytes \in Nat /\ ValueBytes \in Nat
    /\ CrashAt \subseteq Steps /\ KillAt \subseteq Steps
    /\ FailAt \subseteq Steps \cup {"Append", "Discover", "Close"}
    /\ TornWrites \in BOOLEAN
    /\ MaxId \in Nat /\ MaxOps \in Nat /\ MaxCrashes \in Nat /\ MaxFails \in Nat
    /\ MaxFaults \in Nat

VARIABLES
    pc,          \* the next I/O step of the call in progress
    req,         \* the record the call in progress appended
    memtable,    \* EngineInner.memtable
    l0, l1,      \* EngineInner.levels: ids, L0 newest first
    next_sst_id, \* EngineInner.next_sst_id
    input_ids,   \* compaction inputs still to be unlinked
    attached,    \* is the writer's file the one named wal.log?
    disk, dur,   \* cached and durable directory: SSTable contents by name
    tmps,        \* the SSTable names that have a non-empty .tmp file
    wal,         \* the file the cached directory names wal.log
    walPrev,     \* the one the durable directory names ...
    walDirty,    \* ... when the two differ
    acked,       \* ghost: answer of the last write that took effect, per key
    limbo,       \* ghost: answers of later writes in flight or failed
    ops, crashes, fails   \* what the instance has used of its bounds

mvars == <<memtable, l0, l1, next_sst_id, input_ids>>
dvars == <<disk, dur, tmps>>
wvars == <<wal, walPrev, walDirty, attached>>
gvars == <<acked, limbo>>
bounds == <<ops, crashes, fails>>
vars == <<pc, req, mvars, dvars, wvars, gvars, bounds>>

-----------------------------------------------------------------------------
(* Tables and levels                                                       *)

AnswerRaw(cell) == cell
Answer(cell) == IF cell \in Values THEN cell ELSE Missing

\* Memtable::approximate_size: keys plus values, a tombstone has no value.
approximate_size(m) ==
    KeyBytes * Cardinality({k \in Keys : m[k] # Missing})
        + ValueBytes * Cardinality({k \in Keys : m[k] \in Values})

\* The registered readers in the order Engine::get asks them.
L1First == [i \in DOMAIN l1 |-> <<1, l1[i]>>] \o [i \in DOMAIN l0 |-> <<0, l0[i]>>]
ReadOrder == [i \in DOMAIN l0 |-> <<0, l0[i]>>] \o [i \in DOMAIN l1 |-> <<1, l1[i]>>]

Registered == {<<0, l0[i]>> : i \in DOMAIN l0} \cup {<<1, l1[i]>> : i \in DOMAIN l1}

\* Engine::get: the memtable, then L0 newest first, then L1; the first hit
\* answers, and a tombstone is a hit.
get(k) ==
    LET hits == {i \in DOMAIN ReadOrder : disk[ReadOrder[i]][k] # Missing}
    IN  Answer(CASE memtable[k] # Missing -> memtable[k]
                 [] memtable[k] = Missing /\ hits # {} -> disk[ReadOrder[Min(hits)]][k]
                 [] OTHER -> Missing)

\* MergingIterator: of the entries for a key, the one whose source has the
\* highest sequence (the SSTable id) wins.
OldestWins(f, g) == f[2] <= g[2]
NewestWins(f, g) == g[2] <= f[2]
NewestCell(files, k) ==
    LET hits == {f \in files : disk[f][k] # Missing}
    IN  IF hits = {} THEN Missing
        ELSE disk[CHOOSE f \in hits : \A g \in hits : NewestWins(f, g)][k]

\* Compaction output: L1 is the bottom level, so tombstones are dropped.
DropTombstone(cell) == IF cell = Tombstone THEN Missing ELSE cell
CompactionOutput == [k \in Keys |-> DropTombstone(NewestCell(Registered, k))]

\* discover_sstables: which names are there, which survive, which are orphans.
IdsAt(level) == {i \in Ids : disk[<<level, i>>] # NoTable}
LowestL1 == IF IdsAt(1) = {} THEN {} ELSE {Min(IdsAt(1))}
SurvivingL1 == IF IdsAt(1) = {} THEN {} ELSE {Max(IdsAt(1))}
EveryL0 == IdsAt(0)
LiveL0 == {i \in IdsAt(0) : \A j \in SurvivingL1 : i > j}
LiveFiles == ({0} \X LiveL0) \cup ({1} \X SurvivingL1)
NewestFirst(S) == {s \in [1 .. Cardinality(S) -> S] :
                      \A i, j \in DOMAIN s : i < j => s[i] > s[j]}
ReusedId == LET S == IdsAt(0) \cup IdsAt(1) IN IF S = {} THEN 0 ELSE Max(S)
NextId == LET S == IdsAt(0) \cup IdsAt(1) IN IF S = {} THEN 0 ELSE Max(S) + 1

-----------------------------------------------------------------------------
(* The write-ahead log                                                     *)

NoWal == [exists |-> FALSE, hdr |-> FALSE, recs |-> <<>>, synced |-> 0]

\* WalReader stops at the first record it cannot read.
NoneIfTorn(w) == IF w.exists /\ w.hdr /\ \A i \in DOMAIN w.recs : w.recs[i] # Torn
                   THEN Len(w.recs) ELSE 0
ReadableLen(w) ==
    LET torn == {i \in DOMAIN w.recs : w.recs[i] = Torn}
    IN  CASE ~w.exists \/ ~w.hdr -> 0
          [] w.exists /\ w.hdr /\ torn # {} -> Min(torn) - 1
          [] OTHER -> Len(w.recs)

\* replay_wal: the last record of a key wins.
ReplayedCell(w, k) ==
    LET hits == {i \in 1 .. ReadableLen(w) : w.recs[i].key = k}
    IN  IF hits = {} THEN Missing ELSE w.recs[Max(hits)].entry
replay_wal(w) == [k \in Keys |-> ReplayedCell(w, k)]

\* Bytes follow a torn record: decoding fails, or the torn record's length
\* field swallows the rest of the file and replay ends there silently.
TornAnywhere(w) == \E i \in DOMAIN w.recs : w.recs[i] = Torn
TornInside(w) == \E i \in DOMAIN w.recs : i < Len(w.recs) /\ w.recs[i] = Torn

\* What a crash can leave of a WAL file: the synced records and a prefix of
\* the others, the last of which may be torn.
Survivors(w) ==
    LET cut(n) == [w EXCEPT !.recs = SubSeq(w.recs, 1, n), !.synced = n]
        torn(n) == [w EXCEPT !.recs = SubSeq(w.recs, 1, n) \o <<Torn>>, !.synced = n + 1]
    IN  {cut(n) : n \in w.synced .. Len(w.recs)}
          \cup (IF TornWrites THEN {torn(n) : n \in w.synced .. Len(w.recs) - 1} ELSE {})

\* The reader's view of the directory as it is now, were it opened.
DiskCell(k) == IF ReplayedCell(wal, k) # Missing THEN ReplayedCell(wal, k)
               ELSE NewestCell(LiveFiles, k)

-----------------------------------------------------------------------------
(* Steps.  An I/O error makes the call return Err: the state the earlier   *)
(* steps built stays as it is, and the engine is Idle again; an error in   *)
(* Engine::open leaves no engine.                                          *)

Goto(step) == pc' = step
CanFail(step) == step \in FailAt /\ fails < MaxFails /\ crashes + fails < MaxFaults
Opening == pc \in OpenSteps
Fails(step) == CanFail(step) /\ fails' = fails + 1
                 /\ Goto(IF Opening THEN "Down" ELSE "Idle")
                 /\ UNCHANGED <<ops, crashes, gvars>>
Proceeds == UNCHANGED <<gvars, bounds>>
Returns == Goto("Idle") /\ Proceeds

\* maybe_compact, reached by every put, delete and flush that got this far.
CompactsLate(levelZero) == IF Len(levelZero) <= Trigger THEN "Idle" ELSE "CmpWrite"
maybe_compact(levelZero) == IF Len(levelZero) < Trigger THEN "Idle" ELSE "CmpWrite"

\* Room in the instance for the two ids a call can allocate.
Admits == pc = "Idle" /\ ops < MaxOps /\ next_sst_id < MaxId

InLimbo(k, e) == limbo' = [limbo EXCEPT ![k] = @ \cup {Answer(e)}]
Appended(x) == IF attached THEN [wal EXCEPT !.recs = Append(@, x)] ELSE wal
UnsyncedWal == wal
SyncedWal == IF attached THEN [wal EXCEPT !.synced = Len(wal.recs)] ELSE wal

\* put, delete: inner.writer.append.
WriteAppend(k, e) ==
    /\ Admits
    /\ InLimbo(k, e)
    /\ ops' = ops + 1
    /\ \/ /\ wal' = Appended([key |-> k, entry |-> e])
          /\ req' = [key |-> k, entry |-> e]
          /\ Goto("WalSync")
          /\ UNCHANGED fails
       \/ /\ CanFail("Append")
          /\ wal' \in {wal} \cup (IF TornWrites THEN {Appended(Torn)} ELSE {})
          /\ Goto("Idle")
          /\ fails' = fails + 1
          /\ UNCHANGED req
    /\ UNCHANGED <<mvars, dvars, walPrev, walDirty, attached, acked, crashes>>

\* put, delete: inner.writer.sync, the memtable update, maybe_auto_flush.
WalSync ==
    /\ pc = "WalSync"
    /\ \/ /\ wal' = SyncedWal
          /\ memtable' = [memtable EXCEPT ![req.key] = req.entry]
          /\ acked' = [acked EXCEPT ![req.key] = Answer(req.entry)]
          /\ limbo' = [limbo EXCEPT ![req.key] = {}]
          /\ Goto(IF approximate_size(memtable') >= MemtableMax
                    THEN "SstWrite" ELSE maybe_compact(l0))
          /\ UNCHANGED bounds
       \/ Fails("WalSync") /\ UNCHANGED <<wal, memtable>>
    /\ req' = NoReq
    /\ UNCHANGED <<l0, l1, next_sst_id, input_ids, dvars, walPrev, walDirty, attached>>

\* flush: an empty memtable only syncs the WAL.
Flush ==
    /\ Admits
    /\ Goto(IF memtable = NoTable THEN "FlushSync" ELSE "SstWrite")
    /\ ops' = ops + 1
    /\ UNCHANGED <<req, mvars, dvars, wvars, gvars, crashes, fails>>

FlushSync ==
    /\ pc = "FlushSync"
    /\ \/ wal' = SyncedWal /\ Goto(maybe_compact(l0)) /\ Proceeds
       \/ Fails("FlushSync") /\ UNCHANGED wal
    /\ UNCHANGED <<req, mvars, dvars, walPrev, walDirty, attached>>

-----------------------------------------------------------------------------
(* flush_inner: memtable to a new L0 table, then WAL rotation              *)

NewL0 == <<0, next_sst_id>>

\* SsTableWriter::create refuses a .tmp file that is not empty; a failed
\* write leaves one behind.
SstWrite ==
    /\ pc = "SstWrite"
    /\ \/ NewL0 \in tmps /\ Returns /\ UNCHANGED tmps
       \/ /\ NewL0 \notin tmps
          /\ \/ tmps' = tmps \cup {NewL0} /\ Goto("SstRename") /\ Proceeds
             \/ Fails("SstWrite") /\ tmps' \in {tmps, tmps \cup {NewL0}}
    /\ UNCHANGED <<req, mvars, disk, dur, wvars>>

SstRename ==
    /\ pc = "SstRename"
    /\ \/ /\ disk' = [disk EXCEPT ![NewL0] = memtable]
          /\ tmps' = tmps \ {NewL0}
          /\ Goto("SstSyncDir") /\ Proceeds
       \/ Fails("SstRename") /\ UNCHANGED <<disk, tmps>>
    /\ UNCHANGED <<req, mvars, dur, wvars>>

\* io.sync_dir: every directory entry becomes durable, wal.log's too.
NoSyncDir == UNCHANGED <<dur, walDirty>>
SyncDir == dur' = disk /\ walDirty' = FALSE

SstSyncDir ==
    /\ pc = "SstSyncDir"
    /\ \/ SyncDir /\ Goto("SstOpen") /\ Proceeds
       \/ Fails("SstSyncDir") /\ UNCHANGED <<dur, walDirty>>
    /\ UNCHANGED <<req, mvars, disk, tmps, wal, walPrev, attached>>

RegisterL0Last == l0 \o <<next_sst_id>>
RegisterL0 == <<next_sst_id>> \o l0

SstOpen ==
    /\ pc = "SstOpen"
    /\ \/ /\ l0' = RegisterL0
          /\ next_sst_id' = next_sst_id + 1
          /\ Goto("WalRemove") /\ Proceeds
       \/ Fails("SstOpen") /\ UNCHANGED <<l0, next_sst_id>>
    /\ UNCHANGED <<req, memtable, l1, input_ids, dvars, wvars>>

\* remove_file fails when wal.log is gone already.
WalRemove ==
    /\ pc = "WalRemove"
    /\ \/ ~wal.exists /\ Returns /\ UNCHANGED wvars
       \/ /\ wal.exists
          /\ walPrev' = wal /\ walDirty' = TRUE
          /\ wal' = NoWal /\ attached' = FALSE
          /\ Goto("WalCreate") /\ Proceeds
       \/ wal.exists /\ Fails("WalRemove") /\ UNCHANGED wvars
    /\ UNCHANGED <<req, mvars, dvars>>

\* WalWriter::open on a missing file, in a rotation or in Engine::open.
WalCreate ==
    /\ pc \in {"WalCreate", "OpenCreate"}
    /\ \/ /\ wal' = [NoWal EXCEPT !.exists = TRUE]
          /\ walDirty' = TRUE
          /\ walPrev' = IF walDirty THEN walPrev ELSE wal
          /\ Goto(IF Opening THEN "OpenHeader" ELSE "WalHeader") /\ Proceeds
       \/ Fails("WalCreate") /\ UNCHANGED <<wal, walPrev, walDirty>>
    /\ UNCHANGED <<req, mvars, dvars, attached>>

WalHeader ==
    /\ pc \in {"WalHeader", "OpenHeader"}
    /\ \/ /\ wal' = [wal EXCEPT !.hdr = TRUE]
          /\ Goto(IF Opening THEN "OpenSyncDir" ELSE "WalSyncDir") /\ Proceeds
       \/ Fails("WalHeader") /\ wal' \in {wal, [wal EXCEPT !.hdr = TRUE]}
    /\ UNCHANGED <<req, mvars, dvars, walPrev, walDirty, attached>>

\* The new writer replaces the old one, and flush_inner empties the memtable.
WalSyncDir ==
    /\ pc = "WalSyncDir"
    /\ \/ /\ SyncDir
          /\ attached' = TRUE
          /\ memtable' = NoTable
          /\ Goto(maybe_compact(l0)) /\ Proceeds
       \/ Fails("WalSyncDir") /\ UNCHANGED <<dur, walDirty, attached, memtable>>
    /\ UNCHANGED <<req, l0, l1, next_sst_id, input_ids, disk, tmps, wal, walPrev>>

-----------------------------------------------------------------------------
(* compact_l0_l1                                                           *)

NewL1 == <<1, next_sst_id>>

\* The ids collected while the merge sources are set up: L1, then L0.
InputsAndOutput == l1 \o l0 \o <<next_sst_id>>
Inputs == l1 \o l0

\* With nothing to write, the levels are emptied without an output table.
CmpWrite ==
    /\ pc = "CmpWrite"
    /\ \/ NewL1 \in tmps /\ Returns /\ UNCHANGED <<tmps, mvars>>
       \/ /\ NewL1 \notin tmps /\ CompactionOutput # NoTable
          /\ tmps' = tmps \cup {NewL1}
          /\ Goto("CmpRename") /\ Proceeds
          /\ UNCHANGED mvars
       \/ /\ NewL1 \notin tmps /\ CompactionOutput = NoTable
          /\ next_sst_id' = next_sst_id + 1
          /\ input_ids' = Inputs
          /\ l0' = <<>> /\ l1' = <<>>
          /\ Goto("DropUnlink") /\ Proceeds
          /\ UNCHANGED <<tmps, memtable>>
       \/ /\ NewL1 \notin tmps
          /\ Fails("CmpWrite") /\ tmps' \in {tmps, tmps \cup {NewL1}}
          /\ UNCHANGED mvars
    /\ UNCHANGED <<req, disk, dur, wvars>>

CmpRename ==
    /\ pc = "CmpRename"
    /\ \/ /\ disk' = [disk EXCEPT ![NewL1] = CompactionOutput]
          /\ tmps' = tmps \ {NewL1}
          /\ Goto("CmpSyncDir") /\ Proceeds
       \/ Fails("CmpRename") /\ UNCHANGED <<disk, tmps>>
    /\ UNCHANGED <<req, mvars, dur, wvars>>

CmpSyncDir ==
    /\ pc = "CmpSyncDir"
    /\ \/ SyncDir /\ Goto("CmpOpen") /\ Proceeds
       \/ Fails("CmpSyncDir") /\ UNCHANGED <<dur, walDirty>>
    /\ UNCHANGED <<req, mvars, disk, tmps, wal, walPrev, attached>>

CmpOpen ==
    /\ pc = "CmpOpen"
    /\ \/ /\ next_sst_id' = next_sst_id + 1
          /\ input_ids' = Inputs
          /\ l0' = <<>> /\ l1' = <<next_sst_id>>
          /\ Goto("CmpUnlink") /\ Proceeds
       \/ Fails("CmpOpen") /\ UNCHANGED <<next_sst_id, input_ids, l0, l1>>
    /\ UNCHANGED <<req, memtable, dvars, wvars>>

\* Both names an input may have are removed; an error is ignored.
Unlinked(id) == [f \in Files |-> IF f[2] = id THEN NoTable ELSE disk[f]]
SameInputs == input_ids
InputsLeft == Tail(input_ids)
IgnoredError(step) == CanFail(step) /\ fails' = fails + 1

Unlink ==
    /\ pc \in {"CmpUnlink", "DropUnlink"} /\ input_ids # <<>>
    /\ \/ disk' = Unlinked(Head(input_ids)) /\ UNCHANGED fails
       \/ IgnoredError(pc) /\ UNCHANGED disk
    /\ input_ids' = InputsLeft
    /\ UNCHANGED <<pc, req, memtable, l0, l1, next_sst_id, dur, tmps, wvars, gvars, ops, crashes>>

UnlinkedAll ==
    /\ pc \in {"CmpUnlink", "DropUnlink"} /\ input_ids = <<>>
    /\ Goto(IF pc = "CmpUnlink" THEN "CmpFinish" ELSE "DropFinish")
    /\ Proceeds /\ UNCHANGED <<req, mvars, dvars, wvars>>

CmpFinish ==
    /\ pc \in {"CmpFinish", "DropFinish"}
    /\ \/ SyncDir /\ UNCHANGED fails
       \/ IgnoredError(pc) /\ UNCHANGED <<dur, walDirty>>
    /\ Goto("Idle")
    /\ UNCHANGED <<req, mvars, disk, tmps, wal, walPrev, attached, gvars, ops, crashes>>

\* close: sync, then refuse every further call; a failed sync closes nothing.
Close ==
    /\ pc = "Idle"
    /\ \/ wal' = SyncedWal /\ Goto("Closed") /\ Proceeds
       \/ Fails("Close") /\ UNCHANGED wal
    /\ UNCHANGED <<req, mvars, dvars, walPrev, walDirty, attached>>

-----------------------------------------------------------------------------
(* Crash and Engine::open                                                  *)

\* The process is gone, and with it everything it kept in memory.
Dies(steps) ==
    /\ pc \in steps \ {"Down", "Corrupt"}
    /\ crashes < MaxCrashes /\ crashes + fails < MaxFaults
    /\ memtable' = NoTable /\ l0' = <<>> /\ l1' = <<>>
    /\ next_sst_id' = 0 /\ input_ids' = <<>>
    /\ attached' = FALSE /\ req' = NoReq
    /\ Goto("Down")
    /\ crashes' = crashes + 1
    /\ UNCHANGED <<tmps, gvars, ops, fails>>

\* Power fails: every directory entry not yet synced may have its cached or
\* its durable content, every unsynced record may be lost.
Crash ==
    /\ Dies(CrashAt)
    /\ \E S \in SUBSET {f \in Files : disk[f] # dur[f]} :
          disk' = [f \in Files |-> IF f \in S THEN dur[f] ELSE disk[f]]
    /\ dur' = disk'
    /\ wal' \in Survivors(wal) \cup (IF walDirty THEN {NoWal} \cup Survivors(walPrev) ELSE {})
    /\ walPrev' = NoWal /\ walDirty' = FALSE

\* Only the process dies: the page cache, synced or not, is still there.
Kill == Dies(KillAt) /\ UNCHANGED <<disk, dur, wal, walPrev, walDirty>>

Keeping(S) == [f \in Files |-> IF f \in LiveFiles \cup S THEN disk[f] ELSE NoTable]

\* discover_sstables: .tmp files and orphans are removed (best effort),
\* the surviving tables are opened and ordered, the next id is above all.
Discover ==
    /\ pc = "Down"
    /\ l0' \in NewestFirst(LiveL0)
    /\ l1' \in NewestFirst(SurvivingL1)
    /\ next_sst_id' = NextId
    /\ \/ disk' = Keeping({}) /\ tmps' = {} /\ UNCHANGED fails
       \/ /\ IgnoredError("Discover")
          /\ \E S \in SUBSET {f \in Files : disk[f] # NoTable} : disk' = Keeping(S)
          /\ tmps' \in SUBSET tmps
    /\ Goto("Replay")
    /\ UNCHANGED <<req, memtable, input_ids, dur, wvars, gvars, ops, crashes>>

\* The ghosts restart from what the directory held when it was opened.
Recovered == /\ acked' = [k \in Keys |-> Answer(DiskCell(k))]
             /\ limbo' = [k \in Keys |-> {}]

\* replay_wal, and WalWriter::open when wal.log exists.
Replay ==
    /\ pc = "Replay"
    /\ \/ /\ wal.exists /\ (~wal.hdr \/ TornInside(wal))
          /\ Goto("Corrupt")
          /\ UNCHANGED <<memtable, attached, gvars>>
       \/ /\ wal.exists /\ wal.hdr
          /\ memtable' = replay_wal(wal)
          /\ attached' = TRUE
          /\ Recovered
          /\ Goto("Idle")
       \/ /\ ~wal.exists
          /\ Goto("OpenCreate")
          /\ UNCHANGED <<memtable, attached, gvars>>
    /\ UNCHANGED <<req, l0, l1, next_sst_id, input_ids, dvars, wal, walPrev, walDirty, bounds>>

OpenSyncDir ==
    /\ pc = "OpenSyncDir"
    /\ \/ /\ SyncDir
          /\ attached' = TRUE
          /\ Recovered
          /\ Goto("Idle")
          /\ UNCHANGED bounds
       \/ Fails("WalSyncDir") /\ UNCHANGED <<dur, walDirty, attached>>
    /\ UNCHANGED <<req, mvars, disk, tmps, wal, walPrev>>

-----------------------------------------------------------------------------
Init ==
    /\ pc = "Down"
    /\ req = NoReq
    /\ memtable = NoTable /\ l0 = <<>> /\ l1 = <<>>
    /\ next_sst_id = 0 /\ input_ids = <<>>
    /\ disk = [f \in Files |-> NoTable] /\ dur = disk /\ tmps = {}
    /\ wal = NoWal /\ walPrev = NoWal /\ walDirty = FALSE /\ attached = FALSE
    /\ acked = [k \in Keys |-> Missing] /\ limbo = [k \in Keys |-> {}]
    /\ ops = 0 /\ crashes = 0 /\ fails = 0

FlushStep == \/ SstWrite \/ SstRename \/ SstSyncDir \/ SstOpen
             \/ WalRemove \/ WalCreate \/ WalHeader \/ WalSyncDir
CompactStep == \/ CmpWrite \/ CmpRename \/ CmpSyncDir \/ CmpOpen
               \/ Unlink \/ UnlinkedAll \/ CmpFinish
CallStep == WalSync \/ FlushSync \/ FlushStep \/ CompactStep
OpenStep == Replay \/ OpenSyncDir
Client == (\E k \in Keys, e \in Writes : WriteAppend(k, e)) \/ Flush \/ Close

Next == Client \/ CallStep \/ OpenStep \/ Discover \/ Crash \/ Kill

\* A call, once begun, runs to its end: nothing in it waits for another call.
Fairness == WF_vars(CallStep \/ OpenStep)
Spec == Init /\ [][Next]_vars /\ Fairness

-----------------------------------------------------------------------------
(* Properties                                                              *)

CallTypes == pc \in Steps /\ req \in Records \cup {NoReq} /\ (pc = "WalSync" => req \in Records)
MemoryTypes == /\ memtable \in Tables
               /\ l0 \in Seq(Ids) /\ l1 \in Seq(Ids) /\ input_ids \in Seq(Ids)
               /\ next_sst_id \in 0 .. MaxId + 1
DirectoryTypes == disk \in [Files -> Tables] /\ dur \in [Files -> Tables] /\ tmps \subseteq Files
WalTypes == wal \in Wals /\ walPrev \in Wals /\ walDirty \in BOOLEAN /\ attached \in BOOLEAN
GhostTypes == acked \in [Keys -> Answers] /\ limbo \in [Keys -> SUBSET Answers]
BoundTypes == ops \in Nat /\ crashes \in Nat /\ fails \in Nat

\* Every variable of the engine and of its directory has a value of its type
\* at every I/O step; answers are never tombstones.
TypeOK == CallTypes /\ MemoryTypes /\ DirectoryTypes /\ WalTypes /\ GhostTypes /\ BoundTypes

\* Whatever flush, rotation and compaction are in the middle of, get answers
\* with the last write that took effect (Engine::get over memtable, L0, L1).
ReadsLatest == pc \in UpSteps => \A k \in Keys : get(k) = acked[k]

\* After a crash anywhere, the files hold, for every key, the last write that
\* took effect or one that was still in flight or had failed: put's promise
\* that a record is durable once the WAL is synced.
Durability == pc \notin UpSteps =>
                  \A k \in Keys : Answer(DiskCell(k)) \in {acked[k]} \cup limbo[k]

\* The order get relies on: L0 newest first, all of it newer than L1, at most
\* one L1 table, and the next id above every registered one.
LevelOrder ==
    /\ \A i, j \in DOMAIN l0 : i < j => l0[i] > l0[j]
    /\ \A i \in DOMAIN l0, j \in DOMAIN l1 : l0[i] > l1[j]
    /\ Len(l1) <= 1
    /\ \A i \in DOMAIN l0 : l0[i] < next_sst_id
    /\ \A i \in DOMAIN l1 : l1[i] < next_sst_id

\* Compaction never unlinks a table that get still reads: every registered
\* reader's file is in the directory.
RegisteredOnDisk == pc \in UpSteps => \A f \in Registered : disk[f] # NoTable

\* Between power failures a table is registered only once its directory entry
\* is durable, so that the WAL that also holds its data may be removed.
RegisteredDurable ==
    pc \in UpSteps => \A f \in Registered : disk[f] # NoTable /\ dur[f] = disk[f]

\* Interrupted or failed compactions are caught up on: L0 exceeds the trigger
\* only by the flushes that a crash or an error cut off from their compaction.
L0Bounded == Len(l0) <= Trigger + crashes + fails

\* What Engine::open can count on.  A log with its header is refused only
\* after two faults: one that tears a record (a power failure in an append, or
\* an append that fails), and an end of the process (crashes counts them all,
\* also after close) behind the append that followed.  The first open after a
\* single power failure, death or error, wherever it struck, takes the log:
\* the torn tail is the end (WalReader::next_record).  A log without its header
\* is always refused (WalReader::open), but it never held a record.
RefusalTakesTwoFaults ==
    pc = "Corrupt" => IF wal.hdr THEN crashes + fails >= 2 ELSE wal.recs = <<>>

\* Every call, and every open, comes to its end.
EveryCallReturns == (pc \in BusySteps \cup OpenSteps) ~> (pc \in {"Idle", "Down", "Corrupt"})

\* The engine implements the durable map: what get answers (or, while the
\* engine is down, what an open would find) is the abstract store.
up == pc \in UpSteps
Abstract == INSTANCE DurableMap WITH
    store <- [k \in Keys |-> IF up THEN get(k) ELSE Answer(DiskCell(k))],
    limbo <- [k \in Keys |-> IF up THEN limbo[k] ELSE {}]
ImplementsDurableMap == Abstract!Spec
=============================================================================

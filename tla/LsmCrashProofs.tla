--------------------------- MODULE LsmCrashProofs --------------------------
(***************************************************************************)
(* What survives a power failure.  Under the fault model below the files   *)
(* always hold, for every key, the last write that took effect or one      *)
(* still in limbo (Durability), a registered table is durable              *)
(* (RegisteredDurable), and the engine implements DurableMap; under the    *)
(* second one level 0 stays within its bound (L0Bounded).  What it takes   *)
(* for Engine::open to refuse a log (RefusalTakesTwoFaults) is shown for   *)
(* all faults.                                                             *)
(***************************************************************************)
EXTENDS LsmProofs

\* I/O errors that leave neither a table the engine does not know of nor a
\* wal.log half replaced.
CleanErrors == {"Append", "WalSync", "FlushSync", "Close", "SstWrite", "SstRename",
                "WalRemove", "CmpWrite", "CmpRename", "CmpFinish"}

\* The fault model: power may fail at every step but those in which an
\* all-tombstone compaction removes its inputs (the run LsmDropCrash shows
\* what is lost there), an unsynced record survives whole or not at all (the
\* run LsmTornAppend shows what a torn one costs), the process does not die
\* without the machine, and the I/O errors are clean ones.
CrashModel ==
    /\ CrashAt \cap {"DropUnlink", "DropFinish"} = {}
    /\ KillAt = {}
    /\ TornWrites = FALSE
    /\ FailAt \subseteq CleanErrors

-----------------------------------------------------------------------------
(* The log                                                                 *)

\* With a the answers of the writes that took effect and l those in limbo:
\* what a crash may leave of a key.
Acceptable(a, l, k) == {a[k]} \cup l[k]

\* A log file: records, all of them whole, of which synced ones are on disk.
WholeLog(w) == /\ \A i \in DOMAIN w.recs : w.recs[i] \in Records
               /\ w.synced <= Len(w.recs)

\* A record that some crash leaves as its key's last one is the last write
\* that took effect or in limbo.
LogTrue(w, a, l) ==
    \A i \in DOMAIN w.recs :
        (\A j \in DOMAIN w.recs : i < j /\ j <= w.synced => w.recs[j].key # w.recs[i].key)
            => Answer(w.recs[i].entry) \in Acceptable(a, l, w.recs[i].key)

\* Every entry of the memtable m has a synced record.
LogCovers(w, m) ==
    \A k \in Keys : m[k] # Missing
        => \E i \in DOMAIN w.recs : i <= w.synced /\ w.recs[i].key = k

RotateSteps == {"WalCreate", "WalHeader", "WalSyncDir"}

LogInv ==
    /\ WholeLog(wal) /\ WholeLog(walPrev)
    /\ pc \in UpSteps \ RotateSteps =>
          /\ attached /\ ~walDirty /\ wal.exists /\ wal.hdr
          /\ LogTrue(wal, acked, limbo) /\ LogCovers(wal, memtable)
    /\ pc = "WalSync" =>
          /\ wal.recs # <<>> /\ wal.recs[Len(wal.recs)] = req
          /\ Answer(req.entry) \in limbo[req.key]
    /\ pc \in RotateSteps => walDirty /\ LogTrue(walPrev, acked, limbo) /\ wal.recs = <<>>
    /\ pc \in {"WalHeader", "WalSyncDir", "OpenHeader", "OpenSyncDir"} => wal.exists
    /\ pc \in {"WalSyncDir", "OpenSyncDir"} => wal.hdr
    /\ pc \notin UpSteps => wal.synced = Len(wal.recs)
    /\ pc \in {"Down", "Replay", "OpenCreate"} => ~walDirty
    /\ pc = "OpenCreate" => ~wal.exists
    /\ pc \in {"OpenHeader", "OpenSyncDir"} => ~walPrev.exists

-----------------------------------------------------------------------------
(* The directory                                                           *)

\* The tables on disk that the levels do not list (yet, or any more).
InFlight ==
    {f \in Files : \/ pc \in {"SstSyncDir", "SstOpen"} /\ f = NewL0
                   \/ pc \in {"CmpSyncDir", "CmpOpen"} /\ f = NewL1
                   \/ /\ pc \in {"CmpUnlink", "DropUnlink"}
                      /\ \E i \in DOMAIN input_ids : f[2] = input_ids[i]}

\* A table that discovery ignores because of a registered one of level 1.
Dead(f) == f \notin Registered /\ \E i \in DOMAIN l1 : f[2] <= l1[i]

\* Every table on disk is registered or in flight.
FilesKnown == pc \notin {"Down", "Corrupt"} =>
    \A f \in Files : disk[f] # NoTable => f \in Registered \cup InFlight

\* A registered table is durable, and so is a new one before it is registered.
TablesDurable ==
    /\ pc \in {"Down", "SstOpen", "CmpOpen"} => dur = disk
    /\ pc \notin {"Down", "Corrupt"} => \A f \in Registered : dur[f] = disk[f]

\* What else a crash can bring back, discovery ignores; not so while an
\* all-tombstone compaction removes its inputs.
OrphansDead == pc \notin {"Down", "Corrupt", "DropUnlink", "DropFinish"} =>
    \A f \in Files \ Registered : dur[f] # NoTable =>
        \/ Dead(f)
        \/ pc = "SstOpen" /\ f = NewL0
        \/ pc = "CmpOpen" /\ f = NewL1

\* The inputs of a compaction with an output are below it.
InputsBelow == pc = "CmpUnlink" =>
    l1 # <<>> /\ \A i \in DOMAIN input_ids : input_ids[i] < l1[1]

DirInv == FilesKnown /\ TablesDurable /\ OrphansDead /\ InputsBelow

CInv == RInv /\ LogInv /\ DirInv /\ Durability

-----------------------------------------------------------------------------
(* Facts about the log                                                     *)

\* Under the fault model only clean errors happen.
LEMMA OnlyCleanErrors == ASSUME CrashModel, NEW s, CanFail(s) PROVE s \in CleanErrors
BY DEF CrashModel, CanFail

\* A step of a running engine that touches neither log nor memtable.
LEMMA LogKept ==
    ASSUME LogInv, UNCHANGED <<wal, walPrev, attached, acked, limbo, memtable>>, ~walDirty',
           pc \in UpSteps \ RotateSteps, pc' \in UpSteps \ (RotateSteps \cup {"WalSync"})
    PROVE  LogInv'
<1>1. LogTrue(wal', acked', limbo') /\ LogCovers(wal', memtable') /\ WholeLog(wal)' /\ WholeLog(walPrev)'
  BY DEF LogInv, LogTrue, LogCovers, WholeLog, Acceptable, RotateSteps
<1>2. attached' /\ wal'.exists /\ wal'.hdr
  BY DEF LogInv
<1> QED  BY <1>1, <1>2 DEF LogInv, FlushSteps, CompactSteps, OpenSteps, BusySteps, UpSteps, RotateSteps

\* Syncing the log narrows what a crash can leave of it.
LEMMA SyncedLog ==
    ASSUME LogInv, WalTypes, UNCHANGED <<acked, limbo, memtable>>,
           pc \in UpSteps \ RotateSteps, wal' = SyncedWal
    PROVE  /\ LogTrue(wal', acked', limbo') /\ LogCovers(wal', memtable') /\ WholeLog(wal)'
           /\ wal'.exists /\ wal'.hdr
<1>1. /\ wal'.recs = wal.recs /\ wal'.synced = Len(wal.recs) /\ Len(wal.recs) \in Nat
      /\ wal'.exists = wal.exists /\ wal'.hdr = wal.hdr /\ wal.synced \in Nat
      /\ DOMAIN wal.recs = 1 .. Len(wal.recs)
  BY DEF WalTypes, Wals, SyncedWal, LogInv
<1>2. WholeLog(wal) /\ LogTrue(wal, acked, limbo) /\ LogCovers(wal, memtable) /\ wal.exists /\ wal.hdr
  BY DEF LogInv
<1>3. WholeLog(wal)'
  BY <1>1, <1>2 DEF WholeLog
<1>4. LogTrue(wal', acked', limbo')
  BY <1>1, <1>2 DEF LogTrue, WholeLog, Acceptable
<1>5. LogCovers(wal', memtable')
  BY <1>1, <1>2 DEF LogCovers, WholeLog
<1> QED  BY <1>1, <1>2, <1>3, <1>4, <1>5

\* What a crash leaves of a log file, without torn writes.
LEMMA CutLog ==
    ASSUME CrashModel, NEW w \in Wals, WholeLog(w), NEW x \in Survivors(w)
    PROVE  \E n \in w.synced .. Len(w.recs) :
              /\ x.exists = w.exists /\ x.hdr = w.hdr /\ x.synced = n
              /\ Len(x.recs) = n /\ DOMAIN x.recs = 1 .. n
              /\ \A i \in 1 .. n : i \in DOMAIN w.recs /\ x.recs[i] = w.recs[i]
<1>1. PICK n \in w.synced .. Len(w.recs) :
              x = [w EXCEPT !.recs = SubSeq(w.recs, 1, n), !.synced = n]
  BY DEF Survivors, CrashModel
<1>2. w.recs \in Seq(Records \cup {Torn}) /\ w.synced \in Nat /\ Len(w.recs) \in Nat
  BY DEF Wals
<1>3. x.exists = w.exists /\ x.hdr = w.hdr /\ x.synced = n /\ x.recs = SubSeq(w.recs, 1, n)
  BY <1>1 DEF Wals
<1>4. /\ Len(SubSeq(w.recs, 1, n)) = n
      /\ \A i \in 1 .. n : SubSeq(w.recs, 1, n)[i] = w.recs[i]
      /\ DOMAIN SubSeq(w.recs, 1, n) = 1 .. n
  BY <1>2
<1> QED  BY <1>2, <1>3, <1>4

\* Replay of a log without torn records.
LEMMA ReplayWhole ==
    ASSUME NEW w \in Wals, WholeLog(w), NEW k \in Keys
    PROVE  \/ ReplayedCell(w, k) = Missing
              /\ (w.exists /\ w.hdr => \A i \in DOMAIN w.recs : w.recs[i].key # k)
           \/ /\ w.exists /\ w.hdr /\ ReplayedCell(w, k) # Missing
              /\ \E i \in DOMAIN w.recs :
                    /\ w.recs[i].key = k /\ ReplayedCell(w, k) = w.recs[i].entry
                    /\ \A j \in DOMAIN w.recs : i < j => w.recs[j].key # k
<1>0. /\ w.exists \in BOOLEAN /\ w.hdr \in BOOLEAN /\ Len(w.recs) \in Nat
      /\ DOMAIN w.recs = 1 .. Len(w.recs)
  BY DEF Wals
<1>1. CASE ~w.exists \/ ~w.hdr
  <2>1. ReadableLen(w) = 0
    BY <1>1, Zenon DEF ReadableLen
  <2>2. 1 .. ReadableLen(w) = {}
    BY <2>1
  <2> QED  BY <1>1, <2>2 DEF ReplayedCell
<1>2. CASE w.exists /\ w.hdr
  <2>1. {i \in DOMAIN w.recs : w.recs[i] = Torn} = {}
    BY ConstantsAssumption DEF WholeLog
  <2>2. ReadableLen(w) = Len(w.recs)
    BY <1>2, <2>1, Zenon DEF ReadableLen
  <2> DEFINE hits == {i \in 1 .. Len(w.recs) : w.recs[i].key = k}
  <2>3. ReplayedCell(w, k) = IF hits = {} THEN Missing ELSE w.recs[Max(hits)].entry
    BY <2>2 DEF ReplayedCell
  <2>4. CASE hits = {}
    BY <1>0, <2>3, <2>4
  <2>5. CASE hits # {}
    <3>1. hits \in SUBSET (0 .. Len(w.recs))
      BY <1>0
    <3>2. Max(hits) \in hits /\ \A y \in hits : y <= Max(hits)
      BY <1>0, <2>5, <3>1, MaxOfNats
    <3>3. w.recs[Max(hits)] \in Records /\ Max(hits) \in DOMAIN w.recs /\ w.recs[Max(hits)].key = k
      BY <1>0, <3>2 DEF WholeLog
    <3>4. w.recs[Max(hits)].entry # Missing
      BY <3>3, ConstantsAssumption DEF Records, Entries
    <3>5. \A j \in DOMAIN w.recs : Max(hits) < j => w.recs[j].key # k
      BY <1>0, <3>1, <3>2
    <3> QED  BY <1>2, <2>3, <2>5, <3>3, <3>4, <3>5
  <2> QED  BY <2>4, <2>5
<1> QED  BY <1>0, <1>1, <1>2

\* Every step keeps the log's part of the invariant.
LEMMA NextLogInv == ASSUME CrashModel, CInv, [Next]_vars PROVE LogInv'
<1>1. /\ RInv /\ LogInv /\ CallTypes /\ MemoryTypes /\ WalTypes /\ GhostTypes
      /\ NoMemory
  BY DEF CInv, RInv, FInv, IInv, TypeOK
<1>2. \A s : CanFail(s) => s \in CleanErrors
  BY OnlyCleanErrors
<1>0. WalTypes' /\ WholeLog(NoWal)
  <2>1. WalTypes'
    BY <1>1, NextRInv DEF RInv, FInv, IInv, TypeOK
  <2> QED  BY <2>1 DEF WholeLog, NoWal
<1> USE DEF Goto, Fails, IgnoredError, Proceeds, Returns, Opening,
            mvars, dvars, wvars, gvars, bounds
<1>3. CASE \E k \in Keys, e \in Writes : WriteAppend(k, e)
  <2>0. PICK k \in Keys, e \in Writes : WriteAppend(k, e)
    BY <1>3
  <2>1. /\ pc \in UpSteps \ RotateSteps /\ UNCHANGED <<walPrev, walDirty, attached, acked, memtable>>
        /\ limbo' = [limbo EXCEPT ![k] = limbo[k] \cup {Answer(e)}]
    BY <2>0 DEF WriteAppend, Admits, InLimbo, FlushSteps, CompactSteps, OpenSteps, BusySteps, UpSteps, RotateSteps
  <2>2. \A x \in Keys : Acceptable(acked, limbo, x) \subseteq Acceptable(acked', limbo', x)
    BY <1>1, <2>1 DEF Acceptable, GhostTypes
  <2>3. /\ attached /\ ~walDirty /\ wal.exists /\ wal.hdr /\ LogTrue(wal, acked, limbo) /\ LogCovers(wal, memtable)
        /\ WholeLog(wal) /\ WholeLog(walPrev)
    BY <1>1, <2>1 DEF LogInv
  <2>4. CASE wal' = wal /\ pc' = "Idle"
    <3>1. \A i \in DOMAIN wal.recs : wal.recs[i].key \in Keys
      BY <2>3 DEF WholeLog, Records
    <3>2. LogTrue(wal', acked', limbo')
      BY <2>2, <2>3, <2>4, <3>1 DEF LogTrue
    <3>3. LogCovers(wal', memtable') /\ WholeLog(wal)' /\ WholeLog(walPrev)'
      BY <2>1, <2>3, <2>4 DEF LogCovers, WholeLog
    <3> QED  BY <2>1, <2>3, <2>4, <3>2, <3>3 DEF LogInv, FlushSteps, CompactSteps, OpenSteps, BusySteps, UpSteps, RotateSteps
  <2>5. CASE /\ wal' = Appended([key |-> k, entry |-> e]) /\ pc' = "WalSync"
             /\ req' = [key |-> k, entry |-> e]
    <3> DEFINE r == [key |-> k, entry |-> e]
    <3>1. r \in Records /\ r.key = k /\ r.entry = e
      BY ConstantsAssumption DEF Records
    <3>2. /\ wal'.recs = Append(wal.recs, r) /\ wal'.synced = wal.synced
          /\ wal'.exists = wal.exists /\ wal'.hdr = wal.hdr
          /\ wal.recs \in Seq(Records \cup {Torn}) /\ wal.synced \in Nat
      BY <1>1, <2>3, <2>5 DEF Appended, WalTypes, Wals
    <3>3. /\ Len(wal.recs) \in Nat /\ DOMAIN wal.recs = 1 .. Len(wal.recs)
          /\ Len(wal'.recs) = Len(wal.recs) + 1 /\ DOMAIN wal'.recs = 1 .. Len(wal.recs) + 1
          /\ wal'.recs[Len(wal.recs) + 1] = r
          /\ \A i \in DOMAIN wal.recs : wal'.recs[i] = wal.recs[i]
      BY <3>1, <3>2
    <3>4. WholeLog(wal)'
      BY <2>3, <3>1, <3>2, <3>3 DEF WholeLog
    <3>5. Answer(e) \in Acceptable(acked', limbo', k) /\ Answer(e) \in limbo'[k]
      BY <1>1, <2>1 DEF Acceptable, GhostTypes
    <3>6. LogTrue(wal', acked', limbo')
      <4> SUFFICES ASSUME NEW i \in DOMAIN wal'.recs,
                          \A j \in DOMAIN wal'.recs : i < j /\ j <= wal'.synced
                              => wal'.recs[j].key # wal'.recs[i].key
                   PROVE  Answer(wal'.recs[i].entry) \in Acceptable(acked', limbo', wal'.recs[i].key)
        BY DEF LogTrue
      <4>1. CASE i = Len(wal.recs) + 1
        BY <3>1, <3>3, <3>5, <4>1
      <4>2. CASE i \in DOMAIN wal.recs
        <5>1. wal'.recs[i] = wal.recs[i] /\ wal.recs[i].key \in Keys
          BY <2>3, <3>3, <4>2 DEF WholeLog, Records
        <5>2. \A j \in DOMAIN wal.recs : i < j /\ j <= wal.synced => wal.recs[j].key # wal.recs[i].key
          BY <3>2, <3>3, <4>2
        <5>3. Answer(wal.recs[i].entry) \in Acceptable(acked, limbo, wal.recs[i].key)
          BY <2>3, <4>2, <5>2 DEF LogTrue
        <5> QED  BY <2>2, <5>1, <5>3
      <4> QED  BY <3>3, <4>1, <4>2
    <3>7. LogCovers(wal', memtable') /\ WholeLog(walPrev)'
      BY <2>1, <2>3, <3>2, <3>3 DEF LogCovers, WholeLog
    <3>8. /\ wal'.recs # <<>> /\ wal'.recs[Len(wal'.recs)] = req'
          /\ Answer(req'.entry) \in limbo'[req'.key]
      BY <2>5, <3>1, <3>3, <3>5
    <3> QED  BY <2>1, <2>3, <2>5, <3>2, <3>4, <3>6, <3>7, <3>8
                DEF LogInv, FlushSteps, CompactSteps, OpenSteps, BusySteps, UpSteps, RotateSteps
  <2> QED  BY <2>0, <2>4, <2>5 DEF WriteAppend, CrashModel
<1>4. CASE WalSync
  <2>0. /\ pc = "WalSync" /\ pc \in UpSteps \ RotateSteps /\ pc' \in UpSteps \ (RotateSteps \cup {"WalSync"})
        /\ UNCHANGED <<walPrev, attached>> /\ ~walDirty'
    BY <1>1, <1>4 DEF WalSync, maybe_compact, LogInv, FlushSteps, CompactSteps, OpenSteps, BusySteps, UpSteps, RotateSteps
  <2>1. CASE UNCHANGED <<wal, memtable, acked, limbo>>
    BY <1>1, <2>0, <2>1, LogKept
  <2>2. CASE /\ wal' = SyncedWal
             /\ memtable' = [memtable EXCEPT ![req.key] = req.entry]
             /\ acked' = [acked EXCEPT ![req.key] = Answer(req.entry)]
             /\ limbo' = [limbo EXCEPT ![req.key] = {}]
    <3>1. /\ attached /\ ~walDirty /\ wal.exists /\ wal.hdr /\ LogTrue(wal, acked, limbo) /\ LogCovers(wal, memtable)
          /\ WholeLog(wal) /\ WholeLog(walPrev)
          /\ wal.recs # <<>> /\ wal.recs[Len(wal.recs)] = req
      BY <1>1, <2>0 DEF LogInv
    <3>2. /\ wal'.recs = wal.recs /\ wal'.synced = Len(wal.recs) /\ Len(wal.recs) \in Nat
          /\ wal'.exists = wal.exists /\ wal'.hdr = wal.hdr /\ wal.synced \in Nat
          /\ DOMAIN wal.recs = 1 .. Len(wal.recs) /\ Len(wal.recs) \in DOMAIN wal.recs
      <4>1. /\ wal' = [wal EXCEPT !.synced = Len(wal.recs)]
            /\ wal.recs \in Seq(Records \cup {Torn}) /\ wal.synced \in Nat
        BY <1>1, <2>2, <3>1 DEF WalTypes, Wals, SyncedWal
      <4>2. /\ wal'.recs = wal.recs /\ wal'.synced = Len(wal.recs)
            /\ wal'.exists = wal.exists /\ wal'.hdr = wal.hdr
        BY <1>1, <4>1 DEF WalTypes, Wals
      <4>3. Len(wal.recs) \in Nat /\ DOMAIN wal.recs = 1 .. Len(wal.recs)
        BY <4>1
      <4>4. Len(wal.recs) # 0
        BY <3>1, <4>1
      <4> QED  BY <4>1, <4>2, <4>3, <4>4
    <3>3. req \in Records /\ req.key \in Keys
      BY <1>1, <2>0 DEF CallTypes, Records
    <3>4. /\ Answer(req.entry) \in Acceptable(acked', limbo', req.key)
          /\ \A k \in Keys \ {req.key} : Acceptable(acked', limbo', k) = Acceptable(acked, limbo, k) /\ memtable'[k] = memtable[k]
      BY <1>1, <2>2, <3>3 DEF Acceptable, GhostTypes, MemoryTypes, Tables
    <3>5. LogTrue(wal', acked', limbo')
      <4> SUFFICES ASSUME NEW i \in DOMAIN wal.recs,
                          \A j \in DOMAIN wal.recs : i < j /\ j <= Len(wal.recs)
                              => wal.recs[j].key # wal.recs[i].key
                   PROVE  Answer(wal.recs[i].entry) \in Acceptable(acked', limbo', wal.recs[i].key)
        BY <3>2 DEF LogTrue
      <4>1. CASE i = Len(wal.recs)
        BY <3>1, <3>4, <4>1
      <4>2. CASE i # Len(wal.recs)
        <5>1. wal.recs[i].key # req.key
          BY <3>1, <3>2, <4>2
        <5>2. wal.recs[i].key \in Keys
          BY <3>1 DEF WholeLog, Records
        <5>3. \A j \in DOMAIN wal.recs : i < j /\ j <= wal.synced => wal.recs[j].key # wal.recs[i].key
          BY <3>2
        <5> QED  BY <3>1, <3>4, <5>1, <5>2, <5>3 DEF LogTrue
      <4> QED  BY <4>1, <4>2
    <3>6. LogCovers(wal', memtable')
      <4> SUFFICES ASSUME NEW k \in Keys, memtable'[k] # Missing
                   PROVE  \E i \in DOMAIN wal.recs : i <= Len(wal.recs) /\ wal.recs[i].key = k
        BY <3>2 DEF LogCovers
      <4>1. CASE k = req.key
        BY <3>1, <3>2, <4>1
      <4>2. CASE k # req.key
        BY <3>1, <3>2, <3>4, <4>2 DEF LogCovers
      <4> QED  BY <4>1, <4>2
    <3>7. WholeLog(wal)' /\ WholeLog(walPrev)'
      BY <2>0, <3>1, <3>2 DEF WholeLog
    <3> QED  BY <2>0, <3>1, <3>2, <3>5, <3>6, <3>7 DEF LogInv, FlushSteps, CompactSteps, OpenSteps, BusySteps, UpSteps, RotateSteps
  <2> QED  BY <1>4, <2>1, <2>2 DEF WalSync
<1>5. CASE FlushSync
  <2>0. /\ pc \in UpSteps \ RotateSteps /\ pc' \in UpSteps \ (RotateSteps \cup {"WalSync"})
        /\ UNCHANGED <<walPrev, attached, acked, limbo, memtable>> /\ ~walDirty'
    BY <1>1, <1>5 DEF FlushSync, maybe_compact, LogInv, FlushSteps, CompactSteps, OpenSteps, BusySteps, UpSteps, RotateSteps
  <2>1. CASE wal' = wal
    BY <1>1, <2>0, <2>1, LogKept
  <2>2. CASE wal' = SyncedWal
    <3>1. /\ LogTrue(wal', acked', limbo') /\ LogCovers(wal', memtable') /\ WholeLog(wal)' /\ wal'.exists /\ wal'.hdr
      BY <1>1, <2>0, <2>2, SyncedLog
    <3>2. attached' /\ WholeLog(walPrev)'
      BY <1>1, <2>0 DEF LogInv, WholeLog
    <3> QED  BY <2>0, <3>1, <3>2 DEF LogInv, FlushSteps, CompactSteps, OpenSteps, BusySteps, UpSteps, RotateSteps
  <2> QED  BY <1>5, <2>1, <2>2 DEF FlushSync
<1>6. CASE Close
  <2>0. /\ pc \in UpSteps \ RotateSteps /\ pc' \in UpSteps \ (RotateSteps \cup {"WalSync"})
        /\ UNCHANGED <<walPrev, attached, acked, limbo, memtable>> /\ ~walDirty'
    BY <1>1, <1>6 DEF Close, maybe_compact, LogInv, FlushSteps, CompactSteps, OpenSteps, BusySteps, UpSteps, RotateSteps
  <2>1. CASE wal' = wal
    BY <1>1, <2>0, <2>1, LogKept
  <2>2. CASE wal' = SyncedWal
    <3>1. /\ LogTrue(wal', acked', limbo') /\ LogCovers(wal', memtable') /\ WholeLog(wal)' /\ wal'.exists /\ wal'.hdr
      BY <1>1, <2>0, <2>2, SyncedLog
    <3>2. attached' /\ WholeLog(walPrev)'
      BY <1>1, <2>0 DEF LogInv, WholeLog
    <3> QED  BY <2>0, <3>1, <3>2 DEF LogInv, FlushSteps, CompactSteps, OpenSteps, BusySteps, UpSteps, RotateSteps
  <2> QED  BY <1>6, <2>1, <2>2 DEF Close
<1>7. CASE Flush
  <2>1. UNCHANGED <<wal, walPrev, attached, acked, limbo, memtable>> /\ ~walDirty'
    BY <1>1, <1>2, <1>7 DEF Flush, Admits, LogInv, FlushSteps, CompactSteps, OpenSteps, BusySteps, UpSteps, RotateSteps, CleanErrors
  <2>2. pc \in UpSteps \ RotateSteps /\ pc' \in UpSteps \ (RotateSteps \cup {"WalSync"})
    BY <1>7 DEF Flush, Admits, FlushSteps, CompactSteps, OpenSteps, BusySteps, UpSteps, RotateSteps
  <2> QED  BY <1>1, <2>1, <2>2, LogKept
<1>8. CASE SstWrite
  <2>1. UNCHANGED <<wal, walPrev, attached, acked, limbo, memtable>> /\ ~walDirty'
    BY <1>1, <1>2, <1>8 DEF SstWrite, LogInv, FlushSteps, CompactSteps, OpenSteps, BusySteps, UpSteps, RotateSteps, CleanErrors
  <2>2. pc \in UpSteps \ RotateSteps /\ pc' \in UpSteps \ (RotateSteps \cup {"WalSync"})
    BY <1>8 DEF SstWrite, FlushSteps, CompactSteps, OpenSteps, BusySteps, UpSteps, RotateSteps
  <2> QED  BY <1>1, <2>1, <2>2, LogKept
<1>9. CASE SstRename
  <2>1. UNCHANGED <<wal, walPrev, attached, acked, limbo, memtable>> /\ ~walDirty'
    BY <1>1, <1>2, <1>9 DEF SstRename, LogInv, FlushSteps, CompactSteps, OpenSteps, BusySteps, UpSteps, RotateSteps, CleanErrors
  <2>2. pc \in UpSteps \ RotateSteps /\ pc' \in UpSteps \ (RotateSteps \cup {"WalSync"})
    BY <1>9 DEF SstRename, FlushSteps, CompactSteps, OpenSteps, BusySteps, UpSteps, RotateSteps
  <2> QED  BY <1>1, <2>1, <2>2, LogKept
<1>11. CASE SstOpen
  <2>1. UNCHANGED <<wal, walPrev, attached, acked, limbo, memtable>> /\ ~walDirty'
    BY <1>1, <1>2, <1>11 DEF SstOpen, LogInv, FlushSteps, CompactSteps, OpenSteps, BusySteps, UpSteps, RotateSteps, CleanErrors
  <2>2. pc \in UpSteps \ RotateSteps /\ pc' \in UpSteps \ (RotateSteps \cup {"WalSync"})
    BY <1>11 DEF SstOpen, FlushSteps, CompactSteps, OpenSteps, BusySteps, UpSteps, RotateSteps
  <2> QED  BY <1>1, <2>1, <2>2, LogKept
<1>12. CASE CmpWrite
  <2>1. UNCHANGED <<wal, walPrev, attached, acked, limbo, memtable>> /\ ~walDirty'
    BY <1>1, <1>2, <1>12 DEF CmpWrite, LogInv, FlushSteps, CompactSteps, OpenSteps, BusySteps, UpSteps, RotateSteps, CleanErrors
  <2>2. pc \in UpSteps \ RotateSteps /\ pc' \in UpSteps \ (RotateSteps \cup {"WalSync"})
    BY <1>12 DEF CmpWrite, FlushSteps, CompactSteps, OpenSteps, BusySteps, UpSteps, RotateSteps
  <2> QED  BY <1>1, <2>1, <2>2, LogKept
<1>13. CASE CmpRename
  <2>1. UNCHANGED <<wal, walPrev, attached, acked, limbo, memtable>> /\ ~walDirty'
    BY <1>1, <1>2, <1>13 DEF CmpRename, LogInv, FlushSteps, CompactSteps, OpenSteps, BusySteps, UpSteps, RotateSteps, CleanErrors
  <2>2. pc \in UpSteps \ RotateSteps /\ pc' \in UpSteps \ (RotateSteps \cup {"WalSync"})
    BY <1>13 DEF CmpRename, FlushSteps, CompactSteps, OpenSteps, BusySteps, UpSteps, RotateSteps
  <2> QED  BY <1>1, <2>1, <2>2, LogKept
<1>15. CASE CmpOpen
  <2>1. UNCHANGED <<wal, walPrev, attached, acked, limbo, memtable>> /\ ~walDirty'
    BY <1>1, <1>2, <1>15 DEF CmpOpen, LogInv, FlushSteps, CompactSteps, OpenSteps, BusySteps, UpSteps, RotateSteps, CleanErrors
  <2>2. pc \in UpSteps \ RotateSteps /\ pc' \in UpSteps \ (RotateSteps \cup {"WalSync"})
    BY <1>15 DEF CmpOpen, FlushSteps, CompactSteps, OpenSteps, BusySteps, UpSteps, RotateSteps
  <2> QED  BY <1>1, <2>1, <2>2, LogKept
<1>16. CASE Unlink
  <2>1. UNCHANGED <<wal, walPrev, attached, acked, limbo, memtable>> /\ ~walDirty'
    BY <1>1, <1>2, <1>16 DEF Unlink, LogInv, FlushSteps, CompactSteps, OpenSteps, BusySteps, UpSteps, RotateSteps, CleanErrors
  <2>2. pc \in UpSteps \ RotateSteps /\ pc' \in UpSteps \ (RotateSteps \cup {"WalSync"})
    BY <1>16 DEF Unlink, FlushSteps, CompactSteps, OpenSteps, BusySteps, UpSteps, RotateSteps
  <2> QED  BY <1>1, <2>1, <2>2, LogKept
<1>17. CASE UnlinkedAll
  <2>1. UNCHANGED <<wal, walPrev, attached, acked, limbo, memtable>> /\ ~walDirty'
    BY <1>1, <1>2, <1>17 DEF UnlinkedAll, LogInv, FlushSteps, CompactSteps, OpenSteps, BusySteps, UpSteps, RotateSteps, CleanErrors
  <2>2. pc \in UpSteps \ RotateSteps /\ pc' \in UpSteps \ (RotateSteps \cup {"WalSync"})
    BY <1>17 DEF UnlinkedAll, FlushSteps, CompactSteps, OpenSteps, BusySteps, UpSteps, RotateSteps
  <2> QED  BY <1>1, <2>1, <2>2, LogKept
<1>10. CASE SstSyncDir
  <2>1. UNCHANGED <<wal, walPrev, attached, acked, limbo, memtable>> /\ ~walDirty'
    BY <1>1, <1>2, <1>10 DEF SstSyncDir, SyncDir, LogInv, FlushSteps, CompactSteps, OpenSteps, BusySteps, UpSteps, RotateSteps, CleanErrors
  <2>2. pc \in UpSteps \ RotateSteps /\ pc' \in UpSteps \ (RotateSteps \cup {"WalSync"})
    BY <1>10 DEF SstSyncDir, FlushSteps, CompactSteps, OpenSteps, BusySteps, UpSteps, RotateSteps
  <2> QED  BY <1>1, <2>1, <2>2, LogKept
<1>14. CASE CmpSyncDir
  <2>1. UNCHANGED <<wal, walPrev, attached, acked, limbo, memtable>> /\ ~walDirty'
    BY <1>1, <1>2, <1>14 DEF CmpSyncDir, SyncDir, LogInv, FlushSteps, CompactSteps, OpenSteps, BusySteps, UpSteps, RotateSteps, CleanErrors
  <2>2. pc \in UpSteps \ RotateSteps /\ pc' \in UpSteps \ (RotateSteps \cup {"WalSync"})
    BY <1>14 DEF CmpSyncDir, FlushSteps, CompactSteps, OpenSteps, BusySteps, UpSteps, RotateSteps
  <2> QED  BY <1>1, <2>1, <2>2, LogKept
<1>18. CASE CmpFinish
  <2>1. UNCHANGED <<wal, walPrev, attached, acked, limbo, memtable>> /\ ~walDirty'
    BY <1>1, <1>2, <1>18 DEF CmpFinish, SyncDir, LogInv, FlushSteps, CompactSteps, OpenSteps, BusySteps, UpSteps, RotateSteps, CleanErrors
  <2>2. pc \in UpSteps \ RotateSteps /\ pc' \in UpSteps \ (RotateSteps \cup {"WalSync"})
    BY <1>18 DEF CmpFinish, FlushSteps, CompactSteps, OpenSteps, BusySteps, UpSteps, RotateSteps
  <2> QED  BY <1>1, <2>1, <2>2, LogKept
<1>19. CASE WalRemove
  <2>0. pc \in UpSteps \ RotateSteps /\ UNCHANGED <<acked, limbo, memtable>>
    BY <1>19 DEF WalRemove, FlushSteps, CompactSteps, OpenSteps, BusySteps, UpSteps, RotateSteps
  <2>1. CASE UNCHANGED <<wal, walPrev, walDirty, attached>> /\ pc' = "Idle"
    <3>1. ~walDirty' /\ pc' \in UpSteps \ (RotateSteps \cup {"WalSync"})
      BY <1>1, <2>0, <2>1 DEF LogInv, UpSteps, RotateSteps
    <3> QED  BY <1>1, <2>0, <2>1, <3>1, LogKept
  <2>2. CASE walPrev' = wal /\ walDirty' = TRUE /\ wal' = NoWal /\ pc' = "WalCreate"
    <3>1. WholeLog(wal) /\ LogTrue(wal, acked, limbo)
      BY <1>1, <2>0 DEF LogInv
    <3>2. WholeLog(walPrev)' /\ LogTrue(walPrev', acked', limbo')
      BY <2>0, <2>2, <3>1 DEF WholeLog
    <3>3. WholeLog(wal)' /\ wal'.recs = <<>>
      BY <1>0, <2>2 DEF NoWal, WholeLog
    <3> QED  BY <2>2, <3>2, <3>3 DEF LogInv, FlushSteps, CompactSteps, OpenSteps, BusySteps, UpSteps, RotateSteps
  <2> QED  BY <1>19, <2>1, <2>2 DEF WalRemove, OpenSteps
<1>20. CASE WalCreate
  <2>1. /\ wal' = [NoWal EXCEPT !.exists = TRUE] /\ walDirty' = TRUE
        /\ walPrev' = IF walDirty THEN walPrev ELSE wal
        /\ UNCHANGED <<acked, limbo>>
        /\ \/ pc = "WalCreate" /\ pc' = "WalHeader"
           \/ pc = "OpenCreate" /\ pc' = "OpenHeader"
    BY <1>2, <1>20 DEF WalCreate, CleanErrors, OpenSteps
  <2>2. /\ wal'.recs = <<>> /\ wal'.exists /\ wal'.synced = 0 /\ Len(wal'.recs) = 0
        /\ WholeLog(wal)'
    BY <2>1 DEF NoWal, WholeLog
  <2>3. WholeLog(walPrev)'
    BY <1>1, <2>1 DEF LogInv, WholeLog
  <2>4. pc = "WalCreate" => LogTrue(walPrev', acked', limbo')
    BY <1>1, <2>1 DEF LogInv, RotateSteps
  <2>5. pc = "OpenCreate" => ~walPrev'.exists
    BY <1>1, <2>1 DEF LogInv
  <2> QED  BY <2>1, <2>2, <2>3, <2>4, <2>5 DEF LogInv, FlushSteps, CompactSteps, OpenSteps, BusySteps, UpSteps, RotateSteps
<1>21. CASE WalHeader
  <2>1. /\ wal' = [wal EXCEPT !.hdr = TRUE] /\ UNCHANGED <<walPrev, walDirty, acked, limbo>>
        /\ \/ pc = "WalHeader" /\ pc' = "WalSyncDir"
           \/ pc = "OpenHeader" /\ pc' = "OpenSyncDir"
    BY <1>2, <1>21 DEF WalHeader, CleanErrors, OpenSteps
  <2>2. /\ wal'.recs = wal.recs /\ wal'.exists = wal.exists /\ wal'.hdr
        /\ wal'.synced = wal.synced
    BY <1>1, <2>1 DEF WalTypes, Wals
  <2>3. WholeLog(wal)' /\ WholeLog(walPrev)'
    BY <1>1, <2>1, <2>2 DEF LogInv, WholeLog
  <2>4. CASE pc = "WalHeader"
    BY <1>1, <2>1, <2>2, <2>3, <2>4 DEF LogInv, FlushSteps, CompactSteps, OpenSteps, BusySteps, UpSteps, RotateSteps
  <2>5. CASE pc = "OpenHeader"
    BY <1>1, <2>1, <2>2, <2>3, <2>5 DEF LogInv, FlushSteps, CompactSteps, OpenSteps, BusySteps, UpSteps, RotateSteps
  <2> QED  BY <2>1, <2>4, <2>5
<1>22. CASE WalSyncDir
  <2>1. /\ pc = "WalSyncDir" /\ walDirty' = FALSE /\ attached' = TRUE /\ memtable' = NoTable
        /\ pc' \in {"Idle", "CmpWrite"} /\ UNCHANGED <<wal, walPrev, acked, limbo>>
    BY <1>2, <1>22 DEF WalSyncDir, SyncDir, CleanErrors, maybe_compact
  <2>2. wal.exists /\ wal.hdr /\ wal.recs = <<>> /\ WholeLog(wal) /\ WholeLog(walPrev)
    BY <1>1, <2>1 DEF LogInv, RotateSteps
  <2>3. LogTrue(wal', acked', limbo') /\ LogCovers(wal', memtable')
    BY <2>1, <2>2 DEF LogTrue, LogCovers, NoTable
  <2>4. WholeLog(wal)' /\ WholeLog(walPrev)'
    BY <2>1, <2>2 DEF WholeLog
  <2> QED  BY <2>1, <2>2, <2>3, <2>4 DEF LogInv, FlushSteps, CompactSteps, OpenSteps, BusySteps, UpSteps, RotateSteps
<1>23. CASE Crash
  <2>1. /\ pc' = "Down" /\ walDirty' = FALSE /\ walPrev' = NoWal
        /\ wal' \in {NoWal} \cup Survivors(wal) \cup Survivors(walPrev)
    BY <1>23 DEF Crash, Dies
  <2>2. WholeLog(wal) /\ WholeLog(walPrev) /\ wal \in Wals /\ walPrev \in Wals
    BY <1>1 DEF LogInv, WalTypes
  <2>3. WholeLog(wal)' /\ wal'.synced = Len(wal'.recs)
    <3>1. CASE wal' = NoWal
      BY <1>0, <3>1 DEF NoWal, WholeLog
    <3>2. ASSUME NEW w \in Wals, WholeLog(w), wal' \in Survivors(w)
          PROVE  WholeLog(wal)' /\ wal'.synced = Len(wal'.recs)
      BY <3>2, CutLog DEF WholeLog
    <3> QED  BY <2>1, <2>2, <3>1, <3>2
  <2>4. WholeLog(walPrev)'
    BY <1>0, <2>1 DEF WholeLog
  <2> QED  BY <2>1, <2>3, <2>4 DEF LogInv, FlushSteps, CompactSteps, OpenSteps, BusySteps, UpSteps, RotateSteps
<1>24. CASE Kill
  BY <1>24 DEF Kill, Dies, CrashModel
<1>25. CASE Discover
  <2>1. pc = "Down" /\ pc' = "Replay" /\ UNCHANGED <<wal, walPrev, walDirty>>
    BY <1>25 DEF Discover
  <2>2. WholeLog(wal)' /\ WholeLog(walPrev)'
    BY <1>1, <2>1 DEF LogInv, WholeLog
  <2> QED  BY <1>1, <2>1, <2>2 DEF LogInv, FlushSteps, CompactSteps, OpenSteps, BusySteps, UpSteps, RotateSteps
<1>26. CASE Replay
  <2>0. pc = "Replay" /\ UNCHANGED <<wal, walPrev, walDirty>>
    BY <1>26 DEF Replay
  <2>1. /\ WholeLog(wal) /\ WholeLog(walPrev) /\ wal.synced = Len(wal.recs) /\ ~walDirty
        /\ wal \in Wals /\ Len(wal.recs) \in Nat /\ DOMAIN wal.recs = 1 .. Len(wal.recs)
    BY <1>1, <2>0 DEF LogInv, WalTypes, Wals, FlushSteps, CompactSteps, OpenSteps, BusySteps, UpSteps
  <2>2. WholeLog(wal)' /\ WholeLog(walPrev)'
    BY <2>0, <2>1 DEF WholeLog
  <2>3. CASE pc' = "Corrupt"
    BY <2>0, <2>1, <2>2, <2>3 DEF LogInv, FlushSteps, CompactSteps, OpenSteps, BusySteps, UpSteps, RotateSteps
  <2>4. CASE pc' = "OpenCreate" /\ ~wal.exists
    BY <2>0, <2>1, <2>2, <2>4 DEF LogInv, FlushSteps, CompactSteps, OpenSteps, BusySteps, UpSteps, RotateSteps
  <2>5. CASE /\ pc' = "Idle" /\ wal.exists /\ wal.hdr /\ memtable' = replay_wal(wal)
             /\ attached' = TRUE /\ Recovered
    <3>1. LogTrue(wal', acked', limbo')
      <4> SUFFICES ASSUME NEW i \in DOMAIN wal.recs,
                          \A j \in DOMAIN wal.recs : i < j /\ j <= wal.synced
                              => wal.recs[j].key # wal.recs[i].key
                   PROVE  Answer(wal.recs[i].entry) \in Acceptable(acked', limbo', wal.recs[i].key)
        BY <2>0 DEF LogTrue
      <4> DEFINE k == wal.recs[i].key
      <4>0. k \in Keys
        BY <2>1 DEF WholeLog, Records
      <4>1. PICK n \in DOMAIN wal.recs :
               /\ wal.recs[n].key = k /\ ReplayedCell(wal, k) = wal.recs[n].entry
               /\ \A j \in DOMAIN wal.recs : n < j => wal.recs[j].key # k
               /\ ReplayedCell(wal, k) # Missing
        BY <2>1, <2>5, <4>0, ReplayWhole
      <4>2. n = i
        BY <2>1, <4>1
      <4>3. acked'[k] = Answer(DiskCell(k))
        BY <2>5, <4>0 DEF Recovered
      <4> QED  BY <4>1, <4>2, <4>3 DEF DiskCell, Acceptable
    <3>2. LogCovers(wal', memtable')
      <4> SUFFICES ASSUME NEW k \in Keys, memtable'[k] # Missing
                   PROVE  \E i \in DOMAIN wal.recs : i <= wal.synced /\ wal.recs[i].key = k
        BY <2>0 DEF LogCovers
      <4>1. ReplayedCell(wal, k) # Missing
        BY <2>5 DEF replay_wal
      <4> QED  BY <2>1, <4>1, ReplayWhole
    <3> QED  BY <2>0, <2>1, <2>2, <2>5, <3>1, <3>2 DEF LogInv, FlushSteps, CompactSteps, OpenSteps, BusySteps, UpSteps, RotateSteps
  <2> QED  BY <1>26, <2>3, <2>4, <2>5 DEF Replay
<1>27. CASE OpenSyncDir
  <2>1. /\ pc = "OpenSyncDir" /\ walDirty' = FALSE /\ attached' = TRUE /\ memtable' = memtable
        /\ pc' = "Idle" /\ UNCHANGED <<wal, walPrev>>
    BY <1>2, <1>27 DEF OpenSyncDir, SyncDir, CleanErrors
  <2>2. wal.exists /\ wal.hdr /\ wal.recs = <<>> /\ WholeLog(wal) /\ WholeLog(walPrev)
    BY <1>1, <2>1 DEF LogInv, RInv, OpenedFiles
  <2>3. LogTrue(wal', acked', limbo')
    BY <2>1, <2>2 DEF LogTrue
  <2>4. memtable = NoTable
    BY <1>1, <2>1 DEF NoMemory, OpenSteps
  <2>5. LogCovers(wal', memtable')
    BY <2>1, <2>4 DEF LogCovers, NoTable
  <2>6. WholeLog(wal)' /\ WholeLog(walPrev)'
    BY <2>1, <2>2 DEF WholeLog
  <2> QED  BY <2>1, <2>2, <2>3, <2>5, <2>6 DEF LogInv, FlushSteps, CompactSteps, OpenSteps, BusySteps, UpSteps, RotateSteps
<1>28. CASE UNCHANGED vars
  <2>1. UNCHANGED <<pc, req, wal, walPrev, walDirty, attached, acked, limbo, memtable>>
    BY <1>28 DEF vars
  <2>2. WholeLog(wal)' /\ WholeLog(walPrev)'
    BY <1>1, <2>1 DEF LogInv, WholeLog
  <2> QED  BY <1>1, <2>1, <2>2 DEF LogInv
<1> QED
  BY <1>3, <1>4, <1>5, <1>6, <1>7, <1>8, <1>9, <1>10, <1>11, <1>12, <1>13, <1>14, <1>15,
     <1>16, <1>17, <1>18, <1>19, <1>20, <1>21, <1>22, <1>23, <1>24, <1>25, <1>26, <1>27, <1>28
     DEF Next, Client, CallStep, OpenStep, FlushStep, CompactStep

-----------------------------------------------------------------------------
(* The directory                                                           *)

\* The steps at which disk, its durable copy and the levels are out of step.
DirSteps == {"Down", "SstSyncDir", "SstOpen", "CmpSyncDir", "CmpOpen",
             "CmpUnlink", "DropUnlink", "DropFinish"}

\* A step that touches neither the directory nor the levels.
LEMMA DirKept ==
    ASSUME DirInv, UNCHANGED <<l0, l1, disk, dur>>, pc \notin DirSteps, pc' \notin DirSteps,
           pc = "Corrupt" => pc' = "Corrupt"
    PROVE  DirInv'
<1>1. Registered' = Registered /\ InFlight = {} /\ InFlight' = {}
  BY DEF Registered, InFlight, DirSteps
<1>2. \A f \in Files : Dead(f)' = Dead(f)
  BY <1>1 DEF Dead
<1> QED  BY <1>1, <1>2 DEF DirInv, FilesKnown, TablesDurable, OrphansDead, InputsBelow, DirSteps

\* The names of the inputs of a compaction.
LEMMA InputsListed ==
    ASSUME MemoryTypes, LevelOrder
    PROVE  /\ \A f \in Registered : \E i \in DOMAIN Inputs : f[2] = Inputs[i]
           /\ \A i \in DOMAIN Inputs : Inputs[i] < next_sst_id
<1>1. /\ l0 \in Seq(Ids) /\ l1 \in Seq(Ids) /\ Len(l0) \in Nat /\ Len(l1) \in Nat
      /\ DOMAIN l0 = 1 .. Len(l0) /\ DOMAIN l1 = 1 .. Len(l1)
  BY DEF MemoryTypes
<1>2. DOMAIN Inputs = 1 .. Len(l1) + Len(l0)
  BY <1>1 DEF Inputs
<1>3. \A i \in DOMAIN l1 : i \in DOMAIN Inputs /\ Inputs[i] = l1[i]
  BY <1>1, <1>2 DEF Inputs
<1>4. \A i \in DOMAIN l0 : Len(l1) + i \in DOMAIN Inputs /\ Inputs[Len(l1) + i] = l0[i]
  BY <1>1, <1>2 DEF Inputs
<1>5. \A i \in DOMAIN Inputs : i \in DOMAIN l1 \/ i - Len(l1) \in DOMAIN l0
  BY <1>1, <1>2
<1>6. \A i \in DOMAIN Inputs : i - Len(l1) \in DOMAIN l0 => Inputs[i] = l0[i - Len(l1)]
  BY <1>1, <1>2 DEF Inputs
<1>7. \A i \in DOMAIN Inputs : Inputs[i] < next_sst_id
  BY <1>3, <1>5, <1>6 DEF LevelOrder
<1>8. \A f \in Registered : \E i \in DOMAIN Inputs : f[2] = Inputs[i]
  BY <1>3, <1>4 DEF Registered
<1> QED  BY <1>7, <1>8

\* Every step keeps the directory's part of the invariant.
LEMMA NextDirInv == ASSUME CrashModel, CInv, [Next]_vars PROVE DirInv'
<1>1. /\ RInv /\ DirInv /\ MemoryTypes /\ DirectoryTypes /\ IdRoom /\ LevelOrder
      /\ FilesKnown /\ TablesDurable /\ OrphansDead /\ InputsBelow /\ InputsRetired
  BY DEF CInv, RInv, FInv, IInv, TypeOK, DirInv
<1>2. \A s : CanFail(s) => s \in CleanErrors
  BY OnlyCleanErrors
<1>0. /\ Registered \in SUBSET Files /\ NewL0 \notin Registered /\ NewL1 \notin Registered
      /\ \A f \in Registered : f[2] < next_sst_id
      /\ next_sst_id \in Nat /\ \A f \in Files : f[2] \in Nat
      /\ \A i \in DOMAIN l1 : l1[i] < next_sst_id /\ l1[i] \in Nat
  <2>1. Registered \in SUBSET Files /\ NewL0 \notin Registered /\ NewL1 \notin Registered
        /\ \A f \in Registered : f[2] < next_sst_id
    BY <1>1, RegisteredFiles, NewNames
  <2>2. next_sst_id \in Nat /\ \A f \in Files : f[2] \in Nat
    BY <1>1, ConstantsAssumption DEF MemoryTypes, Files, Ids
  <2>3. \A i \in DOMAIN l1 : l1[i] \in Ids
    BY <1>1 DEF MemoryTypes
  <2>4. \A i \in DOMAIN l1 : l1[i] < next_sst_id /\ l1[i] \in Nat
    BY <1>1, <2>3 DEF LevelOrder, Ids
  <2> QED  BY <2>1, <2>2, <2>4
<1> USE DEF Goto, Fails, IgnoredError, Proceeds, Returns, Opening,
            mvars, dvars, wvars, gvars, bounds
<1>3. CASE \E k \in Keys, e \in Writes : WriteAppend(k, e)
  <2>1. /\ UNCHANGED <<l0, l1, disk, dur>> /\ pc \notin DirSteps \cup {"Corrupt"}
        /\ pc' \notin DirSteps
    BY <1>2, <1>3 DEF WriteAppend, Admits, DirSteps, CleanErrors, OpenSteps
  <2> QED  BY <1>1, <2>1, DirKept
<1>4. CASE WalSync
  <2>1. /\ UNCHANGED <<l0, l1, disk, dur>> /\ pc \notin DirSteps \cup {"Corrupt"}
        /\ pc' \notin DirSteps
    BY <1>2, <1>4 DEF WalSync, maybe_compact, DirSteps, CleanErrors, OpenSteps
  <2> QED  BY <1>1, <2>1, DirKept
<1>5. CASE FlushSync
  <2>1. /\ UNCHANGED <<l0, l1, disk, dur>> /\ pc \notin DirSteps \cup {"Corrupt"}
        /\ pc' \notin DirSteps
    BY <1>2, <1>5 DEF FlushSync, maybe_compact, DirSteps, CleanErrors, OpenSteps
  <2> QED  BY <1>1, <2>1, DirKept
<1>6. CASE Close
  <2>1. /\ UNCHANGED <<l0, l1, disk, dur>> /\ pc \notin DirSteps \cup {"Corrupt"}
        /\ pc' \notin DirSteps
    BY <1>2, <1>6 DEF Close, DirSteps, CleanErrors, OpenSteps
  <2> QED  BY <1>1, <2>1, DirKept
<1>7. CASE Flush
  <2>1. /\ UNCHANGED <<l0, l1, disk, dur>> /\ pc \notin DirSteps \cup {"Corrupt"}
        /\ pc' \notin DirSteps
    BY <1>2, <1>7 DEF Flush, Admits, DirSteps, CleanErrors, OpenSteps
  <2> QED  BY <1>1, <2>1, DirKept
<1>8. CASE SstWrite
  <2>1. /\ UNCHANGED <<l0, l1, disk, dur>> /\ pc \notin DirSteps \cup {"Corrupt"}
        /\ pc' \notin DirSteps
    BY <1>2, <1>8 DEF SstWrite, DirSteps, CleanErrors, OpenSteps
  <2> QED  BY <1>1, <2>1, DirKept
<1>19. CASE WalRemove
  <2>1. /\ UNCHANGED <<l0, l1, disk, dur>> /\ pc \notin DirSteps \cup {"Corrupt"}
        /\ pc' \notin DirSteps
    BY <1>2, <1>19 DEF WalRemove, DirSteps, CleanErrors, OpenSteps
  <2> QED  BY <1>1, <2>1, DirKept
<1>20. CASE WalCreate
  <2>1. /\ UNCHANGED <<l0, l1, disk, dur>> /\ pc \notin DirSteps \cup {"Corrupt"}
        /\ pc' \notin DirSteps
    BY <1>2, <1>20 DEF WalCreate, DirSteps, CleanErrors, OpenSteps
  <2> QED  BY <1>1, <2>1, DirKept
<1>21. CASE WalHeader
  <2>1. /\ UNCHANGED <<l0, l1, disk, dur>> /\ pc \notin DirSteps \cup {"Corrupt"}
        /\ pc' \notin DirSteps
    BY <1>2, <1>21 DEF WalHeader, DirSteps, CleanErrors, OpenSteps
  <2> QED  BY <1>1, <2>1, DirKept
<1>26. CASE Replay
  <2>1. /\ UNCHANGED <<l0, l1, disk, dur>> /\ pc \notin DirSteps \cup {"Corrupt"}
        /\ pc' \notin DirSteps
    BY <1>2, <1>26 DEF Replay, DirSteps, CleanErrors, OpenSteps
  <2> QED  BY <1>1, <2>1, DirKept
<1>9. CASE SstRename
  <2>0. /\ pc = "SstRename" /\ UNCHANGED <<l0, l1, dur, next_sst_id>> /\ NewL0 \in Files
        /\ Registered' = Registered /\ NewL0' = NewL0 /\ InFlight = {}
    BY <1>1, <1>9, NewFiles DEF SstRename, Registered, NewL0, InFlight
  <2>1. CASE UNCHANGED disk /\ pc' = "Idle"
    BY <1>1, <2>0, <2>1, DirKept DEF DirSteps
  <2>2. CASE pc' = "SstSyncDir" /\ \A f \in Files : f # NewL0 => disk'[f] = disk[f]
    <3>1. InFlight' = {NewL0}
      BY <2>0, <2>2 DEF InFlight
    <3>2. FilesKnown' /\ TablesDurable' /\ InputsBelow'
      BY <1>0, <1>1, <2>0, <2>2, <3>1 DEF FilesKnown, TablesDurable, InputsBelow
    <3>3. OrphansDead'
      BY <1>1, <2>0, <2>2 DEF OrphansDead, Dead
    <3> QED  BY <3>2, <3>3 DEF DirInv
  <2> QED  BY <1>1, <1>9, <2>0, <2>1, <2>2 DEF SstRename, DirectoryTypes, OpenSteps
<1>10. CASE SstSyncDir
  <2>1. /\ pc = "SstSyncDir" /\ pc' = "SstOpen" /\ dur' = disk
        /\ UNCHANGED <<l0, l1, disk, next_sst_id>> /\ Registered' = Registered /\ NewL0' = NewL0
    BY <1>2, <1>10 DEF SstSyncDir, SyncDir, CleanErrors, Registered, NewL0
  <2>2. \A f \in Files : disk[f] # NoTable => f \in Registered \/ f = NewL0
    BY <1>1, <2>1 DEF FilesKnown, InFlight
  <2>3. FilesKnown'
    BY <2>1, <2>2 DEF FilesKnown, InFlight
  <2>4. TablesDurable' /\ OrphansDead' /\ InputsBelow'
    BY <2>1, <2>2 DEF TablesDurable, OrphansDead, InputsBelow
  <2> QED  BY <2>3, <2>4 DEF DirInv
<1>11. CASE SstOpen
  <2>1. /\ pc = "SstOpen" /\ pc' = "WalRemove" /\ l0' = RegisterL0 /\ UNCHANGED <<l1, disk, dur>>
        /\ dur = disk
    BY <1>1, <1>2, <1>11 DEF SstOpen, CleanErrors, TablesDurable
  <2>2. Registered' = Registered \cup {NewL0}
    BY <1>1, <2>1, NewFiles, FlushRegisters
  <2>3. \A f \in Files : disk[f] # NoTable => f \in Registered'
    BY <1>1, <2>1, <2>2 DEF FilesKnown, InFlight
  <2> QED  BY <2>1, <2>3 DEF DirInv, FilesKnown, TablesDurable, OrphansDead, InputsBelow
<1>12. CASE CmpWrite
  <2>1. CASE pc' \notin DirSteps /\ UNCHANGED <<l0, l1>>
    BY <1>1, <1>12, <2>1, DirKept DEF CmpWrite, DirSteps
  <2>2. CASE pc' = "DropUnlink" /\ l0' = <<>> /\ l1' = <<>> /\ input_ids' = Inputs
    <3>1. Registered' = {} /\ UNCHANGED <<disk, dur>> /\ pc = "CmpWrite"
      BY <1>12, <2>2 DEF CmpWrite, Registered
    <3>2. \A f \in Files : disk[f] # NoTable => f \in Registered
      BY <1>1, <3>1 DEF FilesKnown, InFlight
    <3>3. \A f \in Registered : f \in InFlight'
      BY <1>0, <1>1, <2>2, InputsListed DEF InFlight
    <3> QED  BY <2>2, <3>1, <3>2, <3>3 DEF DirInv, FilesKnown, TablesDurable, OrphansDead, InputsBelow
  <2> QED  BY <1>12, <2>1, <2>2 DEF CmpWrite, DirSteps, OpenSteps
<1>13. CASE CmpRename
  <2>0. /\ pc = "CmpRename" /\ UNCHANGED <<l0, l1, dur, next_sst_id>> /\ NewL1 \in Files
        /\ Registered' = Registered /\ NewL1' = NewL1 /\ InFlight = {}
    BY <1>1, <1>13, NewFiles DEF CmpRename, Registered, NewL1, InFlight
  <2>1. CASE UNCHANGED disk /\ pc' = "Idle"
    BY <1>1, <2>0, <2>1, DirKept DEF DirSteps
  <2>2. CASE pc' = "CmpSyncDir" /\ \A f \in Files : f # NewL1 => disk'[f] = disk[f]
    <3>1. InFlight' = {NewL1}
      BY <2>0, <2>2 DEF InFlight
    <3>2. FilesKnown' /\ TablesDurable' /\ InputsBelow'
      BY <1>0, <1>1, <2>0, <2>2, <3>1 DEF FilesKnown, TablesDurable, InputsBelow
    <3>3. OrphansDead'
      BY <1>1, <2>0, <2>2 DEF OrphansDead, Dead
    <3> QED  BY <3>2, <3>3 DEF DirInv
  <2> QED  BY <1>1, <1>13, <2>0, <2>1, <2>2 DEF CmpRename, DirectoryTypes, OpenSteps
<1>14. CASE CmpSyncDir
  <2>1. /\ pc = "CmpSyncDir" /\ pc' = "CmpOpen" /\ dur' = disk
        /\ UNCHANGED <<l0, l1, disk, next_sst_id>> /\ Registered' = Registered /\ NewL1' = NewL1
    BY <1>2, <1>14 DEF CmpSyncDir, SyncDir, CleanErrors, Registered, NewL1
  <2>2. \A f \in Files : disk[f] # NoTable => f \in Registered \/ f = NewL1
    BY <1>1, <2>1 DEF FilesKnown, InFlight
  <2>3. FilesKnown'
    BY <2>1, <2>2 DEF FilesKnown, InFlight
  <2>4. TablesDurable' /\ OrphansDead' /\ InputsBelow'
    BY <2>1, <2>2 DEF TablesDurable, OrphansDead, InputsBelow
  <2> QED  BY <2>3, <2>4 DEF DirInv
<1>15. CASE CmpOpen
  <2>1. /\ pc = "CmpOpen" /\ pc' = "CmpUnlink" /\ l0' = <<>> /\ l1' = <<next_sst_id>>
        /\ input_ids' = Inputs /\ UNCHANGED <<disk, dur>> /\ dur = disk /\ NewL1 \in Files
    BY <1>1, <1>2, <1>15, NewFiles DEF CmpOpen, CleanErrors, TablesDurable
  <2>2. Registered' = {NewL1} /\ DOMAIN l1' = {1} /\ l1'[1] = next_sst_id /\ l1' # <<>>
    <3>1. DOMAIN l0' = {} /\ DOMAIN l1' = {1} /\ l1'[1] = next_sst_id /\ l1' # <<>>
      BY <2>1
    <3> QED  BY <3>1 DEF Registered, NewL1
  <2>3. \A f \in Files : disk[f] # NoTable => f \in Registered \/ f = NewL1
    BY <1>1, <2>1 DEF FilesKnown, InFlight
  <2>4. \A f \in Registered : f \in InFlight'
    BY <1>0, <1>1, <2>1, InputsListed DEF InFlight
  <2>5. FilesKnown' /\ TablesDurable'
    BY <2>1, <2>2, <2>3, <2>4 DEF FilesKnown, TablesDurable
  <2>6. OrphansDead'
    BY <1>0, <2>1, <2>2, <2>3 DEF OrphansDead, Dead
  <2>7. InputsBelow'
    BY <1>1, <2>1, <2>2, InputsListed DEF InputsBelow
  <2> QED  BY <2>5, <2>6, <2>7 DEF DirInv
<1>16. CASE Unlink
  <2>1. /\ pc \in {"CmpUnlink", "DropUnlink"} /\ pc' = pc /\ input_ids # <<>>
        /\ disk' = Unlinked(Head(input_ids)) /\ input_ids' = Tail(input_ids)
        /\ UNCHANGED <<l0, l1, dur>> /\ Registered' = Registered
    BY <1>2, <1>16 DEF Unlink, CleanErrors, InputsLeft, Registered
  <2>2. /\ input_ids \in Seq(Ids) /\ Head(input_ids) = input_ids[1] /\ 1 \in DOMAIN input_ids
        /\ \A i \in DOMAIN input_ids : i # 1 =>
              i - 1 \in DOMAIN Tail(input_ids) /\ Tail(input_ids)[i - 1] = input_ids[i]
        /\ \A i \in DOMAIN Tail(input_ids) :
              i + 1 \in DOMAIN input_ids /\ Tail(input_ids)[i] = input_ids[i + 1]
    BY <1>1, <2>1 DEF MemoryTypes
  <2>3. FilesKnown'
    <3> SUFFICES ASSUME NEW f \in Files, disk'[f] # NoTable PROVE f \in Registered \cup InFlight'
      BY <2>1 DEF FilesKnown
    <3>1. disk[f] # NoTable /\ f[2] # Head(input_ids)
      BY <2>1 DEF Unlinked
    <3>2. f \in Registered \/ \E i \in DOMAIN input_ids : f[2] = input_ids[i]
      BY <1>1, <2>1, <3>1 DEF FilesKnown, InFlight
    <3>3. ASSUME NEW i \in DOMAIN input_ids, f[2] = input_ids[i] PROVE f \in InFlight'
      <4>1. i # 1
        BY <2>2, <3>1, <3>3
      <4>2. i - 1 \in DOMAIN input_ids' /\ input_ids'[i - 1] = f[2]
        BY <2>1, <2>2, <3>3, <4>1
      <4> QED  BY <2>1, <4>2 DEF InFlight
    <3> QED  BY <3>2, <3>3
  <2>4. TablesDurable'
    <3>1. \A f \in Registered : f[2] # Head(input_ids)
      BY <1>1, <2>1, <2>2 DEF InputsRetired
    <3>2. \A f \in Registered : disk'[f] = disk[f]
      BY <1>0, <2>1, <3>1 DEF Unlinked
    <3> QED  BY <1>1, <2>1, <3>2 DEF TablesDurable
  <2>5. OrphansDead'
    BY <1>1, <2>1 DEF OrphansDead, Dead
  <2>6. InputsBelow'
    BY <1>1, <2>1, <2>2 DEF InputsBelow
  <2> QED  BY <2>3, <2>4, <2>5, <2>6 DEF DirInv
<1>17. CASE UnlinkedAll
  <2>1. /\ pc \in {"CmpUnlink", "DropUnlink"} /\ input_ids = <<>>
        /\ \/ pc = "CmpUnlink" /\ pc' = "CmpFinish"
           \/ pc = "DropUnlink" /\ pc' = "DropFinish"
        /\ UNCHANGED <<l0, l1, disk, dur>> /\ Registered' = Registered
    BY <1>17 DEF UnlinkedAll, Registered
  <2>2. InFlight = {}
    BY <2>1 DEF InFlight
  <2>3. FilesKnown' /\ TablesDurable' /\ OrphansDead' /\ InputsBelow'
    BY <1>1, <2>1, <2>2 DEF FilesKnown, TablesDurable, OrphansDead, InputsBelow, Dead
  <2> QED  BY <2>3 DEF DirInv
<1>18. CASE CmpFinish
  <2>0. pc' = "Idle" /\ UNCHANGED <<l0, l1, disk>> /\ Registered' = Registered
    BY <1>18 DEF CmpFinish, Registered
  <2>1. \A f \in Files : disk[f] # NoTable => f \in Registered
    BY <1>1, <1>18 DEF CmpFinish, FilesKnown, InFlight
  <2>2. CASE dur' = disk
    BY <2>0, <2>1, <2>2 DEF DirInv, FilesKnown, TablesDurable, OrphansDead, InputsBelow
  <2>3. CASE pc = "CmpFinish" /\ UNCHANGED dur
    BY <1>1, <2>0, <2>3, DirKept DEF DirSteps
  <2> QED  BY <1>2, <1>18, <2>2, <2>3 DEF CmpFinish, SyncDir, CleanErrors
<1>22. CASE WalSyncDir
  <2>1. /\ pc = "WalSyncDir" /\ pc' \in {"Idle", "CmpWrite"} /\ dur' = disk
        /\ UNCHANGED <<l0, l1, disk>> /\ Registered' = Registered
    BY <1>2, <1>22 DEF WalSyncDir, SyncDir, CleanErrors, maybe_compact, Registered
  <2>2. \A f \in Files : disk[f] # NoTable => f \in Registered
    BY <1>1, <2>1 DEF FilesKnown, InFlight
  <2> QED  BY <2>1, <2>2 DEF DirInv, FilesKnown, TablesDurable, OrphansDead, InputsBelow
<1>23. CASE Crash
  BY <1>23 DEF Crash, Dies, DirInv, FilesKnown, TablesDurable, OrphansDead, InputsBelow
<1>24. CASE Kill
  BY <1>24 DEF Kill, Dies, CrashModel
<1>25. CASE Discover
  <2>1. /\ pc = "Down" /\ pc' = "Replay" /\ disk' = Keeping({}) /\ UNCHANGED dur /\ dur = disk
        /\ l1' \in NewestFirst(SurvivingL1)
    BY <1>1, <1>2, <1>25 DEF Discover, CleanErrors, TablesDurable
  <2>2. Registered' = LiveFiles /\ \A f \in LiveFiles : disk'[f] = disk[f]
    BY <1>25, <2>1, DiscoverRegisters, LiveKept DEF Discover
  <2>3. FilesKnown' /\ TablesDurable'
    BY <2>1, <2>2 DEF FilesKnown, TablesDurable, Keeping
  <2>4. ASSUME NEW f \in Files \ LiveFiles, disk[f] # NoTable
        PROVE  \E i \in DOMAIN l1' : f[2] <= l1'[i]
    <3>1. /\ IdsAt(1) \in SUBSET (0 .. MaxId) /\ MaxId \in Nat /\ SurvivingL1 \in SUBSET Ids
          /\ SurvivingL1 \subseteq IdsAt(1)
      BY LiveTables, ConstantsAssumption DEF IdsAt, Ids
    <3>2. \A x \in SurvivingL1 : \E i \in DOMAIN l1' : l1'[i] = x
      BY <2>1, <3>1, NewestFirstAll
    <3>3. PICK v \in {0, 1}, n \in Ids : f = <<v, n>>
      BY DEF Files
    <3>4. n \in IdsAt(v) /\ n \in Nat
      BY <2>4, <3>3 DEF IdsAt, Ids
    <3>5. \E x \in SurvivingL1 : n <= x
      <4>1. CASE v = 1
        <5>1. IdsAt(1) # {} /\ SurvivingL1 = {Max(IdsAt(1))}
          BY <3>4, <4>1 DEF SurvivingL1
        <5> QED  BY <3>1, <3>4, <4>1, <5>1, MaxOfNats
      <4>2. CASE v = 0
        <5>1. n \notin LiveL0
          BY <2>4, <3>3, <4>2 DEF LiveFiles
        <5>2. PICK x \in SurvivingL1 : ~(n > x)
          BY <3>4, <4>2, <5>1 DEF LiveL0
        <5>3. x \in Nat
          BY <3>1 DEF Ids
        <5> QED  BY <3>4, <5>2, <5>3
      <4> QED  BY <4>1, <4>2
    <3> QED  BY <3>2, <3>3, <3>5
  <2>5. OrphansDead' /\ InputsBelow'
    BY <2>1, <2>2, <2>4 DEF OrphansDead, InputsBelow, Dead
  <2> QED  BY <2>3, <2>5 DEF DirInv
<1>27. CASE OpenSyncDir
  <2>1. /\ pc = "OpenSyncDir" /\ pc' = "Idle" /\ dur' = disk
        /\ UNCHANGED <<l0, l1, disk>> /\ Registered' = Registered
    BY <1>2, <1>27 DEF OpenSyncDir, SyncDir, CleanErrors, Registered
  <2>2. \A f \in Files : disk[f] # NoTable => f \in Registered
    BY <1>1, <2>1 DEF FilesKnown, InFlight
  <2> QED  BY <2>1, <2>2 DEF DirInv, FilesKnown, TablesDurable, OrphansDead, InputsBelow
<1>28. CASE UNCHANGED vars
  <2>1. UNCHANGED <<pc, l0, l1, disk, dur, next_sst_id, input_ids>>
    BY <1>28 DEF vars
  <2>2. Registered' = Registered /\ InFlight' = InFlight /\ NewL0' = NewL0 /\ NewL1' = NewL1
    BY <2>1 DEF Registered, InFlight, NewL0, NewL1
  <2> QED  BY <1>1, <2>1, <2>2 DEF DirInv, FilesKnown, TablesDurable, OrphansDead, InputsBelow, Dead
<1> QED
  BY <1>3, <1>4, <1>5, <1>6, <1>7, <1>8, <1>9, <1>10, <1>11, <1>12, <1>13, <1>14, <1>15,
     <1>16, <1>17, <1>18, <1>19, <1>20, <1>21, <1>22, <1>23, <1>24, <1>25, <1>26, <1>27, <1>28
     DEF Next, Client, CallStep, OpenStep, FlushStep, CompactStep

-----------------------------------------------------------------------------
(* What a crash leaves of the tables                                       *)

\* The tables that discover_sstables keeps of the directory d: LiveFiles as
\* a function of the directory.
IdsIn(d, level) == {i \in Ids : d[<<level, i>>] # NoTable}
TopL1(d) == IF IdsIn(d, 1) = {} THEN {} ELSE {Max(IdsIn(d, 1))}
LiveIn(d) == ({0} \X {i \in IdsIn(d, 0) : \A j \in TopL1(d) : i > j}) \cup ({1} \X TopL1(d))

\* What discovery keeps, by what it leaves out: S has one level 1 table at
\* most, below its level 0 tables, and every other table in d is not above it.
Keeps(d, S) ==
    /\ \A f \in S : d[f] # NoTable
    /\ \A f, g \in S : g[1] = 1 /\ f # g => f[1] = 0 /\ g[2] < f[2]
    /\ \A f \in Files \ S : d[f] # NoTable => \E g \in S : g[1] = 1 /\ f[2] <= g[2]

LEMMA KeepsLive ==
    ASSUME NEW d, NEW S \in SUBSET Files, Keeps(d, S)
    PROVE  LiveIn(d) = S
<1>0. /\ IdsIn(d, 1) \in SUBSET (0 .. MaxId) /\ MaxId \in Nat
      /\ \A f \in Files : f = <<f[1], f[2]>> /\ f[1] \in {0, 1} /\ f[2] \in Ids /\ f[2] \in Nat
      /\ \A v \in {0, 1}, i \in Ids : <<v, i>> \in Files /\ i \in Nat
  BY ConstantsAssumption DEF IdsIn, Ids, Files
<1>1. \A g \in S : g[1] = 1 => TopL1(d) = {g[2]}
  <2> SUFFICES ASSUME NEW g \in S, g[1] = 1 PROVE TopL1(d) = {g[2]}
    OBVIOUS
  <2>1. g[2] \in IdsIn(d, 1) /\ g = <<1, g[2]>> /\ g[2] \in Nat
    BY <1>0 DEF Keeps, IdsIn
  <2>2. ASSUME NEW i \in IdsIn(d, 1) PROVE i <= g[2]
    <3>1. <<1, i>> \in Files /\ d[<<1, i>>] # NoTable
      BY <1>0 DEF IdsIn
    <3>2. CASE <<1, i>> \in S
      BY <2>1, <3>2 DEF Keeps
    <3>3. CASE <<1, i>> \notin S
      <4>1. PICK h \in S : h[1] = 1 /\ i <= h[2]
        BY <3>1, <3>3 DEF Keeps
      <4>2. h = g
        BY <4>1 DEF Keeps
      <4> QED  BY <4>1, <4>2
    <3> QED  BY <3>2, <3>3
  <2>3. Max(IdsIn(d, 1)) \in IdsIn(d, 1) /\ g[2] <= Max(IdsIn(d, 1))
    BY <1>0, <2>1, MaxOfNats
  <2>4. Max(IdsIn(d, 1)) \in Nat /\ Max(IdsIn(d, 1)) <= g[2]
    BY <1>0, <2>2, <2>3 DEF IdsIn
  <2>5. Max(IdsIn(d, 1)) = g[2]
    BY <2>1, <2>3, <2>4
  <2> QED  BY <2>1, <2>5 DEF TopL1
<1>2. (\A g \in S : g[1] # 1) => TopL1(d) = {}
  BY <1>0 DEF Keeps, IdsIn, TopL1
<1>3. ASSUME NEW f \in S PROVE f \in LiveIn(d)
  <2>1. f = <<f[1], f[2]>> /\ f[1] \in {0, 1} /\ f[2] \in IdsIn(d, f[1]) /\ f[2] \in Nat
    BY <1>0 DEF Keeps, IdsIn
  <2>2. CASE f[1] = 1
    BY <1>1, <2>1, <2>2 DEF LiveIn
  <2>3. CASE f[1] = 0
    <3>1. \A j \in TopL1(d) : j \in Nat /\ j < f[2]
      BY <1>0, <1>1, <1>2, <2>3 DEF Keeps
    <3>2. \A j \in TopL1(d) : f[2] > j
      BY <2>1, <3>1
    <3> QED  BY <2>1, <2>3, <3>2 DEF LiveIn
  <2> QED  BY <2>1, <2>2, <2>3
<1>4. ASSUME NEW f \in LiveIn(d) PROVE f \in S
  <2>1. CASE f \in {1} \X TopL1(d)
    <3>1. PICK g \in S : g[1] = 1
      BY <1>2, <2>1
    <3>2. f = <<1, g[2]>>
      BY <1>1, <2>1, <3>1
    <3> QED  BY <1>0, <3>1, <3>2
  <2>2. CASE f \in {0} \X {i \in IdsIn(d, 0) : \A j \in TopL1(d) : i > j}
    <3>1. /\ f \in Files /\ d[f] # NoTable /\ f[2] \in Nat
          /\ \A j \in TopL1(d) : f[2] > j
      BY <1>0, <2>2 DEF IdsIn
    <3>2. ASSUME NEW g \in S, g[1] = 1, f[2] <= g[2] PROVE FALSE
      <4>1. f[2] > g[2] /\ g[2] \in Nat
        BY <1>0, <1>1, <3>1, <3>2
      <4> QED  BY <3>1, <3>2, <4>1
    <3> QED  BY <3>1, <3>2 DEF Keeps
  <2> QED  BY <2>1, <2>2 DEF LiveIn
<1> QED  BY <1>3, <1>4

\* Whatever a crash makes of a running engine's directory, discovery finds
\* tables with the same answers, but for the keys the memtable holds; and for
\* those too once the flushed table is registered.
LEMMA CrashTables ==
    ASSUME RInv, DirInv, pc \notin {"Down", "Corrupt", "DropUnlink", "DropFinish"},
           NEW d, \A f \in Files : d[f] \in {disk[f], dur[f]}, NEW k \in Keys,
           memtable[k] = Missing \/ pc \in RotateSteps
    PROVE  Answer(CellIn(d, LiveIn(d), k)) = Answer(NewestCell(Registered, k))
<1>1. /\ MemoryTypes /\ DirectoryTypes /\ IdRoom /\ LevelOrder /\ ReadersOnDisk
      /\ FilesKnown /\ TablesDurable /\ OrphansDead /\ InputsBelow
  BY DEF RInv, FInv, IInv, TypeOK, DirInv
<1>2. /\ Registered \in SUBSET Files /\ OneIdEach(Registered)
      /\ \A f \in Registered : f[2] < next_sst_id /\ f[2] \in Nat
      /\ next_sst_id \in Nat
  <2>1. Registered \in SUBSET Files /\ OneIdEach(Registered)
    BY <1>1, RegisteredIds
  <2>2. \A f \in Registered : f[2] < next_sst_id
    BY <1>1, NewNames
  <2> QED  BY <1>1, <2>1, <2>2, ConstantsAssumption DEF MemoryTypes, Files, Ids
<1>3. \A f \in Registered : d[f] = disk[f] /\ d[f] # NoTable
  BY <1>1, <1>2 DEF TablesDurable, ReadersOnDisk
<1>4. \A f, g \in Registered : g[1] = 1 /\ f # g => f[1] = 0 /\ g[2] < f[2]
  <2>0. /\ l0 \in Seq(Ids) /\ l1 \in Seq(Ids) /\ Len(l1) \in Nat
        /\ DOMAIN l1 = 1 .. Len(l1) /\ \A x \in Ids : x \in Nat
    BY <1>1 DEF MemoryTypes, Ids
  <2>1. \A i, j \in DOMAIN l1 : i = j
    BY <1>1, <2>0 DEF LevelOrder
  <2>2. \A i \in DOMAIN l0, j \in DOMAIN l1 : l1[j] < l0[i]
    <3>1. \A i \in DOMAIN l0 : l0[i] \in Ids
      BY <2>0
    <3>2. \A j \in DOMAIN l1 : l1[j] \in Ids
      BY <2>0
    <3> QED  BY <1>1, <2>0, <3>1, <3>2 DEF LevelOrder
  <2>3. ASSUME NEW f \in Registered, NEW g \in Registered, g[1] = 1, f # g
        PROVE  f[1] = 0 /\ g[2] < f[2]
    <3>1. PICK j \in DOMAIN l1 : g = <<1, l1[j]>>
      BY <2>3 DEF Registered
    <3>2. PICK i \in DOMAIN l0 : f = <<0, l0[i]>>
      BY <2>1, <2>3, <3>1 DEF Registered
    <3> QED  BY <2>2, <3>1, <3>2
  <2> QED  BY <2>3
<1>5. \A f \in Files : Dead(f) => \E g \in Registered : g[1] = 1 /\ f[2] <= g[2]
  <2>1. \A i \in DOMAIN l1 : <<1, l1[i]>> \in Registered
    BY DEF Registered
  <2> QED  BY <2>1 DEF Dead
<1>6. ASSUME NEW f \in Files, f[2] = next_sst_id PROVE ~Dead(f)
  BY <1>2, <1>5, <1>6
<1>7. ASSUME NEW f \in Files \ Registered, d[f] # NoTable
      PROVE  \/ \E g \in Registered : g[1] = 1 /\ f[2] <= g[2]
             \/ pc \in {"SstSyncDir", "SstOpen"} /\ f = NewL0
             \/ pc \in {"CmpSyncDir", "CmpOpen"} /\ f = NewL1
  <2>1. CASE dur[f] # NoTable
    BY <1>1, <1>5, <1>7, <2>1 DEF OrphansDead
  <2>2. CASE disk[f] # NoTable
    <3>1. f \in InFlight
      BY <1>1, <1>7, <2>2 DEF FilesKnown
    <3>2. CASE pc = "CmpUnlink" /\ \E i \in DOMAIN input_ids : f[2] = input_ids[i]
      <4>1. l1 # <<>> /\ f[2] < l1[1] /\ l1 \in Seq(Ids)
        BY <1>1, <3>2 DEF InputsBelow, MemoryTypes
      <4>2. <<1, l1[1]>> \in Registered
        BY <4>1 DEF Registered
      <4>3. f[2] \in Nat /\ l1[1] \in Nat
        BY <1>2, <4>2, ConstantsAssumption DEF Files, Ids
      <4> QED  BY <4>1, <4>2, <4>3
    <3> QED  BY <3>1, <3>2 DEF InFlight
  <2> QED  BY <1>7, <2>1, <2>2
<1> DEFINE N == CellIn(disk, Registered, k)
<1>8. NewestCell(Registered, k) = N /\ CellIn(d, Registered, k) = N
  <2>1. NewestCell(Registered, k) = N
    BY DEF NewestCell, CellIn
  <2> QED  BY <1>2, <1>3, <2>1, SameNewest
<1>9. CASE pc \in {"SstSyncDir", "SstOpen"} /\ NewL0 \in Files /\ d[NewL0] # NoTable
  <2>1. d[NewL0] = memtable /\ memtable[k] = Missing
    <3>1. dur[NewL0] = NoTable \/ dur = disk
      <4>1. NewL0 \notin Registered /\ ~Dead(NewL0)
        BY <1>1, <1>6, <1>9, NewNames DEF NewL0
      <4> QED  BY <1>1, <1>9, <4>1 DEF OrphansDead, TablesDurable
    <3>2. disk[NewL0] = memtable
      BY <1>9 DEF RInv, FlushedTable
    <3> QED  BY <1>9, <3>1, <3>2 DEF RotateSteps
  <2>2. Keeps(d, Registered \cup {NewL0})
    <3>1. NewL0[1] = 0 /\ NewL0[2] = next_sst_id
      BY DEF NewL0
    <3> QED  BY <1>2, <1>3, <1>4, <1>7, <1>9, <3>1 DEF Keeps
  <2>3. LiveIn(d) = Registered \cup {NewL0}
    BY <1>2, <1>9, <2>2, KeepsLive
  <2>4. CellIn(d, Registered \cup {NewL0}, k) = CellIn(d, Registered, k)
    <3>1. \A f \in Registered : f[2] < NewL0[2]
      BY <1>2 DEF NewL0
    <3>2. d[NewL0][k] = Missing
      BY <2>1
    <3> QED  BY <1>2, <1>9, <3>1, <3>2, NewestAdded
  <2> QED  BY <1>8, <2>3, <2>4
<1>10. CASE pc \in {"CmpSyncDir", "CmpOpen"} /\ NewL1 \in Files /\ d[NewL1] # NoTable
  <2>1. d[NewL1] = CompactionOutput
    <3>1. dur[NewL1] = NoTable \/ dur = disk
      <4>1. NewL1 \notin Registered /\ ~Dead(NewL1)
        BY <1>1, <1>6, <1>10, NewNames DEF NewL1
      <4> QED  BY <1>1, <1>10, <4>1 DEF OrphansDead, TablesDurable
    <3>2. disk[NewL1] = CompactionOutput
      BY <1>10 DEF RInv, MergedTable
    <3> QED  BY <1>10, <3>1, <3>2
  <2>2. Keeps(d, {NewL1})
    <3>1. NewL1[1] = 1 /\ NewL1[2] = next_sst_id
      BY DEF NewL1
    <3>2. \A f \in Files : f[2] \in Nat
      BY ConstantsAssumption DEF Files, Ids
    <3>3. ASSUME NEW f \in Files \ {NewL1}, d[f] # NoTable PROVE f[2] <= next_sst_id
      <4>1. f \in Registered \/ \E g \in Registered : g[1] = 1 /\ f[2] <= g[2]
        BY <1>7, <1>10, <3>3
      <4> QED  BY <1>2, <3>2, <4>1
    <3> QED  BY <1>10, <3>1, <3>3 DEF Keeps
  <2>3. LiveIn(d) = {NewL1}
    BY <1>10, <2>2, KeepsLive
  <2>4. CellIn(d, {NewL1}, k) = d[NewL1][k]
    <3>1. IsNewest(d, {NewL1}, k, CellIn(d, {NewL1}, k))
      BY <1>10, CellInIsNewest
    <3> QED  BY <3>1 DEF IsNewest
  <2>5. d[NewL1][k] = DropTombstone(N)
    BY <1>8, <2>1 DEF CompactionOutput
  <2> QED  BY <1>8, <2>3, <2>4, <2>5, ConstantsAssumption DEF Answer, DropTombstone
<1>11. CASE /\ ~(pc \in {"SstSyncDir", "SstOpen"} /\ NewL0 \in Files /\ d[NewL0] # NoTable)
            /\ ~(pc \in {"CmpSyncDir", "CmpOpen"} /\ NewL1 \in Files /\ d[NewL1] # NoTable)
  <2>1. Keeps(d, Registered)
    BY <1>3, <1>4, <1>7, <1>11 DEF Keeps
  <2>2. LiveIn(d) = Registered
    BY <1>2, <2>1, KeepsLive
  <2> QED  BY <1>8, <2>2
<1> QED  BY <1>9, <1>10, <1>11

-----------------------------------------------------------------------------
(* What a crash leaves of a key                                            *)

\* A log that replays nothing.
LEMMA ReplayNothing ==
    ASSUME NEW w \in Wals, WholeLog(w), ~w.exists \/ w.recs = <<>>, NEW k \in Keys
    PROVE  ReplayedCell(w, k) = Missing
BY ReplayWhole

\* What a crash leaves of a log that holds only true records is true.
LEMMA CutLogTrue ==
    ASSUME CrashModel, NEW w \in Wals, WholeLog(w), NEW a, NEW l, LogTrue(w, a, l),
           NEW x \in Survivors(w), x \in Wals, WholeLog(x), NEW k \in Keys,
           ReplayedCell(x, k) # Missing
    PROVE  Answer(ReplayedCell(x, k)) \in Acceptable(a, l, k)
<1>0. w.synced \in Nat /\ Len(w.recs) \in Nat
  BY DEF Wals
<1>1. PICK n \in w.synced .. Len(w.recs) :
         /\ DOMAIN x.recs = 1 .. n
         /\ \A i \in 1 .. n : i \in DOMAIN w.recs /\ x.recs[i] = w.recs[i]
  BY CutLog
<1>2. PICK i \in DOMAIN x.recs :
         /\ x.recs[i].key = k /\ ReplayedCell(x, k) = x.recs[i].entry
         /\ \A j \in DOMAIN x.recs : i < j => x.recs[j].key # k
  BY ReplayWhole
<1>3. i \in DOMAIN w.recs /\ w.recs[i] = x.recs[i]
  BY <1>1, <1>2
<1>4. \A j \in DOMAIN w.recs : i < j /\ j <= w.synced => w.recs[j].key # k
  <2> SUFFICES ASSUME NEW j \in DOMAIN w.recs, i < j, j <= w.synced PROVE w.recs[j].key # k
    OBVIOUS
  <2>1. j \in 1 .. n
    <3>1. j \in 1 .. Len(w.recs)
      BY DEF Wals
    <3> QED  BY <1>0, <3>1
  <2> QED  BY <1>1, <1>2, <2>1
<1> QED  BY <1>2, <1>3, <1>4 DEF LogTrue

\* DiskCell as a function of the directory and the log.
LEMMA DiskCellIn ==
    ASSUME NEW k
    PROVE  /\ DiskCell(k) = IF ReplayedCell(wal, k) # Missing THEN ReplayedCell(wal, k)
                            ELSE CellIn(disk, LiveIn(disk), k)
           /\ DiskCell(k)' = IF ReplayedCell(wal', k) # Missing THEN ReplayedCell(wal', k)
                             ELSE CellIn(disk', LiveIn(disk'), k)
<1>1. LiveFiles = LiveIn(disk)
  BY DEF LiveFiles, LiveIn, LiveL0, SurvivingL1, IdsAt, TopL1, IdsIn
<1>2. LiveFiles' = LiveIn(disk')
  BY DEF LiveFiles, LiveIn, LiveL0, SurvivingL1, IdsAt, TopL1, IdsIn
<1>3. DiskCell(k) = IF ReplayedCell(wal, k) # Missing THEN ReplayedCell(wal, k)
                            ELSE CellIn(disk, LiveFiles, k)
  BY DEF DiskCell, NewestCell, CellIn
<1>4. DiskCell(k)' = IF ReplayedCell(wal', k) # Missing THEN ReplayedCell(wal', k)
                            ELSE CellIn(disk', LiveFiles', k)
  BY DEF DiskCell, NewestCell, CellIn
<1> QED  BY <1>1, <1>2, <1>3, <1>4

\* A crash of a running engine leaves, of every key, the last write that took
\* effect or one in limbo.
LEMMA CrashKeeps ==
    ASSUME CrashModel, CInv, Crash, pc \in UpSteps, NEW k \in Keys
    PROVE  Answer(DiskCell(k)') \in Acceptable(acked, limbo, k)
<1>1. /\ RInv /\ LogInv /\ DirInv /\ MemoryTypes /\ WalTypes /\ DirectoryTypes /\ LevelOrder
      /\ WholeLog(wal) /\ WholeLog(walPrev)
  BY DEF CInv, RInv, FInv, IInv, TypeOK, LogInv
<1>2. /\ pc \notin {"Down", "Corrupt", "DropUnlink", "DropFinish"}
      /\ \A f \in Files : disk'[f] \in {disk[f], dur[f]}
  BY DEF Crash, Dies, CrashModel
<1>3. WalTypes' /\ WholeLog(wal)'
  <2>1. [Next]_vars
    BY DEF Next
  <2> QED  BY <1>1, <2>1, NextLogInv, NextRInv DEF LogInv, RInv, FInv, IInv, TypeOK
<1>4. wal' \in Wals /\ WholeLog(wal') /\ wal \in Wals /\ walPrev \in Wals
  BY <1>1, <1>3 DEF WalTypes, WholeLog
<1>5. (memtable[k] = Missing \/ pc \in RotateSteps)
      => Answer(CellIn(disk', LiveIn(disk'), k)) = acked[k]
  <2>0. Answer(Lookup(k)) = acked[k]
    BY <1>1 DEF RInv, ReadsNewest
  <2>1. ASSUME memtable[k] = Missing \/ pc \in RotateSteps
        PROVE  Answer(CellIn(disk', LiveIn(disk'), k)) = acked[k]
    <3>1. Answer(CellIn(disk', LiveIn(disk'), k)) = Answer(NewestCell(Registered, k))
      BY <1>1, <1>2, <2>1, CrashTables
    <3>2. CASE memtable[k] = Missing
      BY <2>0, <3>1, <3>2 DEF Lookup
    <3>3. CASE memtable[k] # Missing /\ pc \in RotateSteps
      <4>1. l0 # <<>> /\ disk[<<0, l0[1]>>] = memtable
        BY <1>1, <3>3 DEF RInv, FlushedTable, RotateSteps
      <4>2. NewestCell(Registered, k) = memtable[k]
        BY <1>1, <3>3, <4>1, HeadNewest
      <4> QED  BY <2>0, <3>1, <3>3, <4>2 DEF Lookup
    <3> QED  BY <2>1, <3>2, <3>3
  <2> QED  BY <2>1
<1>6. CASE pc \notin RotateSteps
  <2>1. /\ ~walDirty /\ wal.exists /\ wal.hdr
        /\ LogTrue(wal, acked, limbo) /\ LogCovers(wal, memtable)
    BY <1>1, <1>6 DEF LogInv
  <2>2. wal' \in Survivors(wal)
    BY <2>1 DEF Crash
  <2>3. CASE ReplayedCell(wal', k) # Missing
    BY <1>1, <1>4, <2>1, <2>2, <2>3, CutLogTrue, DiskCellIn
  <2>4. CASE ReplayedCell(wal', k) = Missing
    <3>1. PICK n \in wal.synced .. Len(wal.recs) :
             /\ wal'.exists = wal.exists /\ wal'.hdr = wal.hdr /\ DOMAIN wal'.recs = 1 .. n
             /\ \A i \in 1 .. n : i \in DOMAIN wal.recs /\ wal'.recs[i] = wal.recs[i]
      BY <1>1, <1>4, <2>2, CutLog
    <3>2. \A i \in 1 .. n : wal.recs[i].key # k
      <4>1. wal'.exists /\ wal'.hdr
        BY <2>1, <3>1
      <4>2. \A i \in DOMAIN wal'.recs : wal'.recs[i].key # k
        BY <1>4, <2>4, <4>1, ReplayWhole
      <4> QED  BY <3>1, <4>2
    <3>3. \A i \in DOMAIN wal.recs : i <= wal.synced => i \in 1 .. n
      <4>1. wal.synced \in Nat /\ Len(wal.recs) \in Nat /\ DOMAIN wal.recs = 1 .. Len(wal.recs)
        BY <1>4 DEF Wals
      <4> QED  BY <4>1
    <3>4. memtable[k] = Missing
      BY <2>1, <3>2, <3>3 DEF LogCovers
    <3> QED  BY <1>5, <2>4, <3>4, DiskCellIn DEF Acceptable
  <2> QED  BY <2>3, <2>4
<1>7. CASE pc \in RotateSteps
  <2>1. LogTrue(walPrev, acked, limbo) /\ wal.recs = <<>>
    BY <1>1, <1>7 DEF LogInv
  <2>2. CASE ReplayedCell(wal', k) = Missing
    BY <1>5, <1>7, <2>2, DiskCellIn DEF Acceptable
  <2>3. CASE ReplayedCell(wal', k) # Missing
    <3>1. wal' \in Survivors(walPrev)
      <4>1. wal' # NoWal
        BY <1>4, <2>3, ReplayNothing DEF NoWal
      <4>2. wal' \notin Survivors(wal)
        <5> SUFFICES ASSUME wal' \in Survivors(wal) PROVE FALSE
          OBVIOUS
        <5>1. PICK n \in wal.synced .. Len(wal.recs) : DOMAIN wal'.recs = 1 .. n
          BY <1>1, <1>4, CutLog
        <5>2. wal.synced \in Nat /\ Len(wal.recs) = 0
          BY <1>4, <2>1 DEF Wals
        <5>3. DOMAIN wal'.recs = {}
          BY <5>1, <5>2
        <5> QED  BY <1>4, <2>3, <5>3, ReplayWhole
      <4> QED  BY <4>1, <4>2 DEF Crash
    <3> QED  BY <1>1, <1>4, <2>1, <2>3, <3>1, CutLogTrue, DiskCellIn
  <2> QED  BY <2>2, <2>3
<1> QED  BY <1>6, <1>7

\* A step that does not bring the engine up, taken while it is down or being
\* opened, changes nothing that an open would find: neither the removal of
\* orphans, nor the creation of a WAL, nor a further crash.
LEMMA DownKeeps ==
    ASSUME CrashModel, CInv, [Next]_vars, pc \notin UpSteps, pc' \notin UpSteps
    PROVE  UNCHANGED gvars /\ \A k \in Keys : Answer(DiskCell(k)') = Answer(DiskCell(k))
<1>1. /\ RInv /\ LogInv /\ DirInv /\ CallTypes /\ MemoryTypes /\ WalTypes /\ DirectoryTypes
      /\ LevelOrder /\ WholeLog(wal) /\ WholeLog(walPrev)
  BY DEF CInv, RInv, FInv, IInv, TypeOK, LogInv
<1>2. \A s : CanFail(s) => s \in CleanErrors
  BY OnlyCleanErrors
<1>3. WalTypes' /\ WholeLog(wal)' /\ CallTypes'
  BY <1>1, NextLogInv, NextRInv DEF LogInv, RInv, FInv, IInv, TypeOK
<1>4. wal' \in Wals /\ WholeLog(wal') /\ wal \in Wals /\ walPrev \in Wals
  BY <1>1, <1>3 DEF WalTypes, WholeLog
<1>5. /\ pc \in OpenSteps \cup {"Down", "Corrupt"} /\ pc' \in OpenSteps \cup {"Down", "Corrupt"}
  BY <1>1, <1>3 DEF CallTypes, Steps
<1> USE DEF Goto, Fails, IgnoredError, Proceeds, Returns, Opening,
            mvars, dvars, wvars, gvars, bounds
<1>6. CASE UNCHANGED <<disk, wal, acked, limbo>>
  BY <1>6, DiskCellIn
<1>7. CASE Discover
  <2>1. UNCHANGED <<wal, gvars>> /\ disk' = Keeping({})
    BY <1>2, <1>7 DEF Discover, CleanErrors
  <2>2. LiveFiles' = LiveFiles /\ \A f \in LiveFiles : disk'[f] = disk[f]
    BY <2>1, LiveKept
  <2>3. LiveFiles \in SUBSET Files /\ OneIdEach(LiveFiles)
    <3>1. /\ LiveL0 \subseteq Ids /\ SurvivingL1 \subseteq Ids
          /\ \A i \in LiveL0, j \in SurvivingL1 : i > j
      BY LiveTables DEF IdsAt
    <3>2. \A i \in LiveL0, j \in SurvivingL1 : i # j
      BY <3>1 DEF Ids
    <3> QED  BY <3>1, <3>2 DEF LiveFiles, Files, OneIdEach
  <2>4. \A k \in Keys : CellIn(disk', LiveFiles, k) = CellIn(disk, LiveFiles, k)
    BY <2>2, <2>3, SameNewest
  <2>5. \A k \in Keys : NewestCell(LiveFiles, k)' = NewestCell(LiveFiles, k)
    <3> SUFFICES ASSUME NEW k \in Keys PROVE NewestCell(LiveFiles, k)' = NewestCell(LiveFiles, k)
      OBVIOUS
    <3>1. /\ NewestCell(LiveFiles, k)' = CellIn(disk', LiveFiles', k)
          /\ NewestCell(LiveFiles, k) = CellIn(disk, LiveFiles, k)
      BY DEF NewestCell, CellIn
    <3> QED  BY <2>2, <2>4, <3>1
  <2> QED  BY <2>1, <2>5 DEF DiskCell
<1>8. CASE WalCreate \/ WalHeader
  <2>1. /\ pc \in {"OpenCreate", "OpenHeader"} /\ UNCHANGED <<disk, gvars>>
        /\ ~wal.exists \/ wal.recs = <<>>
    BY <1>1, <1>5, <1>8 DEF WalCreate, WalHeader, LogInv, RInv, OpenedFiles, OpenSteps
  <2>2. wal'.recs = <<>>
    <3>1. pc' \in {"OpenHeader", "OpenSyncDir"}
      BY <1>2, <1>8, <2>1 DEF WalCreate, WalHeader, OpenSteps, CleanErrors
    <3> QED  BY <1>1, <3>1, NextRInv DEF RInv, OpenedFiles
  <2>3. \A k \in Keys : ReplayedCell(wal, k) = Missing /\ ReplayedCell(wal', k) = Missing
    BY <1>1, <1>4, <2>1, <2>2, ReplayNothing
  <2> QED  BY <2>1, <2>3, DiskCellIn
<1>9. CASE Crash
  <2>0. /\ pc \in OpenSteps /\ UNCHANGED gvars
        /\ pc \notin {"Down", "Corrupt", "DropUnlink", "DropFinish"}
        /\ \A f \in Files : disk'[f] \in {disk[f], dur[f]}
    BY <1>5, <1>9 DEF Crash, Dies, CrashModel, OpenSteps
  <2>1. \A k \in Keys : memtable[k] = Missing /\ Registered = LiveFiles
    BY <1>1, <2>0 DEF RInv, NoMemory, OpenedFiles, NoTable
  <2>2. \A k \in Keys : Answer(CellIn(disk', LiveIn(disk'), k)) = Answer(NewestCell(Registered, k))
    BY <1>1, <2>0, <2>1, CrashTables
  <2>3. \A k \in Keys : NewestCell(Registered, k) = CellIn(disk, LiveIn(disk), k)
    <3>1. LiveFiles = LiveIn(disk)
      BY DEF LiveFiles, LiveIn, LiveL0, SurvivingL1, IdsAt, TopL1, IdsIn
    <3>2. \A k \in Keys : NewestCell(Registered, k) = CellIn(disk, Registered, k)
      BY DEF NewestCell, CellIn
    <3> QED  BY <2>1, <3>1, <3>2
  <2>4. \A k \in Keys : ReplayedCell(wal', k) = ReplayedCell(wal, k)
    <3>1. CASE pc \in {"Replay", "OpenCreate"}
      <4>1. wal' \in Survivors(wal) /\ wal.synced = Len(wal.recs)
        BY <1>1, <1>9, <3>1 DEF Crash, LogInv, FlushSteps, CompactSteps, BusySteps, UpSteps
      <4>2. wal' = [wal EXCEPT !.recs = SubSeq(wal.recs, 1, Len(wal.recs)), !.synced = Len(wal.recs)]
        <5>1. Len(wal.recs) \in Nat
          BY <1>4 DEF Wals
        <5>2. wal.synced .. Len(wal.recs) = {Len(wal.recs)}
          BY <4>1, <5>1
        <5> QED  BY <4>1, <5>2 DEF Survivors, CrashModel
      <4>3. SubSeq(wal.recs, 1, Len(wal.recs)) = wal.recs
        BY <1>4 DEF Wals
      <4>4. wal' = wal
        BY <1>4, <4>1, <4>2, <4>3 DEF Wals
      <4> QED  BY <4>4
    <3>2. CASE pc \in {"OpenHeader", "OpenSyncDir"}
      <4>1. wal.recs = <<>> /\ ~walPrev.exists
        BY <1>1, <3>2 DEF LogInv, RInv, OpenedFiles
      <4>2. ~wal'.exists \/ wal'.recs = <<>>
        <5>1. CASE wal' = NoWal
          BY <5>1 DEF NoWal
        <5>2. CASE wal' \in Survivors(walPrev)
          BY <1>1, <1>4, <4>1, <5>2, CutLog
        <5>3. CASE wal' \in Survivors(wal)
          <6>1. PICK n \in wal.synced .. Len(wal.recs) : Len(wal'.recs) = n
            BY <1>1, <1>4, <5>3, CutLog
          <6>2. wal.synced \in Nat /\ Len(wal.recs) = 0
            BY <1>4, <4>1 DEF Wals
          <6>3. Len(wal'.recs) = 0
            BY <6>1, <6>2
          <6> QED  BY <1>4, <6>3 DEF Wals
        <5> QED  BY <1>9, <5>1, <5>2, <5>3 DEF Crash
      <4> QED  BY <1>1, <1>4, <4>1, <4>2, ReplayNothing
    <3> QED  BY <2>0, <3>1, <3>2 DEF OpenSteps
  <2> QED  BY <2>0, <2>2, <2>3, <2>4, DiskCellIn
<1>10. CASE Kill
  BY <1>10 DEF Kill, Dies, CrashModel
<1>11. CASE Replay \/ OpenSyncDir
  <2>1. pc' # "Idle"
    BY <1>5 DEF OpenSteps
  <2> QED  BY <1>6, <1>11, <2>1 DEF Replay, OpenSyncDir
<1>12. CASE UNCHANGED vars
  BY <1>6, <1>12 DEF vars
<1>13. ~Client /\ ~WalSync /\ ~FlushSync /\ ~CompactStep
       /\ ~SstWrite /\ ~SstRename /\ ~SstSyncDir /\ ~SstOpen /\ ~WalRemove /\ ~WalSyncDir
  BY <1>5 DEF Client, WriteAppend, Flush, Close, Admits, WalSync, FlushSync, CompactStep, CmpWrite, CmpRename,
     CmpSyncDir, CmpOpen, Unlink, UnlinkedAll, CmpFinish, SstWrite, SstRename, SstSyncDir,
     SstOpen, WalRemove, WalSyncDir, OpenSteps
<1> QED
  BY <1>7, <1>8, <1>9, <1>10, <1>11, <1>12, <1>13 DEF Next, CallStep, OpenStep, FlushStep

\* An engine goes down only by a crash.
LEMMA DownByCrash ==
    ASSUME CrashModel, CInv, [Next]_vars, pc \in UpSteps, pc' \notin UpSteps
    PROVE  Crash
<1>1. pc \notin OpenSteps \cup {"Down", "Corrupt"} /\ pc' # "Idle"
  BY DEF FlushSteps, CompactSteps, OpenSteps, BusySteps, UpSteps
<1> USE DEF Goto, Fails, IgnoredError, Proceeds, Returns, Opening
<1>2. ~Client
  BY <1>1 DEF Client, WriteAppend, Flush, Close, FlushSteps, BusySteps, UpSteps
<1>3. ~WalSync /\ ~FlushSync
  BY <1>1 DEF WalSync, FlushSync, maybe_compact, FlushSteps, CompactSteps, BusySteps, UpSteps
<1>4. ~FlushStep
  BY <1>1 DEF FlushStep, SstWrite, SstRename, SstSyncDir, SstOpen, WalRemove, WalCreate, WalHeader,
     WalSyncDir, maybe_compact, FlushSteps, CompactSteps, OpenSteps, BusySteps, UpSteps
<1>5. ~CompactStep
  BY <1>1 DEF CompactStep, CmpWrite, CmpRename, CmpSyncDir, CmpOpen, Unlink, UnlinkedAll, CmpFinish,
     CompactSteps, BusySteps, UpSteps
<1>6. ~OpenStep /\ ~Discover
  BY <1>1 DEF OpenStep, Replay, OpenSyncDir, Discover, OpenSteps
<1>7. ~Kill
  BY DEF Kill, Dies, CrashModel
<1>8. ~UNCHANGED vars
  BY DEF vars
<1> QED  BY <1>2, <1>3, <1>4, <1>5, <1>6, <1>7, <1>8 DEF Next, CallStep

\* Every step keeps Durability.
LEMMA NextDurable == ASSUME CrashModel, CInv, [Next]_vars PROVE Durability'
<1> SUFFICES ASSUME pc' \notin UpSteps
             PROVE  \A k \in Keys : Answer(DiskCell(k)') \in Acceptable(acked', limbo', k)
  BY DEF Durability, Acceptable
<1>1. CASE pc \in UpSteps
  <2>1. Crash
    BY <1>1, DownByCrash
  <2>2. UNCHANGED <<acked, limbo>>
    BY <2>1 DEF Crash, Dies, gvars
  <2> QED  BY <1>1, <2>1, <2>2, CrashKeeps
<1>2. CASE pc \notin UpSteps
  <2>1. UNCHANGED <<acked, limbo>> /\ \A k \in Keys : Answer(DiskCell(k)') = Answer(DiskCell(k))
    BY <1>2, DownKeeps DEF gvars
  <2>2. \A k \in Keys : Answer(DiskCell(k)) \in Acceptable(acked, limbo, k)
    BY <1>2 DEF CInv, Durability, Acceptable
  <2> QED  BY <2>1, <2>2
<1> QED  BY <1>1, <1>2

-----------------------------------------------------------------------------
(* The theorems                                                            *)

LEMMA InitCInv == Init => CInv
<1> SUFFICES ASSUME Init PROVE CInv
  OBVIOUS
<1>1. RInv
  BY InitRInv
<1>2. LogInv
  BY DEF Init, LogInv, WholeLog, NoWal, RotateSteps, FlushSteps, CompactSteps, BusySteps, UpSteps
<1>3. DirInv
  BY DEF Init, DirInv, FilesKnown, TablesDurable, OrphansDead, InputsBelow
<1>4. Durability
  <2>1. \A k \in Keys : ReplayedCell(wal, k) = Missing
    <3>1. WholeLog(wal) /\ wal \in Wals /\ ~wal.exists
      BY <1>1, <1>2 DEF LogInv, Init, NoWal, RInv, FInv, IInv, TypeOK, WalTypes
    <3> QED  BY <3>1, ReplayNothing
  <2>2. \A k \in Keys : CellIn(disk, LiveIn(disk), k) = Missing
    <3>1. Keeps(disk, {})
      BY DEF Init, Keeps
    <3>2. LiveIn(disk) = {}
      BY <3>1, KeepsLive
    <3> QED  BY <3>2 DEF CellIn
  <2>3. \A k \in Keys : DiskCell(k) = Missing
    BY <2>1, <2>2, DiskCellIn
  <2> QED  BY <2>3, ConstantsAssumption DEF Init, Durability, Answer
<1> QED  BY <1>1, <1>2, <1>3, <1>4 DEF CInv

LEMMA NextCInv == ASSUME CrashModel PROVE CInv /\ [Next]_vars => CInv'
<1> SUFFICES ASSUME CInv, [Next]_vars PROVE CInv'
  OBVIOUS
<1>1. RInv'
  BY NextRInv DEF CInv
<1> QED  BY <1>1, NextLogInv, NextDirInv, NextDurable DEF CInv

\* put's and delete's promise: after a power failure at any I/O step, during
\* a write, a flush, a WAL rotation, a compaction or another recovery, the
\* files hold for every key the last write that was acknowledged or one that
\* was in flight or had failed after it.
THEOREM CrashDurable == ASSUME CrashModel PROVE Spec => []Durability
<1>1. CInv => Durability
  BY DEF CInv
<1> QED  BY <1>1, InitCInv, NextCInv, PTL DEF Spec

\* flush_inner and compact_l0_l1 register a table only once its directory
\* entry is durable, so the WAL or the inputs they then remove are not needed.
THEOREM TablesStayDurable == ASSUME CrashModel PROVE Spec => []RegisteredDurable
<1>1. CInv => RegisteredDurable
  <2> SUFFICES ASSUME CInv, pc \in UpSteps
               PROVE  \A f \in Registered : disk[f] # NoTable /\ dur[f] = disk[f]
    BY DEF RegisteredDurable
  <2>1. pc \notin {"Down", "Corrupt"}
    BY DEF FlushSteps, CompactSteps, BusySteps, UpSteps
  <2> QED  BY <2>1 DEF CInv, RInv, FInv, ReadersOnDisk, DirInv, TablesDurable
<1> QED  BY <1>1, InitCInv, NextCInv, PTL DEF Spec

-----------------------------------------------------------------------------
(* The engine implements DurableMap: every I/O step of every call, every   *)
(* power failure and every step of a recovery is a step of the abstract    *)
(* map or leaves it as it is.                                              *)

\* The refinement mapping: what get answers, or what an open would find.
Store == [k \in Keys |-> IF up THEN get(k) ELSE Answer(DiskCell(k))]
Limbo == [k \in Keys |-> IF up THEN limbo[k] ELSE {}]

\* While the engine is up the map is the ghost acked, kept by the actions.
LEMMA StoreUp ==
    /\ TypeOK /\ ReadsLatest /\ pc \in UpSteps => Store = acked /\ Limbo = limbo
    /\ pc \notin UpSteps => /\ Store = [k \in Keys |-> Answer(DiskCell(k))]
                            /\ Limbo = [k \in Keys |-> {}]
<1>1. ASSUME TypeOK, ReadsLatest, pc \in UpSteps PROVE Store = acked /\ Limbo = limbo
  <2>1. acked \in [Keys -> Answers] /\ limbo \in [Keys -> SUBSET Answers]
    BY <1>1 DEF TypeOK, GhostTypes
  <2>2. \A k \in Keys : get(k) = acked[k]
    BY <1>1 DEF ReadsLatest
  <2>3. Store = [k \in Keys |-> acked[k]] /\ Limbo = [k \in Keys |-> limbo[k]]
    BY <1>1, <2>2 DEF Store, Limbo, up
  <2> QED  BY <2>1, <2>3
<1>2. ASSUME pc \notin UpSteps
      PROVE  Store = [k \in Keys |-> Answer(DiskCell(k))] /\ Limbo = [k \in Keys |-> {}]
  BY <1>2 DEF Store, Limbo, up
<1> QED  BY <1>1, <1>2

\* While the engine stays up only the append of a record and its sync change
\* what was written.
LEMMA UpWrites ==
    ASSUME CInv, [Next]_vars, pc \in UpSteps, pc' \in UpSteps
    PROVE  \/ UNCHANGED <<acked, limbo>>
           \/ \E k \in Keys, e \in Writes : UNCHANGED acked /\ InLimbo(k, e)
           \/ /\ req \in Records /\ Answer(req.entry) \in limbo[req.key]
              /\ acked' = [acked EXCEPT ![req.key] = Answer(req.entry)]
              /\ limbo' = [limbo EXCEPT ![req.key] = {}]
<1>0. pc \notin OpenSteps \cup {"Down", "Corrupt"} /\ pc' # "Down"
  BY DEF FlushSteps, CompactSteps, OpenSteps, BusySteps, UpSteps
<1> USE DEF Goto, Fails, IgnoredError, Proceeds, Returns, Opening, gvars
<1>1. CASE Client
  BY <1>1 DEF Client, WriteAppend, Flush, Close
<1>2. CASE WalSync
  <2>1. pc = "WalSync" /\ req \in Records /\ Answer(req.entry) \in limbo[req.key]
    BY <1>2 DEF WalSync, CInv, LogInv, RInv, FInv, TableInFlight
  <2> QED  BY <1>2, <2>1 DEF WalSync
<1>3. CASE FlushSync
  BY <1>3 DEF FlushSync
<1>4. CASE FlushStep
  BY <1>4 DEF FlushStep, SstWrite, SstRename, SstSyncDir, SstOpen, WalRemove, WalCreate, WalHeader,
     WalSyncDir
<1>5. CASE CompactStep
  BY <1>5 DEF CompactStep, CmpWrite, CmpRename, CmpSyncDir, CmpOpen, Unlink, UnlinkedAll, CmpFinish
<1>6. ~OpenStep /\ ~Discover /\ ~Crash /\ ~Kill
  BY <1>0 DEF OpenStep, Replay, OpenSyncDir, Discover, OpenSteps, Crash, Kill, Dies
<1>7. CASE UNCHANGED vars
  BY <1>7 DEF vars
<1> QED  BY <1>1, <1>2, <1>3, <1>4, <1>5, <1>6, <1>7 DEF Next, CallStep

\* An open that succeeds starts from what the directory held.
LEMMA OpenRecovers ==
    ASSUME [Next]_vars, pc \notin UpSteps, pc' \in UpSteps, CallTypes
    PROVE  Recovered
<1>0. /\ pc \in OpenSteps \cup {"Down", "Corrupt"}
      /\ pc' \notin OpenSteps \cup {"Down", "Corrupt"}
  BY DEF CallTypes, Steps, FlushSteps, CompactSteps, OpenSteps, BusySteps, UpSteps
<1> USE DEF Goto, Fails, Opening
<1>1. ~Client /\ ~WalSync /\ ~FlushSync /\ ~CompactStep
  BY <1>0 DEF Client, WriteAppend, Flush, Close, Admits, WalSync, FlushSync, CompactStep, CmpWrite,
     CmpRename, CmpSyncDir, CmpOpen, Unlink, UnlinkedAll, CmpFinish, OpenSteps
<1>2. ~FlushStep
  BY <1>0 DEF FlushStep, SstWrite, SstRename, SstSyncDir, SstOpen, WalRemove, WalCreate, WalHeader,
     WalSyncDir, OpenSteps
<1>3. ~Discover /\ ~Crash /\ ~Kill /\ ~UNCHANGED vars
  BY <1>0 DEF Discover, Crash, Kill, Dies, OpenSteps, vars
<1> QED  BY <1>0, <1>1, <1>2, <1>3 DEF Next, CallStep, OpenStep, Replay, OpenSyncDir, OpenSteps

\* Every step of the engine is a step of the map, or none.
LEMMA StepSimulation ==
    ASSUME CrashModel
    PROVE  CInv /\ ReadsLatest /\ [Next]_vars /\ CInv' /\ ReadsLatest'
               => \/ UNCHANGED <<Store, Limbo>>
                  \/ \E k \in Keys, v \in Answers :
                        UNCHANGED Store /\ Limbo' = [Limbo EXCEPT ![k] = @ \cup {v}]
                  \/ \E k \in Keys, v \in Answers :
                        /\ v \in Limbo[k] /\ Store' = [Store EXCEPT ![k] = v]
                        /\ Limbo' = [Limbo EXCEPT ![k] = {}]
                  \/ /\ Store' \in [Keys -> Answers]
                     /\ \A k \in Keys : Store'[k] \in {Store[k]} \cup Limbo[k]
                     /\ Limbo' = [k \in Keys |-> {}]
<1> SUFFICES ASSUME CInv, ReadsLatest, [Next]_vars, CInv', ReadsLatest'
             PROVE  \/ UNCHANGED <<Store, Limbo>>
                    \/ \E k \in Keys, v \in Answers :
                          UNCHANGED Store /\ Limbo' = [Limbo EXCEPT ![k] = @ \cup {v}]
                    \/ \E k \in Keys, v \in Answers :
                          /\ v \in Limbo[k] /\ Store' = [Store EXCEPT ![k] = v]
                          /\ Limbo' = [Limbo EXCEPT ![k] = {}]
                    \/ /\ Store' \in [Keys -> Answers]
                       /\ \A k \in Keys : Store'[k] \in {Store[k]} \cup Limbo[k]
                       /\ Limbo' = [k \in Keys |-> {}]
  OBVIOUS
<1>0. TypeOK /\ TypeOK' /\ CallTypes
  BY DEF CInv, RInv, FInv, IInv, TypeOK
<1>1. /\ pc \in UpSteps => Store = acked /\ Limbo = limbo
      /\ pc \notin UpSteps => /\ Store = [k \in Keys |-> Answer(DiskCell(k))]
                              /\ Limbo = [k \in Keys |-> {}]
  BY <1>0, StoreUp
<1>2. pc' \in UpSteps => Store' = acked' /\ Limbo' = limbo'
  <2> SUFFICES ASSUME pc' \in UpSteps PROVE Store' = acked' /\ Limbo' = limbo'
    OBVIOUS
  <2>1. acked' \in [Keys -> Answers] /\ limbo' \in [Keys -> SUBSET Answers]
    BY <1>0 DEF TypeOK, GhostTypes
  <2>2. \A k \in Keys : get(k)' = acked'[k]
    BY DEF ReadsLatest
  <2>3. Store' = [k \in Keys |-> acked'[k]] /\ Limbo' = [k \in Keys |-> limbo'[k]]
    BY <2>2 DEF Store, Limbo, up
  <2> QED  BY <2>1, <2>3
<1>3. pc' \notin UpSteps => /\ Store' = [k \in Keys |-> Answer(DiskCell(k)')]
                            /\ Limbo' = [k \in Keys |-> {}]
  BY DEF Store, Limbo, up, Answer
<1>4. CASE pc \in UpSteps /\ pc' \in UpSteps
  <2>1. Store = acked /\ Limbo = limbo /\ Store' = acked' /\ Limbo' = limbo'
    BY <1>1, <1>2, <1>4
  <2>2. CASE UNCHANGED <<acked, limbo>>
    BY <2>1, <2>2
  <2>3. CASE \E k \in Keys, e \in Writes : UNCHANGED acked /\ InLimbo(k, e)
    <3>1. \A e \in Writes : Answer(e) \in Answers
      BY AnswerType
    <3> QED  BY <2>1, <2>3, <3>1 DEF InLimbo
  <2>4. CASE /\ req \in Records /\ Answer(req.entry) \in limbo[req.key]
             /\ acked' = [acked EXCEPT ![req.key] = Answer(req.entry)]
             /\ limbo' = [limbo EXCEPT ![req.key] = {}]
    <3>1. req.key \in Keys /\ Answer(req.entry) \in Answers
      BY <2>4, AnswerType DEF Records
    <3> QED  BY <2>1, <2>4, <3>1
  <2> QED  BY <1>4, <2>2, <2>3, <2>4, UpWrites
<1>5. CASE pc \in UpSteps /\ pc' \notin UpSteps
  <2>1. \A k \in Keys : Answer(DiskCell(k)') \in Acceptable(acked, limbo, k)
    BY <1>5, DownByCrash, CrashKeeps
  <2>2. \A k \in Keys : Answer(DiskCell(k)') \in Answers
    BY DEF Answer, Answers
  <2> QED  BY <1>1, <1>3, <1>5, <2>1, <2>2 DEF Acceptable
<1>6. CASE pc \notin UpSteps /\ pc' \notin UpSteps
  <2>1. \A k \in Keys : Answer(DiskCell(k)') = Answer(DiskCell(k))
    BY <1>6, DownKeeps
  <2> QED  BY <1>1, <1>3, <1>6, <2>1
<1>7. CASE pc \notin UpSteps /\ pc' \in UpSteps
  <2>1. Recovered
    BY <1>0, <1>7, OpenRecovers
  <2> QED  BY <1>1, <1>2, <1>7, <2>1 DEF Recovered
<1> QED  BY <1>4, <1>5, <1>6, <1>7

\* The engine is a durable map: whatever call is in progress and whenever
\* power fails, a client that only sees put, delete and get cannot tell the
\* log, the levels, flushes and compactions from a map whose writes take
\* effect one at a time and are never undone.
THEOREM EngineImplementsMap == ASSUME CrashModel PROVE Spec => ImplementsDurableMap
<1>1. Init => Abstract!Init
  <2> SUFFICES ASSUME Init PROVE Abstract!Init
    OBVIOUS
  <2>1. pc \notin UpSteps
    BY DEF Init, FlushSteps, CompactSteps, BusySteps, UpSteps
  <2>2. \A k \in Keys : Answer(DiskCell(k)) = Missing
    <3>1. Durability
      BY InitCInv DEF CInv
    <3> QED  BY <2>1, <3>1 DEF Init, Durability
  <2> QED  BY <2>1, <2>2 DEF Abstract!Init, up
<1>2. CInv => ReadsLatest
  BY RInvReads DEF CInv
<1>3. CInv /\ ReadsLatest /\ [Next]_vars /\ CInv' /\ ReadsLatest' => [Abstract!Next]_(Abstract!vars)
  BY StepSimulation DEF Abstract!Next, Abstract!vars, Abstract!Submit, Abstract!Apply, Abstract!Crash,
     Abstract!Answers, Store, Limbo, Answers
<1> QED  BY <1>1, <1>2, <1>3, InitCInv, NextCInv, PTL DEF Spec, ImplementsDurableMap, Abstract!Spec

-----------------------------------------------------------------------------
(* What it takes for Engine::open to refuse the log                        *)

Faults == crashes + fails
Wounded(w) == \E i \in DOMAIN w.recs : w.recs[i] = Torn

\* A record is torn by a fault; records behind a torn one are met by an open
\* after m faults; and a log without a header has no record.
Tears(w, n, m) == /\ Wounded(w) => n >= 1
                  /\ TornInside(w) => n >= m
                  /\ ~w.hdr => w.recs = <<>>

\* While the engine runs, records may stand behind a torn one after a single
\* fault; the end of the process is the second.
NeededBehind == IF pc \in UpSteps THEN 1 ELSE 2

TearInv ==
    /\ Tears(wal, Faults, NeededBehind) /\ Tears(walPrev, Faults, NeededBehind)
    /\ attached => wal.hdr /\ pc \in UpSteps \ RotateSteps
    /\ pc \in {"WalSyncDir", "OpenSyncDir"} => wal.hdr
    /\ pc = "Corrupt" => ~wal.hdr \/ TornInside(wal)

\* A record at the end of a log, possibly a torn one, which is a fault more.
LEMMA AppendTears ==
    ASSUME NEW w \in Wals, w.hdr, NEW n \in Nat, Tears(w, n, 1),
           NEW x \in Records \cup {Torn}, NEW p \in Nat, p >= n, x = Torn => p >= n + 1
    PROVE  Tears([w EXCEPT !.recs = Append(@, x)], p, 1)
<1> DEFINE z == [w EXCEPT !.recs = Append(@, x)]
           k == Len(w.recs)
<1>1. w.recs \in Seq(Records \cup {Torn}) /\ z.recs = Append(w.recs, x) /\ z.hdr
  BY DEF Wals
<1>2. /\ k \in Nat /\ DOMAIN w.recs = 1 .. k /\ DOMAIN z.recs = 1 .. k + 1 /\ Len(z.recs) = k + 1
      /\ z.recs[k + 1] = x /\ \A i \in 1 .. k : z.recs[i] = w.recs[i]
  BY <1>1
<1> HIDE DEF z, k
<1>3. Wounded(z) => p >= 1
  BY <1>2 DEF Wounded, Tears
<1>4. TornInside(z) => p >= 1
  BY <1>3 DEF TornInside, Wounded
<1> QED  BY <1>1, <1>3, <1>4 DEF Tears, z

\* What a power failure leaves of a log, which is a fault more.
LEMMA SurvivorTears ==
    ASSUME NEW w \in Wals, NEW n \in Nat, NEW m \in {1, 2}, Tears(w, n, m),
           NEW x \in Survivors(w)
    PROVE  Tears(x, n + 1, 2)
<1>1. w.recs \in Seq(Records \cup {Torn}) /\ w.synced \in Nat /\ Len(w.recs) \in Nat
      /\ DOMAIN w.recs = 1 .. Len(w.recs)
  BY DEF Wals
<1>2. PICK k \in w.synced .. Len(w.recs) :
              \/ x = [w EXCEPT !.recs = SubSeq(w.recs, 1, k), !.synced = k]
              \/ x = [w EXCEPT !.recs = SubSeq(w.recs, 1, k) \o <<Torn>>, !.synced = k + 1]
                 /\ k < Len(w.recs)
  <2> DEFINE cut(j) == [w EXCEPT !.recs = SubSeq(w.recs, 1, j), !.synced = j]
             torn(j) == [w EXCEPT !.recs = SubSeq(w.recs, 1, j) \o <<Torn>>, !.synced = j + 1]
             Cuts == {cut(j) : j \in w.synced .. Len(w.recs)}
             Torns == {torn(j) : j \in w.synced .. Len(w.recs) - 1}
  <2>1. Survivors(w) \subseteq Cuts \cup Torns
    <3>1. CASE TornWrites
      BY <3>1 DEF Survivors
    <3>2. CASE ~TornWrites
      BY <3>2 DEF Survivors
    <3> QED  BY <3>1, <3>2
  <2>2. x \in Cuts \/ x \in Torns
    BY <2>1
  <2>3. CASE x \in Cuts
    <3>1. PICK j \in w.synced .. Len(w.recs) : x = cut(j)
      BY <2>3
    <3> QED  BY <3>1
  <2>4. CASE x \in Torns
    <3>1. PICK j \in w.synced .. Len(w.recs) - 1 : x = torn(j)
      BY <2>4
    <3>2. j \in w.synced .. Len(w.recs) /\ j < Len(w.recs)
      BY <1>1, <3>1
    <3> QED  BY <3>1, <3>2
  <2> QED  BY <2>2, <2>3, <2>4
<1> DEFINE s == SubSeq(w.recs, 1, k)
<1>3. /\ k \in Nat /\ s \in Seq(Records \cup {Torn}) /\ Len(s) = k /\ DOMAIN s = 1 .. k
      /\ \A i \in 1 .. k : i \in DOMAIN w.recs /\ s[i] = w.recs[i]
  BY <1>1
<1> HIDE DEF s
<1>4. x.hdr = w.hdr
  BY <1>2 DEF Wals
<1>5. CASE x = [w EXCEPT !.recs = SubSeq(w.recs, 1, k), !.synced = k]
  <2>1. x.recs = s
    BY <1>5 DEF Wals, s
  <2>2. TornInside(x) => Wounded(w)
    BY <1>3, <2>1 DEF TornInside, Wounded
  <2>3. ~x.hdr => x.recs = <<>>
    BY <1>1, <1>3, <1>4, <2>1 DEF Tears
  <2> QED  BY <2>2, <2>3 DEF Tears
<1>6. CASE x = [w EXCEPT !.recs = SubSeq(w.recs, 1, k) \o <<Torn>>, !.synced = k + 1]
           /\ k < Len(w.recs)
  <2>1. x.recs = s \o <<Torn>>
    BY <1>6 DEF Wals, s
  <2>2. Len(x.recs) = k + 1 /\ DOMAIN x.recs = 1 .. k + 1 /\ \A i \in 1 .. k : x.recs[i] = s[i]
    BY <1>3, <2>1
  <2>3. TornInside(x) => Wounded(w)
    BY <1>3, <2>2 DEF TornInside, Wounded
  <2>4. x.hdr
    BY <1>1, <1>3, <1>4, <1>6 DEF Tears
  <2> QED  BY <2>3, <2>4 DEF Tears
<1> QED  BY <1>2, <1>5, <1>6

\* A fault more, or an end of the process, takes nothing back.
LEMMA MoreTears ==
    ASSUME NEW w, NEW n \in Nat, NEW m \in {1, 2}, Tears(w, n, m), NEW p \in Nat, p >= n,
           NEW q \in {1, 2}, q <= m \/ p > n
    PROVE  Tears(w, p, q)
BY DEF Tears, TornInside, Wounded

\* Every step keeps the count.
LEMMA NextTearInv == IInv /\ TearInv /\ [Next]_vars => TearInv'
<1> SUFFICES ASSUME IInv, TearInv, [Next]_vars PROVE TearInv'
  OBVIOUS
<1>1. /\ wal \in Wals /\ walPrev \in Wals /\ crashes \in Nat /\ fails \in Nat
      /\ Tears(wal, Faults, NeededBehind) /\ Tears(walPrev, Faults, NeededBehind)
      /\ NeededBehind \in {1, 2} /\ Faults \in Nat
  BY DEF IInv, TypeOK, WalTypes, BoundTypes, TearInv, NeededBehind, Faults
<1>2. Tears(NoWal, Faults', NeededBehind') /\ Tears([NoWal EXCEPT !.exists = TRUE], Faults', NeededBehind')
  BY DEF NoWal, Tears, Wounded, TornInside
<1> USE DEF Goto, Fails, IgnoredError, Proceeds, Returns, Opening,
            mvars, dvars, wvars, gvars, bounds
<1>3. ASSUME UNCHANGED crashes, fails' \in {fails, fails + 1},
             pc' \in UpSteps \/ pc \notin UpSteps
      PROVE  /\ Faults' \in Nat /\ Faults' >= Faults
             /\ NeededBehind' \in {1, 2} /\ NeededBehind' <= NeededBehind
             /\ Tears(wal, Faults', NeededBehind') /\ Tears(walPrev, Faults', NeededBehind')
  <2>1. Faults' \in Nat /\ Faults' >= Faults
    <3>1. crashes \in Nat /\ fails \in Nat /\ crashes' = crashes /\ (fails' = fails \/ fails' = fails + 1)
      BY <1>1, <1>3
    <3> QED  BY <3>1 DEF Faults
  <2>2. NeededBehind' \in {1, 2} /\ NeededBehind' <= NeededBehind
    <3>1. CASE pc \in UpSteps
      BY <1>3, <3>1 DEF NeededBehind
    <3>2. CASE pc \notin UpSteps
      BY <1>3, <3>2 DEF NeededBehind
    <3> QED  BY <3>1, <3>2
  <2>3. \A w : Tears(w, Faults, NeededBehind) => Tears(w, Faults', NeededBehind')
    <3> DEFINE n == Faults
               m == NeededBehind
               p == Faults'
               q == NeededBehind'
    <3>1. n \in Nat /\ p \in Nat /\ p >= n /\ m \in {1, 2} /\ q \in {1, 2} /\ q <= m
      BY <1>1, <2>1, <2>2
    <3> HIDE DEF n, m, p, q
    <3>2. \A w : Tears(w, n, m) => Tears(w, p, q)
      BY <3>1, MoreTears
    <3> QED  BY <3>2 DEF n, m, p, q
  <2> QED  BY <1>1, <2>1, <2>2, <2>3
\* A step that leaves the logs and what is attached alone.
<1>4. CASE /\ UNCHANGED <<wal, walPrev, crashes>> /\ fails' \in {fails, fails + 1}
           /\ pc' \in UpSteps \/ pc \notin UpSteps
           /\ attached' = attached /\ (attached => pc' \in UpSteps \ RotateSteps)
           /\ pc' \in {"WalSyncDir", "OpenSyncDir", "Corrupt"} => pc' = pc
  BY <1>3, <1>4 DEF TearInv
<1>5. CASE \E k \in Keys, e \in Writes : WriteAppend(k, e)
  <2>1. PICK k \in Keys, e \in Writes : WriteAppend(k, e)
    BY <1>5
  <2>2. /\ pc = "Idle" /\ pc' \in {"Idle", "WalSync"} /\ UNCHANGED <<walPrev, crashes, attached>>
        /\ fails' \in {fails, fails + 1}
    BY <2>1 DEF WriteAppend, Admits
  <2>3. pc' \in UpSteps \ RotateSteps /\ pc \in UpSteps /\ pc' \notin {"WalSyncDir", "OpenSyncDir", "Corrupt"}
    BY <2>2 DEF UpSteps, BusySteps, RotateSteps, FlushSteps, CompactSteps
  <2>4. CASE UNCHANGED wal
    BY <1>4, <2>2, <2>3, <2>4
  <2>5. CASE wal' # wal
    <3>1. PICK x \in Records \cup {Torn} :
                 /\ attached /\ wal' = [wal EXCEPT !.recs = Append(@, x)]
                 /\ x = Torn => fails' = fails + 1
      <4>1. [key |-> k, entry |-> e] \in Records /\ [key |-> k, entry |-> e] # Torn
        BY ConstantsAssumption DEF Records
      <4> QED  BY <2>1, <2>5, <4>1 DEF WriteAppend, Appended
    <3>2. wal.hdr /\ NeededBehind = 1 /\ NeededBehind' = 1
      BY <2>3, <3>1 DEF TearInv, NeededBehind
    <3>3. Faults' \in Nat /\ Faults' >= Faults /\ (x = Torn => Faults' >= Faults + 1)
      BY <1>1, <2>2, <3>1 DEF Faults
    <3>4. Tears(wal', Faults', 1)
      BY <1>1, <3>1, <3>2, <3>3, AppendTears
    <3>5. wal'.hdr
      BY <1>1, <3>1, <3>2 DEF Wals
    <3> QED  BY <1>3, <2>2, <2>3, <3>2, <3>4, <3>5 DEF TearInv
  <2> QED  BY <2>4, <2>5
<1>6. CASE WalSync \/ FlushSync \/ Close
  <2>1. /\ UNCHANGED <<walPrev, crashes, attached>> /\ fails' \in {fails, fails + 1}
        /\ wal' = wal \/ wal' = SyncedWal
        /\ pc' \in {"Idle", "SstWrite", "CmpWrite", "Closed"}
    BY <1>6 DEF WalSync, FlushSync, Close, maybe_compact, OpenSteps
  <2>2. pc' \in UpSteps \ RotateSteps /\ pc' \notin {"WalSyncDir", "OpenSyncDir", "Corrupt"}
    BY <2>1 DEF UpSteps, BusySteps, RotateSteps, FlushSteps, CompactSteps
  <2>3. wal'.recs = wal.recs /\ wal'.hdr = wal.hdr
    BY <1>1, <2>1 DEF SyncedWal, Wals
  <2>4. Tears(wal, Faults', NeededBehind') /\ Tears(walPrev, Faults', NeededBehind')
    BY <1>3, <2>1, <2>2
  <2>5. Tears(wal', Faults', NeededBehind')
    BY <2>3, <2>4 DEF Tears, Wounded, TornInside
  <2> QED  BY <2>1, <2>2, <2>3, <2>4, <2>5 DEF TearInv
<1>7. CASE WalRemove
  <2>1. CASE UNCHANGED wvars /\ pc' = "Idle"
    <3>1. UNCHANGED crashes /\ fails' \in {fails, fails + 1} /\ pc = "WalRemove"
      BY <1>7, <2>1 DEF WalRemove
    <3> QED  BY <1>4, <2>1, <3>1 DEF UpSteps, RotateSteps
  <2>2. CASE walPrev' = wal /\ wal' = NoWal /\ attached' = FALSE /\ pc' = "WalCreate"
    <3>1. UNCHANGED <<crashes, fails>> /\ pc' \in UpSteps
      BY <1>7, <2>2 DEF WalRemove, UpSteps, BusySteps, FlushSteps
    <3> QED  BY <1>2, <1>3, <2>2, <3>1 DEF TearInv
  <2> QED  BY <1>7, <2>1, <2>2 DEF WalRemove, OpenSteps
<1>8. CASE WalCreate
  <2>1. /\ UNCHANGED <<crashes, attached>> /\ fails' \in {fails, fails + 1}
        /\ pc \in {"WalCreate", "OpenCreate"} /\ ~attached
        /\ pc' \in UpSteps \/ pc \notin UpSteps
    BY <1>8 DEF WalCreate, TearInv, RotateSteps, UpSteps, BusySteps, FlushSteps, CompactSteps, OpenSteps
  <2>2. pc' \notin {"WalSyncDir", "OpenSyncDir", "Corrupt"}
    BY <1>8 DEF WalCreate, OpenSteps
  <2>3. CASE UNCHANGED <<wal, walPrev>>
    BY <1>4, <2>1, <2>2, <2>3
  <2>4. CASE /\ wal' = [NoWal EXCEPT !.exists = TRUE]
             /\ walPrev' = IF walDirty THEN walPrev ELSE wal
    BY <1>2, <1>3, <2>1, <2>2, <2>4 DEF TearInv
  <2> QED  BY <1>8, <2>3, <2>4 DEF WalCreate
<1>9. CASE WalHeader
  <2>1. /\ UNCHANGED <<walPrev, crashes, attached>> /\ fails' \in {fails, fails + 1}
        /\ pc \in {"WalHeader", "OpenHeader"} /\ ~attached
        /\ pc' \in UpSteps \/ pc \notin UpSteps
    BY <1>9 DEF WalHeader, TearInv, RotateSteps, UpSteps, BusySteps, FlushSteps, CompactSteps, OpenSteps
  <2>2. /\ wal' = wal \/ wal' = [wal EXCEPT !.hdr = TRUE]
        /\ pc' \in {"WalSyncDir", "OpenSyncDir"} => wal' = [wal EXCEPT !.hdr = TRUE]
        /\ pc' # "Corrupt"
    BY <1>9 DEF WalHeader, OpenSteps
  <2>3. wal'.recs = wal.recs /\ (wal'.hdr = wal.hdr \/ wal'.hdr)
        /\ (pc' \in {"WalSyncDir", "OpenSyncDir"} => wal'.hdr)
    BY <1>1, <2>2 DEF Wals
  <2>4. Tears(wal', Faults', NeededBehind') /\ Tears(walPrev, Faults', NeededBehind')
    BY <1>3, <2>1, <2>3 DEF Tears, Wounded, TornInside
  <2> QED  BY <2>1, <2>2, <2>3, <2>4 DEF TearInv
<1>10. CASE WalSyncDir \/ OpenSyncDir
  <2>1. /\ UNCHANGED <<wal, walPrev, crashes>> /\ fails' \in {fails, fails + 1}
        /\ pc \in {"WalSyncDir", "OpenSyncDir"} /\ wal.hdr
        /\ attached' => pc' \in UpSteps \ RotateSteps
        /\ pc' \in UpSteps \/ pc \notin UpSteps
        /\ pc' \notin {"WalSyncDir", "OpenSyncDir", "Corrupt"}
    BY <1>10 DEF WalSyncDir, OpenSyncDir, maybe_compact, TearInv, RotateSteps, UpSteps, BusySteps,
                 FlushSteps, CompactSteps, OpenSteps
  <2> QED  BY <1>3, <2>1 DEF TearInv
<1>11. CASE Crash
  <2>1. pc \in UpSteps \cup OpenSteps /\ pc' = "Down" /\ crashes' = crashes + 1 /\ UNCHANGED fails
        /\ walPrev' = NoWal /\ attached' = FALSE
        /\ wal' \in Survivors(wal) \cup {NoWal} \cup Survivors(walPrev)
    BY <1>11 DEF IInv, TypeOK, CallTypes, Steps, Crash, Dies
  <2>2. Faults' = Faults + 1 /\ NeededBehind' = 2
    BY <1>1, <2>1 DEF Faults, NeededBehind, UpSteps, BusySteps, FlushSteps, CompactSteps
  <2>3. Tears(wal', Faults', NeededBehind')
    BY <1>1, <1>2, <2>1, <2>2, SurvivorTears
  <2> QED  BY <1>2, <2>1, <2>3 DEF TearInv
<1>12. CASE Kill
  <2>1. pc' = "Down" /\ crashes' = crashes + 1 /\ UNCHANGED <<fails, wal, walPrev>> /\ attached' = FALSE
    BY <1>12 DEF Kill, Dies
  <2>2. Faults' \in Nat /\ Faults' > Faults /\ NeededBehind' \in {1, 2}
    BY <1>1, <2>1 DEF Faults, NeededBehind
  <2>3. Tears(wal, Faults', NeededBehind') /\ Tears(walPrev, Faults', NeededBehind')
    BY <1>1, <2>2, MoreTears
  <2> QED  BY <2>1, <2>3 DEF TearInv
<1>13. CASE Replay
  <2>1. pc = "Replay" /\ UNCHANGED <<wal, walPrev, crashes, fails>> /\ pc \notin UpSteps
    BY <1>13 DEF Replay, UpSteps, BusySteps, FlushSteps, CompactSteps
  <2>2. Tears(wal, Faults', NeededBehind') /\ Tears(walPrev, Faults', NeededBehind')
    BY <1>3, <2>1
  <2>3. /\ attached' => wal.hdr /\ pc' \in UpSteps \ RotateSteps
        /\ pc' \notin {"WalSyncDir", "OpenSyncDir"}
        /\ pc' = "Corrupt" => ~wal.hdr \/ TornInside(wal)
    BY <1>13, <2>1 DEF Replay, TearInv, UpSteps, RotateSteps
  <2> QED  BY <2>1, <2>2, <2>3 DEF TearInv, TornInside
<1>14. CASE Discover
  BY <1>4, <1>14 DEF Discover, TearInv, UpSteps, BusySteps, FlushSteps, CompactSteps
<1>15. CASE Flush \/ SstWrite \/ SstRename \/ SstSyncDir \/ SstOpen
  <2>1. /\ UNCHANGED <<wal, walPrev, crashes, attached>> /\ fails' \in {fails, fails + 1}
        /\ pc' \in {"FlushSync", "SstWrite", "SstRename", "SstSyncDir", "SstOpen", "WalRemove", "Idle"}
    BY <1>15 DEF Flush, SstWrite, SstRename, SstSyncDir, SstOpen, OpenSteps
  <2>2. pc' \in UpSteps \ RotateSteps /\ pc' \notin {"WalSyncDir", "OpenSyncDir", "Corrupt"}
    BY <2>1 DEF UpSteps, BusySteps, RotateSteps, FlushSteps, CompactSteps
  <2> QED  BY <1>4, <2>1, <2>2
<1>16. CASE CompactStep
  <2>1. /\ UNCHANGED <<wal, walPrev, crashes, attached>> /\ fails' \in {fails, fails + 1}
        /\ pc' \in CompactSteps \cup {"Idle"}
    BY <1>16 DEF CompactStep, CmpWrite, CmpRename, CmpSyncDir, CmpOpen, Unlink, UnlinkedAll,
       CmpFinish, OpenSteps, CompactSteps
  <2>2. pc' \in UpSteps \ RotateSteps /\ pc' \notin {"WalSyncDir", "OpenSyncDir", "Corrupt"}
    BY <2>1 DEF UpSteps, BusySteps, RotateSteps, FlushSteps, CompactSteps
  <2> QED  BY <1>4, <2>1, <2>2
<1>17. CASE UNCHANGED vars
  BY <1>4, <1>17 DEF vars, TearInv
<1> QED
  BY <1>5, <1>6, <1>7, <1>8, <1>9, <1>10, <1>11, <1>12, <1>13, <1>14, <1>15, <1>16, <1>17
     DEF Next, Client, CallStep, OpenStep, FlushStep

\* Engine::open refuses a log with its header only after two faults, and one
\* without a header never held a record, for power failures, deaths of the
\* process, I/O errors and torn writes anywhere.
THEOREM RefusalsTakeTwoFaults == Spec => []RefusalTakesTwoFaults
<1>1. Init => TearInv
  BY DEF Init, TearInv, Tears, Wounded, TornInside, NoWal
<1>2. IInv /\ TearInv => RefusalTakesTwoFaults
  BY DEF TearInv, Tears, RefusalTakesTwoFaults, Faults, NeededBehind, UpSteps, BusySteps, FlushSteps,
         CompactSteps
<1> QED  BY <1>1, <1>2, InitInv, NextInv, NextTearInv, PTL DEF Spec

-----------------------------------------------------------------------------
(* The size of level 0.  What discovery would list after some crash counts  *)
(* beside what is listed: a flush adds one table to them, a compaction that *)
(* reaches its output leaves none, and a call that a crash or an error cuts *)
(* off in between has raised the bound.                                     *)

\* The instances in which L0Bounded holds: puts only, so that no compaction
\* comes out empty; no death of the process alone; and a rotation that always
\* gets its new log.  The README says what happens outside of them.
BoundModel ==
    /\ Writes \subseteq Values /\ Trigger > 0
    /\ KillAt = {} /\ "WalCreate" \notin FailAt

\* No delete anywhere: neither in the log, nor in memory, nor in a table.
PutsOnly(w) == \A i \in DOMAIN w.recs : w.recs[i] # Torn => w.recs[i].entry # Tombstone
NoDeletes ==
    /\ \A f \in Files, k \in Keys : disk[f][k] # Tombstone /\ dur[f][k] # Tombstone
    /\ \A k \in Keys : memtable[k] # Tombstone
    /\ req.entry # Tombstone
    /\ PutsOnly(wal) /\ PutsOnly(walPrev)

\* So a compaction has something to write, and a flush a log to remove.
NeverEmpty ==
    /\ pc \notin {"DropUnlink", "DropFinish"}
    /\ pc = "CmpWrite" => l0 # <<>>
    /\ pc \in UpSteps \ {"WalCreate"} => wal.exists
    /\ pc \in {"OpenHeader", "OpenSyncDir"} => wal.exists

\* The ids of a level that a crash may find and those that every crash finds;
\* of level 1 the latter keep what is below them dead.
DurAt(level) == {i \in Ids : dur[<<level, i>>] # NoTable}
There(level) == IdsAt(level) \cup DurAt(level)
Everywhere(level) == IdsAt(level) \cap DurAt(level)
Safe == Everywhere(1)

\* The level 0 tables that a discovery after some crash may list, and with
\* them those that are listed or about to be.
Owed == {i \in There(0) : \A j \in Safe : i > j}
Listed == {l0[i] : i \in DOMAIN l0}
Opening0 == IF pc \in {"SstSyncDir", "SstOpen"} THEN {next_sst_id} ELSE {}
Held == Listed \cup Owed \cup Opening0

Serving == Steps \ {"Down", "Corrupt"}

\* The steps of a call that has used its id for a table, and of Engine::open.
FreshSteps == {"WalRemove", "WalCreate", "WalHeader", "WalSyncDir", "CmpUnlink", "CmpFinish"}

\* Every table is below the next id, or has it if a step failed after its
\* rename; a .tmp file likewise.
IdsBelow ==
    /\ pc \in Serving => \A i \in There(0) \cup There(1) : i <= next_sst_id
    /\ pc \in FreshSteps \cup OpenSteps => \A i \in There(0) \cup There(1) : i < next_sst_id
    /\ pc \in Serving => \A f \in tmps : f[2] <= next_sst_id
    /\ pc \in FreshSteps => \A f \in tmps : f[2] < next_sst_id
    /\ pc = "Down" => \A f \in tmps : f[2] <= NextId

\* Every crash finds the table with the last id given out, so no later open
\* gives it out again.
LastIdKept == pc \in Serving =>
    next_sst_id = 0 \/ next_sst_id - 1 \in Everywhere(0) \cup Everywhere(1)

\* A new table is durable before it is listed; the output of a compaction is
\* the only table left in the levels when the inputs go.
OutputsDurable ==
    /\ pc = "SstOpen" => next_sst_id \in DurAt(0)
    /\ pc = "CmpOpen" => next_sst_id \in DurAt(1)
    /\ pc \in {"CmpUnlink", "CmpFinish"} =>
          l0 = <<>> /\ next_sst_id # 0 /\ l1 = <<next_sst_id - 1>> /\ next_sst_id - 1 \in Safe

\* A running engine lists what discovery would bring back.
OwedListed ==
    /\ pc \in Serving => Owed \subseteq Listed \cup {next_sst_id}
    /\ pc \in OpenSteps => Owed \subseteq Listed

\* Until the engine runs, the two directories differ in tables that discovery
\* ignores.
LeftoversDead == pc \in OpenSteps \cup {"Down"} =>
    \A level \in {0, 1} :
        /\ IdsAt(level) \subseteq DurAt(level)
        /\ \A i \in DurAt(level) \ IdsAt(level) : \E j \in Safe : i <= j

\* Where the call may end without an error, or add a table; the second for a
\* .tmp file that keeps the compaction from being begun.
LowSteps == {"Idle", "Closed", "WalSync", "FlushSync", "SstWrite", "SstRename",
             "CmpUnlink", "CmpFinish", "Down"} \cup OpenSteps
Low == pc \in LowSteps \/ (pc = "CmpWrite" /\ NewL1 \in tmps)
Cut == Trigger + crashes + fails
HeldBounded ==
    /\ Cardinality(Held) <= Cut
    /\ Low => Cardinality(Held) < Cut

FilesInv == IdsBelow /\ LastIdKept /\ OutputsDurable /\ OwedListed /\ LeftoversDead
BoundInv == FInv /\ NoDeletes /\ NeverEmpty /\ FilesInv /\ HeldBounded

-----------------------------------------------------------------------------
(* No deletes                                                              *)

\* The steps that change a table, the durable directory, the log, the
\* memtable or the request.
LEMMA DiskSteps ==
    ASSUME [Next]_vars
    PROVE  disk' = disk \/ SstRename \/ CmpRename \/ Unlink \/ Discover \/ Crash
<1> USE DEF mvars, dvars, wvars, vars
<1>1. CASE Client
  BY <1>1 DEF Client, WriteAppend, Flush, Close
<1>2. CASE CallStep \/ OpenStep
  BY <1>2 DEF CallStep, OpenStep, FlushStep, CompactStep, WalSync, FlushSync, SstWrite, SstSyncDir,
              SstOpen, WalRemove, WalCreate, WalHeader, WalSyncDir, CmpWrite, CmpSyncDir, CmpOpen,
              UnlinkedAll, CmpFinish, Replay, OpenSyncDir
<1>3. CASE Kill \/ UNCHANGED vars
  BY <1>3 DEF Kill
<1> QED  BY <1>1, <1>2, <1>3 DEF Next

LEMMA DurSteps ==
    ASSUME [Next]_vars
    PROVE  dur' = dur \/ (dur' = disk /\ disk' = disk) \/ Crash
<1> USE DEF mvars, dvars, wvars, vars, SyncDir
<1>1. CASE Client
  BY <1>1 DEF Client, WriteAppend, Flush, Close
<1>2. CASE CallStep \/ OpenStep
  BY <1>2 DEF CallStep, OpenStep, FlushStep, CompactStep, WalSync, FlushSync, SstWrite, SstRename,
              SstSyncDir, SstOpen, WalRemove, WalCreate, WalHeader, WalSyncDir, CmpWrite, CmpRename,
              CmpSyncDir, CmpOpen, Unlink, UnlinkedAll, CmpFinish, Replay, OpenSyncDir
<1>3. CASE Kill \/ Discover \/ UNCHANGED vars
  BY <1>3 DEF Kill, Discover
<1> QED  BY <1>1, <1>2, <1>3 DEF Next

LEMMA MemtableSteps ==
    ASSUME [Next]_vars
    PROVE  memtable' = memtable \/ WalSync \/ Replay \/ memtable' = NoTable
<1> USE DEF mvars, dvars, wvars, vars, Dies
<1>1. CASE Client
  BY <1>1 DEF Client, WriteAppend, Flush, Close
<1>2. CASE CallStep \/ OpenStep
  BY <1>2 DEF CallStep, OpenStep, FlushStep, CompactStep, FlushSync, SstWrite, SstRename,
              SstSyncDir, SstOpen, WalRemove, WalCreate, WalHeader, WalSyncDir, CmpWrite, CmpRename,
              CmpSyncDir, CmpOpen, Unlink, UnlinkedAll, CmpFinish, OpenSyncDir
<1>3. CASE Kill \/ Crash \/ Discover \/ UNCHANGED vars
  BY <1>3 DEF Kill, Crash, Discover
<1> QED  BY <1>1, <1>2, <1>3 DEF Next

LEMMA RequestSteps ==
    ASSUME [Next]_vars
    PROVE  \/ req' = req \/ req' = NoReq
           \/ \E k \in Keys, e \in Writes : req' = [key |-> k, entry |-> e]
<1> USE DEF mvars, dvars, wvars, vars, Dies
<1>1. CASE Client
  BY <1>1 DEF Client, WriteAppend, Flush, Close
<1>2. CASE CallStep \/ OpenStep
  BY <1>2 DEF CallStep, OpenStep, FlushStep, CompactStep, WalSync, FlushSync, SstWrite, SstRename,
              SstSyncDir, SstOpen, WalRemove, WalCreate, WalHeader, WalSyncDir, CmpWrite, CmpRename,
              CmpSyncDir, CmpOpen, Unlink, UnlinkedAll, CmpFinish, Replay, OpenSyncDir
<1>3. CASE Kill \/ Crash \/ Discover \/ UNCHANGED vars
  BY <1>3 DEF Kill, Crash, Discover
<1> QED  BY <1>1, <1>2, <1>3 DEF Next

LEMMA LogSteps ==
    ASSUME [Next]_vars
    PROVE  /\ \/ wal' = wal \/ wal' = SyncedWal \/ wal' = NoWal \/ wal' = [NoWal EXCEPT !.exists = TRUE]
              \/ wal' = [wal EXCEPT !.hdr = TRUE] \/ wal' = Appended(Torn)
              \/ \E k \in Keys, e \in Writes : wal' = Appended([key |-> k, entry |-> e])
              \/ wal' \in Survivors(wal) \/ wal' \in Survivors(walPrev)
           /\ walPrev' = walPrev \/ walPrev' = wal \/ walPrev' = NoWal
<1> USE DEF mvars, dvars, wvars, vars
<1>1. CASE Client
  BY <1>1 DEF Client, WriteAppend, Flush, Close
<1>2. CASE CallStep \/ OpenStep
  BY <1>2 DEF CallStep, OpenStep, FlushStep, CompactStep, WalSync, FlushSync, SstWrite, SstRename,
              SstSyncDir, SstOpen, WalRemove, WalCreate, WalHeader, WalSyncDir, CmpWrite, CmpRename,
              CmpSyncDir, CmpOpen, Unlink, UnlinkedAll, CmpFinish, Replay, OpenSyncDir
<1>3. CASE Kill \/ Discover \/ UNCHANGED vars
  BY <1>3 DEF Kill, Discover
<1>4. CASE Crash
  <2>1. wal' \in Survivors(wal) \cup (IF walDirty THEN {NoWal} \cup Survivors(walPrev) ELSE {})
        /\ walPrev' = NoWal
    BY <1>4 DEF Crash
  <2> HIDE DEF vars, dvars, wvars, mvars
  <2> QED  BY <2>1
<1> QED  BY <1>1, <1>2, <1>3, <1>4 DEF Next

\* What a crash leaves of a log of puts is a log of puts.
LEMMA CutPuts ==
    ASSUME NEW w \in Wals, PutsOnly(w), NEW x \in Survivors(w)
    PROVE  PutsOnly(x)
<1>1. w.recs \in Seq(Records \cup {Torn}) /\ w.synced \in Nat /\ Len(w.recs) \in Nat
  BY DEF Wals
<1>2. PICK n \in w.synced .. Len(w.recs) :
         \/ x = [w EXCEPT !.recs = SubSeq(w.recs, 1, n), !.synced = n]
         \/ x = [w EXCEPT !.recs = SubSeq(w.recs, 1, n) \o <<Torn>>, !.synced = n + 1]
  <2>1. \A n \in w.synced .. Len(w.recs) - 1 : n \in w.synced .. Len(w.recs)
    BY <1>1
  <2> QED  BY <2>1 DEF Survivors
<1>3. /\ SubSeq(w.recs, 1, n) \in Seq(Records \cup {Torn}) /\ Len(SubSeq(w.recs, 1, n)) = n
      /\ \A i \in 1 .. n : i \in DOMAIN w.recs /\ SubSeq(w.recs, 1, n)[i] = w.recs[i]
      /\ n \in Nat
  BY <1>1
<1>4. x.recs = SubSeq(w.recs, 1, n) \/ x.recs = SubSeq(w.recs, 1, n) \o <<Torn>>
  BY <1>2 DEF Wals
<1>5. CASE x.recs = SubSeq(w.recs, 1, n)
  BY <1>3, <1>5 DEF PutsOnly
<1>6. CASE x.recs = SubSeq(w.recs, 1, n) \o <<Torn>>
  <2> DEFINE s == SubSeq(w.recs, 1, n)
  <2>1. s \in Seq(Records \cup {Torn}) /\ Len(s) = n
    BY <1>3
  <2> HIDE DEF s
  <2>2. /\ DOMAIN (s \o <<Torn>>) = 1 .. n + 1
        /\ (s \o <<Torn>>)[n + 1] = Torn
        /\ \A i \in 1 .. n : (s \o <<Torn>>)[i] = s[i]
    BY <1>3, <2>1
  <2>3. \A i \in 1 .. n + 1 : i = n + 1 \/ i \in 1 .. n
    BY <1>3
  <2> QED  BY <1>3, <1>6, <2>2, <2>3 DEF PutsOnly, s
<1> QED  BY <1>4, <1>5, <1>6

\* A put appended to it, or part of one, leaves it one.
LEMMA AppendPuts ==
    ASSUME NEW w \in Wals, PutsOnly(w), NEW r \in Records \cup {Torn}, r # Torn => r.entry # Tombstone
    PROVE  PutsOnly([w EXCEPT !.recs = Append(@, r)])
<1>1. w.recs \in Seq(Records \cup {Torn})
  BY DEF Wals
<1>2. [w EXCEPT !.recs = Append(@, r)].recs = Append(w.recs, r)
  BY DEF Wals
<1>3. /\ DOMAIN Append(w.recs, r) = 1 .. Len(w.recs) + 1 /\ Append(w.recs, r)[Len(w.recs) + 1] = r
      /\ \A i \in 1 .. Len(w.recs) : Append(w.recs, r)[i] = w.recs[i]
      /\ DOMAIN w.recs = 1 .. Len(w.recs) /\ Len(w.recs) \in Nat
  BY <1>1
<1>4. \A i \in 1 .. Len(w.recs) + 1 : i = Len(w.recs) + 1 \/ i \in 1 .. Len(w.recs)
  BY <1>3
<1> QED  BY <1>2, <1>3, <1>4 DEF PutsOnly

\* Nothing replayed from it is a delete.
LEMMA ReplayedPuts ==
    ASSUME NEW w \in Wals, PutsOnly(w), NEW k \in Keys
    PROVE  ReplayedCell(w, k) # Tombstone
<1> DEFINE hits == {i \in 1 .. ReadableLen(w) : w.recs[i].key = k}
<1>1. ReadableLen(w) \in 0 .. Len(w.recs) /\ \A i \in 1 .. ReadableLen(w) : w.recs[i] \in Records
  BY ReadableRecords
<1>2. Len(w.recs) \in Nat /\ DOMAIN w.recs = 1 .. Len(w.recs)
  BY DEF Wals
<1>3. \A i \in hits : i \in DOMAIN w.recs /\ w.recs[i] # Torn
  BY <1>1, <1>2, ConstantsAssumption
<1>4. hits \in SUBSET (0 .. Len(w.recs))
  BY <1>1, <1>2
<1>5. ReplayedCell(w, k) = IF hits = {} THEN Missing ELSE w.recs[Max(hits)].entry
  BY DEF ReplayedCell
<1> HIDE DEF hits
<1>6. hits # {} => Max(hits) \in hits
  BY <1>2, <1>4, MaxOfNats
<1> QED  BY <1>3, <1>5, <1>6, ConstantsAssumption DEF PutsOnly

\* With puts only, no delete ever reaches the files or the memory.
LEMMA NextNoDeletes ==
    ASSUME BoundModel, TypeOK, [Next]_vars, NoDeletes
    PROVE  NoDeletes'
<1>0. Tombstone \notin Values /\ Tombstone # Missing /\ Writes \subseteq Values
  BY ConstantsAssumption DEF BoundModel
<1>1. /\ DirectoryTypes /\ WalTypes /\ MemoryTypes /\ CallTypes
      /\ wal \in Wals /\ walPrev \in Wals /\ PutsOnly(wal) /\ PutsOnly(walPrev)
      /\ \A f \in Files, k \in Keys : disk[f][k] # Tombstone /\ dur[f][k] # Tombstone
      /\ \A k \in Keys : memtable[k] # Tombstone
  BY DEF TypeOK, WalTypes, NoDeletes
<1>2. \A f \in Files, k \in Keys : disk'[f][k] # Tombstone
  <2> SUFFICES ASSUME NEW f \in Files, NEW k \in Keys PROVE disk'[f][k] # Tombstone
    OBVIOUS
  <2>0. NoTable[k] # Tombstone
    BY <1>0 DEF NoTable
  <2>1. CASE SstRename
    BY <1>1, <2>1 DEF SstRename, DirectoryTypes
  <2>2. CASE CmpRename
    <3>1. CompactionOutput[k] # Tombstone
      BY <1>0 DEF CompactionOutput, DropTombstone
    <3> QED  BY <1>1, <2>2, <3>1 DEF CmpRename, DirectoryTypes
  <2>3. CASE Unlink
    BY <1>1, <2>0, <2>3 DEF Unlink, Unlinked
  <2>4. CASE Discover
    BY <1>1, <2>0, <2>4 DEF Discover, Keeping
  <2>5. CASE Crash
    BY <1>1, <2>5 DEF Crash
  <2> QED  BY <1>1, <2>1, <2>2, <2>3, <2>4, <2>5, DiskSteps
<1>3. \A f \in Files, k \in Keys : dur'[f][k] # Tombstone
  BY <1>1, <1>2, DurSteps DEF Crash
<1>4. \A k \in Keys : memtable'[k] # Tombstone
  <2> SUFFICES ASSUME NEW k \in Keys PROVE memtable'[k] # Tombstone
    OBVIOUS
  <2>1. CASE WalSync
    BY <1>1, <2>1 DEF WalSync, MemoryTypes, Tables, NoDeletes
  <2>2. CASE Replay
    BY <1>1, <2>2, ReplayedPuts DEF Replay, replay_wal
  <2> QED  BY <1>0, <1>1, <2>1, <2>2, MemtableSteps DEF NoTable
<1>5. req'.entry # Tombstone
  BY <1>0, RequestSteps DEF NoDeletes, NoReq
<1>6. PutsOnly(wal)'
  <2>1. CASE wal' \in Survivors(wal)
    BY <1>1, <2>1, CutPuts DEF PutsOnly
  <2>2. CASE wal' \in Survivors(walPrev)
    BY <1>1, <2>2, CutPuts DEF PutsOnly
  <2>3. CASE \E r \in Records \cup {Torn} : (r # Torn => r.entry # Tombstone) /\ wal' = Appended(r)
    BY <1>1, <2>3, AppendPuts DEF Appended, PutsOnly
  <2>4. CASE \E k \in Keys, e \in Writes : wal' = Appended([key |-> k, entry |-> e])
    <3>1. PICK k \in Keys, e \in Writes : wal' = Appended([key |-> k, entry |-> e])
      BY <2>4
    <3>2. [key |-> k, entry |-> e] \in Records /\ [key |-> k, entry |-> e].entry # Tombstone
      BY <1>0 DEF Records, Entries
    <3> QED  BY <2>3, <3>1, <3>2
  <2>5. CASE wal' = SyncedWal \/ wal' = [wal EXCEPT !.hdr = TRUE] \/ wal' = wal
    <3>1. wal'.recs = wal.recs
      BY <1>1, <2>5 DEF SyncedWal, Wals
    <3> QED  BY <1>1, <3>1 DEF PutsOnly
  <2>6. CASE wal' = NoWal \/ wal' = [NoWal EXCEPT !.exists = TRUE]
    <3>1. wal'.recs = <<>>
      BY <2>6 DEF NoWal
    <3> QED  BY <3>1 DEF PutsOnly
  <2>7. Appended(Torn) = Appended(Torn) /\ Torn \in Records \cup {Torn}
    OBVIOUS
  <2> QED  BY <2>1, <2>2, <2>3, <2>4, <2>5, <2>6, <2>7, LogSteps
<1>7. PutsOnly(walPrev)'
  <2>1. PutsOnly(NoWal)
    BY DEF PutsOnly, NoWal
  <2> QED  BY <1>1, <2>1, LogSteps DEF PutsOnly
<1> QED  BY <1>2, <1>3, <1>4, <1>5, <1>6, <1>7 DEF NoDeletes

\* A compaction of tables without deletes has something to write.
LEMMA OutputWritten ==
    ASSUME FInv, NoDeletes, pc = "CmpWrite", l0 # <<>>
    PROVE  CompactionOutput # NoTable
<1> DEFINE f == <<0, l0[1]>>
<1>1. MemoryTypes /\ DirectoryTypes /\ ReadersOnDisk
  BY DEF FInv, IInv, TypeOK
<1>2. f \in Registered /\ Registered \in SUBSET Files
  <2>1. 1 \in DOMAIN l0
    BY <1>1 DEF MemoryTypes
  <2> QED  BY <1>1, <2>1, RegisteredFiles DEF Registered
<1>3. disk[f] # NoTable /\ disk[f] \in Tables
  BY <1>1, <1>2 DEF ReadersOnDisk, DirectoryTypes
<1>4. PICK k \in Keys : disk[f][k] # Missing
  BY <1>3 DEF Tables, NoTable
<1>5. IsNewest(disk, Registered, k, CellIn(disk, Registered, k))
  BY <1>2, CellInIsNewest
<1>6. NewestCell(Registered, k) = CellIn(disk, Registered, k)
  BY DEF NewestCell, CellIn
<1>7. NewestCell(Registered, k) # Missing /\ NewestCell(Registered, k) # Tombstone
  BY <1>2, <1>4, <1>5, <1>6 DEF IsNewest, NoDeletes
<1>8. CompactionOutput[k] # Missing
  BY <1>7 DEF CompactionOutput, DropTombstone
<1> QED  BY <1>8 DEF NoTable

\* What maybe_compact decides.
LEMMA MaybeCompacts ==
    ASSUME BoundModel, MemoryTypes
    PROVE  /\ maybe_compact(l0) \in {"Idle", "CmpWrite"}
           /\ maybe_compact(l0) = "CmpWrite" => l0 # <<>>
           /\ maybe_compact(l0) = "Idle" => Len(l0) < Trigger
<1>1. Len(l0) \in Nat /\ Trigger \in Nat /\ Trigger > 0
  BY ConstantsAssumption DEF BoundModel, MemoryTypes
<1>2. l0 = <<>> => Len(l0) = 0
  OBVIOUS
<1>3. maybe_compact(l0) = IF Len(l0) < Trigger THEN "Idle" ELSE "CmpWrite"
  BY DEF maybe_compact
<1> HIDE DEF maybe_compact
<1> QED  BY <1>1, <1>2, <1>3

\* So no compaction removes its inputs without an output, and none is begun
\* without an input; wal.log is missing in a rotation only.
LEMMA NextNeverEmpty ==
    ASSUME BoundModel, FInv, [Next]_vars, NoDeletes, NeverEmpty
    PROVE  NeverEmpty'
<1>1. /\ MemoryTypes /\ WalTypes /\ wal \in Wals
      /\ pc \notin {"DropUnlink", "DropFinish"}
      /\ pc = "CmpWrite" => l0 # <<>>
      /\ pc \in UpSteps \ {"WalCreate"} => wal.exists
      /\ pc \in {"OpenHeader", "OpenSyncDir"} => wal.exists
  BY DEF FInv, IInv, TypeOK, WalTypes, NeverEmpty
<1>2. /\ maybe_compact(l0) \in {"Idle", "CmpWrite"}
      /\ maybe_compact(l0) = "CmpWrite" => l0 # <<>>
  BY <1>1, MaybeCompacts
<1>3. ~CanFail("WalCreate") /\ ~Kill
  BY DEF CanFail, BoundModel, Kill, Dies
<1>4. /\ SyncedWal.exists = wal.exists /\ \A x : Appended(x).exists = wal.exists
      /\ [wal EXCEPT !.hdr = TRUE].exists = wal.exists
  BY <1>1 DEF Wals, SyncedWal, Appended
<1> HIDE DEF maybe_compact, SyncedWal, Appended
<1> USE DEF Goto, Fails, IgnoredError, Proceeds, Returns, Opening, NeverEmpty,
            mvars, dvars, wvars, gvars, bounds,
            FlushSteps, CompactSteps, OpenSteps, BusySteps, UpSteps
<1>5. CASE \E k \in Keys, e \in Writes : WriteAppend(k, e)
  BY <1>1, <1>4, <1>5 DEF WriteAppend, Admits
<1>6. CASE Flush \/ Close
  BY <1>1, <1>4, <1>6 DEF Flush, Close, Admits
<1>7. CASE WalSync
  BY <1>1, <1>2, <1>4, <1>7 DEF WalSync
<1>8. CASE FlushSync
  BY <1>1, <1>2, <1>4, <1>8 DEF FlushSync
<1>9. CASE SstWrite \/ SstRename \/ SstSyncDir \/ SstOpen
  BY <1>1, <1>9 DEF SstWrite, SstRename, SstSyncDir, SstOpen
<1>10. CASE WalRemove
  BY <1>1, <1>10 DEF WalRemove
<1>11. CASE WalCreate
  BY <1>1, <1>3, <1>11 DEF WalCreate, NoWal
<1>12. CASE WalHeader
  BY <1>1, <1>4, <1>12 DEF WalHeader
<1>13. CASE WalSyncDir
  BY <1>1, <1>2, <1>13 DEF WalSyncDir
<1>14. CASE CmpWrite
  <2>1. CompactionOutput # NoTable
    BY <1>1, <1>14, OutputWritten DEF CmpWrite
  <2> QED  BY <1>1, <1>14, <2>1 DEF CmpWrite
<1>15. CASE CmpRename \/ CmpSyncDir \/ CmpOpen
  BY <1>1, <1>15 DEF CmpRename, CmpSyncDir, CmpOpen
<1>16. CASE Unlink \/ UnlinkedAll \/ CmpFinish
  BY <1>1, <1>16 DEF Unlink, UnlinkedAll, CmpFinish
<1>17. CASE Crash \/ Discover
  BY <1>1, <1>17 DEF Crash, Dies, Discover
<1>18. CASE Replay \/ OpenSyncDir
  BY <1>1, <1>18 DEF Replay, OpenSyncDir
<1>19. CASE UNCHANGED vars
  BY <1>1, <1>19 DEF vars
<1> QED
  BY <1>3, <1>5, <1>6, <1>7, <1>8, <1>9, <1>10, <1>11, <1>12, <1>13, <1>14, <1>15, <1>16, <1>17,
     <1>18, <1>19 DEF Next, Client, CallStep, OpenStep, FlushStep, CompactStep

-----------------------------------------------------------------------------
(* The tables a crash may bring back                                       *)

\* A step that leaves no new table, and none less that every crash finds.
Narrows ==
    \A level \in {0, 1} :
        There(level)' \subseteq There(level) /\ Everywhere(level) \subseteq Everywhere(level)'

\* Such a step: the cached directory kept, the durable one kept or made equal.
LEMMA KeptNarrows ==
    ASSUME disk' = disk, dur' = dur \/ dur' = disk
    PROVE  Narrows /\ \A level \in {0, 1} : IdsAt(level)' = IdsAt(level)
BY DEF Narrows, There, Everywhere, IdsAt, DurAt

\* It brings back no more of level 0.
LEMMA OwedNarrows == ASSUME Narrows PROVE Owed' \subseteq Owed
BY DEF Narrows, Owed, Safe

\* The next id is above every id of a set, and the next of its largest.
LEMMA NextIdOf ==
    ASSUME NEW S \in SUBSET Ids, NEW n, n = IF S = {} THEN 0 ELSE Max(S) + 1
    PROVE  n \in 0 .. MaxId + 1 /\ (\A i \in S : i < n) /\ (n = 0 \/ n - 1 \in S)
<1>1. MaxId \in Nat /\ S \in SUBSET (0 .. MaxId)
  BY ConstantsAssumption DEF Ids
<1>2. CASE S = {}
  BY <1>1, <1>2
<1>3. CASE S # {}
  <2>1. Max(S) \in S /\ \A y \in S : y <= Max(S)
    BY <1>1, <1>3, MaxOfNats
  <2> DEFINE m == Max(S)
  <2>2. m \in 0 .. MaxId /\ m \in S /\ \A y \in S : y <= m
    BY <1>1, <2>1
  <2>3. n = m + 1
    BY <1>3
  <2> HIDE DEF m
  <2> QED  BY <1>1, <2>2, <2>3
<1> QED  BY <1>2, <1>3

\* With the last id given out on disk, a later open starts no lower.
LEMMA NextIdCovers ==
    ASSUME NEW S \in SUBSET Ids, NEW n, n = IF S = {} THEN 0 ELSE Max(S) + 1,
           NEW m \in Nat, m = 0 \/ m - 1 \in S
    PROVE  m <= n
<1>1. n \in Nat /\ \A i \in S : i < n
  <2>1. MaxId \in Nat
    BY ConstantsAssumption
  <2> QED  BY <2>1, NextIdOf
<1> QED  BY <1>1

\* A step that changes neither levels nor tables, but for making the directory
\* durable.
PlainStep ==
    /\ UNCHANGED <<l0, l1, next_sst_id>>
    /\ disk' = disk /\ (dur' = dur \/ dur' = disk)
    /\ pc \in Serving /\ pc' \in Serving \cup {"Corrupt"}
    /\ pc' \in OpenSteps => pc \in OpenSteps /\ dur' = dur
    /\ pc' \in FreshSteps => pc \in FreshSteps
    /\ \A f \in tmps' : f \in tmps \/ (f[2] = next_sst_id /\ pc' \notin FreshSteps)
    /\ pc' = "SstSyncDir" => pc = "SstSyncDir"
    /\ pc' = "SstOpen" => (pc = "SstOpen" /\ dur' = dur) \/ (pc = "SstSyncDir" /\ dur' = disk)
    /\ pc' = "CmpOpen" => (pc = "CmpOpen" /\ dur' = dur) \/ (pc = "CmpSyncDir" /\ dur' = disk)
    /\ pc' \in {"CmpUnlink", "CmpFinish"} => pc \in {"CmpUnlink", "CmpFinish"}

\* It preserves the invariant of the files.
LEMMA PlainFiles == ASSUME FInv, FilesInv, PlainStep PROVE FilesInv'
<1>1. Narrows /\ Owed' \subseteq Owed /\ \A level \in {0, 1} : IdsAt(level)' = IdsAt(level)
  BY KeptNarrows, OwedNarrows DEF PlainStep
<1>2. /\ There(0)' \subseteq There(0) /\ There(1)' \subseteq There(1) /\ Safe \subseteq Safe'
      /\ Everywhere(0) \subseteq Everywhere(0)' /\ Everywhere(1) \subseteq Everywhere(1)'
  BY <1>1 DEF Narrows, Safe
<1>3. next_sst_id \in Nat /\ next_sst_id' = next_sst_id /\ l0' = l0 /\ l1' = l1
  BY DEF FInv, IInv, TypeOK, MemoryTypes, PlainStep
<1>4. "Down" \notin Serving /\ "Corrupt" \notin Serving /\ "Down" \notin OpenSteps
      /\ OpenSteps \subseteq Serving /\ FreshSteps \subseteq Serving /\ FreshSteps \cap OpenSteps = {}
  BY DEF Serving, Steps, OpenSteps, FreshSteps, UpSteps, BusySteps, FlushSteps, CompactSteps
<1>5. pc \in {"SstSyncDir", "CmpSyncDir"} => next_sst_id \in Ids
  BY <1>3, ConstantsAssumption DEF FInv, IInv, IdRoom, Ids, BusySteps, FlushSteps, CompactSteps
<1>6. IdsBelow'
  <2>1. /\ pc \in Serving /\ pc' # "Down" /\ \A i \in There(0) \cup There(1) : i <= next_sst_id
        /\ \A f \in tmps : f[2] <= next_sst_id
        /\ pc \in FreshSteps \cup OpenSteps => \A i \in There(0) \cup There(1) : i < next_sst_id
        /\ pc \in FreshSteps => \A f \in tmps : f[2] < next_sst_id
    BY <1>4 DEF FilesInv, IdsBelow, PlainStep
  <2>2. \A f \in tmps' : f[2] <= next_sst_id
    BY <1>3, <2>1 DEF PlainStep
  <2>3. pc' \in FreshSteps => \A f \in tmps' : f[2] < next_sst_id
    BY <2>1 DEF PlainStep
  <2>4. pc' \in FreshSteps \cup OpenSteps => pc \in FreshSteps \cup OpenSteps
    BY DEF PlainStep
  <2> QED  BY <1>2, <1>3, <2>1, <2>2, <2>3, <2>4 DEF IdsBelow
<1>7. LastIdKept'
  BY <1>2, <1>3 DEF LastIdKept, FilesInv, PlainStep
<1>8. OutputsDurable'
  <2>1. pc' = "SstOpen" => next_sst_id \in DurAt(0)'
    <3>1. CASE pc = "SstSyncDir" /\ dur' = disk
      BY <1>3, <1>5, <3>1 DEF FInv, TableInFlight, DurAt, NewL0
    <3>2. CASE pc = "SstOpen" /\ dur' = dur
      BY <3>2 DEF FilesInv, OutputsDurable, DurAt
    <3> QED  BY <3>1, <3>2 DEF PlainStep
  <2>2. pc' = "CmpOpen" => next_sst_id \in DurAt(1)'
    <3>1. CASE pc = "CmpSyncDir" /\ dur' = disk
      BY <1>3, <1>5, <3>1 DEF FInv, TableInFlight, DurAt, NewL1
    <3>2. CASE pc = "CmpOpen" /\ dur' = dur
      BY <3>2 DEF FilesInv, OutputsDurable, DurAt
    <3> QED  BY <3>1, <3>2 DEF PlainStep
  <2> QED  BY <1>2, <1>3, <2>1, <2>2 DEF OutputsDurable, FilesInv, PlainStep
<1>9. OwedListed'
  BY <1>1, <1>3 DEF OwedListed, Listed, FilesInv, PlainStep
<1>10. LeftoversDead'
  <2>1. CASE pc' \in OpenSteps
    <3>1. pc \in OpenSteps /\ dur' = dur /\ disk' = disk
      BY <2>1 DEF PlainStep
    <3>2. Safe' = Safe /\ \A level \in {0, 1} : DurAt(level)' = DurAt(level) /\ IdsAt(level)' = IdsAt(level)
      BY <3>1 DEF Safe, Everywhere, DurAt, IdsAt
    <3> QED  BY <2>1, <3>1, <3>2 DEF LeftoversDead, FilesInv
  <2>2. CASE pc' \notin OpenSteps /\ pc' # "Down"
    BY <2>2 DEF LeftoversDead
  <2> QED  BY <1>4, <2>1, <2>2 DEF PlainStep
<1> QED  BY <1>6, <1>7, <1>8, <1>9, <1>10 DEF FilesInv

\* An open that fails leaves everything as it was.
LEMMA FailedOpenFiles ==
    ASSUME FInv, FilesInv, UNCHANGED <<disk, dur, tmps, l0, l1, next_sst_id>>,
           pc \in OpenSteps, pc' = "Down"
    PROVE  FilesInv'
<1>1. /\ pc \in Serving /\ "Down" \notin Serving \cup FreshSteps \cup OpenSteps
  BY DEF Serving, Steps, OpenSteps, FreshSteps, UpSteps, BusySteps, FlushSteps, CompactSteps
<1>2. /\ Safe' = Safe /\ NextId' = NextId
      /\ \A level \in {0, 1} : DurAt(level)' = DurAt(level) /\ IdsAt(level)' = IdsAt(level)
  BY DEF Safe, Everywhere, DurAt, IdsAt, NextId
<1>3. next_sst_id <= NextId
  <2> DEFINE S == IdsAt(0) \cup IdsAt(1)
  <2>1. S \in SUBSET Ids /\ NextId = IF S = {} THEN 0 ELSE Max(S) + 1
    BY DEF IdsAt, NextId
  <2>2. next_sst_id \in Nat /\ (next_sst_id = 0 \/ next_sst_id - 1 \in S)
    BY <1>1 DEF FilesInv, LastIdKept, Everywhere, FInv, IInv, TypeOK, MemoryTypes
  <2> HIDE DEF S
  <2> QED  BY <2>1, <2>2, NextIdCovers
<1>4. \A f \in tmps : f[2] <= NextId
  <2>1. next_sst_id \in Nat /\ tmps \subseteq Files /\ \A f \in Files : f[2] \in Nat
    BY DEF FInv, IInv, TypeOK, MemoryTypes, DirectoryTypes, Files, Ids
  <2>2. NextId \in Nat
    BY ConstantsAssumption, NextIdAbove
  <2>3. \A f \in tmps : f[2] <= next_sst_id
    BY <1>1 DEF FilesInv, IdsBelow
  <2> QED  BY <1>3, <2>1, <2>2, <2>3
<1> QED  BY <1>1, <1>2, <1>4 DEF FilesInv, IdsBelow, LastIdKept, OutputsDurable, OwedListed, LeftoversDead

\* A rename adds the table with the next id, in the cached directory.
RenameStep(level) ==
    /\ UNCHANGED <<l0, l1, next_sst_id, dur>>
    /\ \E t \in Tables : t # NoTable /\ disk' = [disk EXCEPT ![<<level, next_sst_id>>] = t]
    /\ tmps' \subseteq tmps
    /\ \/ level = 0 /\ pc = "SstRename" /\ pc' = "SstSyncDir"
       \/ level = 1 /\ pc = "CmpRename" /\ pc' = "CmpSyncDir"

\* The files after it.
LEMMA RenameFiles ==
    ASSUME FInv, FilesInv, NEW level \in {0, 1}, RenameStep(level)
    PROVE  FilesInv' /\ Owed' \subseteq Owed \cup {next_sst_id} /\ (level = 1 => Owed' \subseteq Owed)
<1>1. /\ next_sst_id \in Nat /\ next_sst_id' = next_sst_id /\ l0' = l0 /\ l1' = l1 /\ dur' = dur
      /\ disk \in [Files -> Tables]
  BY DEF FInv, IInv, TypeOK, MemoryTypes, DirectoryTypes, RenameStep
<1>2. /\ pc \in Serving /\ pc' \notin FreshSteps \cup OpenSteps \cup {"Down"}
      /\ pc' \notin {"SstOpen", "CmpOpen", "CmpUnlink", "CmpFinish"}
  BY DEF Serving, Steps, OpenSteps, FreshSteps, UpSteps, BusySteps, FlushSteps, CompactSteps, RenameStep
<1>3. \A f \in Files : disk[f] # NoTable => disk'[f] # NoTable
  BY <1>1 DEF RenameStep
<1>4. \A f \in Files : disk'[f] # NoTable => disk[f] # NoTable \/ f[2] = next_sst_id
  <2>1. PICK t \in Tables : disk' = [disk EXCEPT ![<<level, next_sst_id>>] = t]
    BY DEF RenameStep
  <2> QED  BY <1>1, <2>1
<1>5. \A lv \in {0, 1} : /\ IdsAt(lv) \subseteq IdsAt(lv)'
                         /\ IdsAt(lv)' \subseteq IdsAt(lv) \cup {next_sst_id}
                         /\ DurAt(lv)' = DurAt(lv)
  <2>1. \A lv \in {0, 1}, i \in Ids : <<lv, i>> \in Files /\ <<lv, i>>[2] = i
    BY DEF Files
  <2> QED  BY <1>1, <1>3, <1>4, <2>1 DEF IdsAt, DurAt
<1>6. level = 1 => Owed' \subseteq Owed
  <2>1. CASE level = 1
    <3>1. IdsAt(0)' = IdsAt(0)
      <4>1. PICK t \in Tables : disk' = [disk EXCEPT ![<<1, next_sst_id>>] = t]
        BY <2>1 DEF RenameStep
      <4>2. \A i \in Ids : <<0, i>> \in Files /\ <<0, i>> # <<1, next_sst_id>>
        BY DEF Files
      <4>3. \A i \in Ids : disk'[<<0, i>>] = disk[<<0, i>>]
        BY <1>1, <4>1, <4>2
      <4> QED  BY <4>3 DEF IdsAt
    <3> QED  BY <1>5, <3>1 DEF Owed, There, Safe, Everywhere
  <2> QED  BY <2>1
<1>7. /\ There(0)' \subseteq There(0) \cup {next_sst_id} /\ There(1)' \subseteq There(1) \cup {next_sst_id}
      /\ Everywhere(0) \subseteq Everywhere(0)' /\ Everywhere(1) \subseteq Everywhere(1)'
      /\ Safe \subseteq Safe'
  BY <1>5 DEF There, Everywhere, Safe
<1>8. Owed' \subseteq Owed \cup {next_sst_id}
  BY <1>7 DEF Owed
<1>9. IdsBelow'
  BY <1>1, <1>2, <1>7 DEF IdsBelow, FilesInv, RenameStep
<1>10. LastIdKept'
  BY <1>1, <1>2, <1>7 DEF LastIdKept, FilesInv
<1>11. OwedListed'
  BY <1>1, <1>2, <1>8 DEF OwedListed, FilesInv, Listed
<1> QED  BY <1>2, <1>8, <1>9, <1>10, <1>11, <1>6 DEF FilesInv, OutputsDurable, LeftoversDead

\* A table that is listed uses up the next id.
OpenStepOf(level) ==
    /\ UNCHANGED <<disk, dur, tmps>>
    /\ next_sst_id' = next_sst_id + 1
    /\ \/ level = 0 /\ pc = "SstOpen" /\ pc' = "WalRemove" /\ l0' = RegisterL0 /\ l1' = l1
       \/ level = 1 /\ pc = "CmpOpen" /\ pc' = "CmpUnlink" /\ l0' = <<>> /\ l1' = <<next_sst_id>>

\* The files after it; an output in level 1 leaves nothing else to count.
LEMMA ListedFiles ==
    ASSUME FInv, FilesInv, NEW level \in {0, 1}, OpenStepOf(level)
    PROVE  /\ FilesInv' /\ Owed' = Owed
           /\ level = 0 => Listed' = Listed \cup {next_sst_id}
           /\ level = 1 => Listed' = {} /\ Owed = {}
<1>1. /\ next_sst_id \in Nat /\ next_sst_id' = next_sst_id + 1 /\ l0 \in Seq(Ids)
      /\ disk \in [Files -> Tables] /\ pc \in Serving /\ next_sst_id \in Ids
      /\ pc' \in FreshSteps /\ pc' \notin OpenSteps \cup {"Down", "SstOpen", "CmpOpen"}
  BY ConstantsAssumption
     DEF FInv, IInv, IdRoom, TypeOK, MemoryTypes, DirectoryTypes, Ids, Serving, Steps, OpenSteps,
         FreshSteps, UpSteps, BusySteps, FlushSteps, CompactSteps, OpenStepOf
<1>2. /\ Owed' = Owed /\ Safe' = Safe
      /\ There(0)' = There(0) /\ There(1)' = There(1)
      /\ Everywhere(0)' = Everywhere(0) /\ Everywhere(1)' = Everywhere(1)
  BY DEF OpenStepOf, Owed, Safe, There, Everywhere, IdsAt, DurAt
<1>3. next_sst_id \in Everywhere(level)
  BY <1>1 DEF OpenStepOf, FInv, TableInFlight, FilesInv, OutputsDurable, Everywhere, IdsAt, NewL0, NewL1
<1>4. /\ \A i \in There(0) \cup There(1) : i \in Nat /\ i <= next_sst_id
      /\ \A f \in tmps : f[2] \in Nat /\ f[2] <= next_sst_id
  BY <1>1, ConstantsAssumption
     DEF FilesInv, IdsBelow, There, IdsAt, DurAt, Ids, FInv, IInv, TypeOK, DirectoryTypes, Files
<1>5. IdsBelow'
  <2>1. /\ \A i \in There(0) \cup There(1) : i <= next_sst_id + 1 /\ i < next_sst_id + 1
        /\ \A f \in tmps : f[2] <= next_sst_id + 1 /\ f[2] < next_sst_id + 1
    BY <1>1, <1>4
  <2> QED  BY <1>1, <1>2, <2>1 DEF IdsBelow, OpenStepOf
<1>6. LastIdKept'
  BY <1>1, <1>2, <1>3 DEF LastIdKept
<1>7. level = 0 => Listed' = Listed \cup {next_sst_id}
  <2>1. CASE level = 0
    <3>1. l0' = RegisterL0
      BY <2>1 DEF OpenStepOf
    <3>2. /\ DOMAIN l0' = 1 .. Len(l0) + 1 /\ l0'[1] = next_sst_id
          /\ \A i \in 2 .. Len(l0) + 1 : i - 1 \in DOMAIN l0 /\ l0'[i] = l0[i - 1]
      BY <1>1, <3>1, RegisterL0Shape
    <3>3. Len(l0) \in Nat /\ DOMAIN l0 = 1 .. Len(l0)
      BY <1>1
    <3>4. Listed' \subseteq Listed \cup {next_sst_id}
      <4>1. \A i \in 1 .. Len(l0) + 1 : i = 1 \/ i \in 2 .. Len(l0) + 1
        BY <3>3
      <4> QED  BY <3>2, <4>1 DEF Listed
    <3>5. Listed \subseteq Listed'
      <4>1. \A i \in DOMAIN l0 : i + 1 \in 2 .. Len(l0) + 1 /\ i + 1 \in DOMAIN l0' /\ (i + 1) - 1 = i
        BY <3>2, <3>3
      <4>2. \A i \in DOMAIN l0 : l0'[i + 1] = l0[i]
        BY <3>2, <4>1
      <4> QED  BY <4>1, <4>2 DEF Listed
    <3>6. 1 \in DOMAIN l0'
      BY <3>2, <3>3
    <3> QED  BY <3>2, <3>4, <3>5, <3>6 DEF Listed
  <2> QED  BY <2>1
<1>8. level = 1 => Listed' = {} /\ Owed = {}
  <2>1. CASE level = 1
    <3>1. l0' = <<>> /\ next_sst_id \in Safe
      BY <1>3, <2>1 DEF OpenStepOf, Safe
    <3>2. \A i \in There(0) : ~(i > next_sst_id)
      BY <1>1, <1>4
    <3> QED  BY <3>1, <3>2 DEF Owed, Listed
  <2> QED  BY <2>1
<1>9. OwedListed'
  <2>1. Owed \subseteq Listed \cup {next_sst_id}
    BY <1>1 DEF FilesInv, OwedListed
  <2> QED  BY <1>1, <1>2, <1>7, <1>8, <2>1 DEF OwedListed
<1>10. OutputsDurable'
  <2>1. pc' = "CmpUnlink" => level = 1 /\ l0' = <<>> /\ l1' = <<next_sst_id>> /\ next_sst_id \in Safe'
    BY <1>2, <1>3 DEF OpenStepOf, Safe
  <2>2. pc' # "CmpFinish"
    BY DEF OpenStepOf
  <2> QED  BY <1>1, <2>1, <2>2 DEF OutputsDurable
<1> QED  BY <1>1, <1>2, <1>5, <1>6, <1>7, <1>8, <1>9, <1>10 DEF FilesInv, LeftoversDead

\* An input goes: the output stays, and nothing below it matters.
UnlinkStep ==
    /\ pc = "CmpUnlink" /\ pc' = pc /\ UNCHANGED <<l0, l1, next_sst_id, dur, tmps>>
    /\ input_ids # <<>> /\ disk' = Unlinked(Head(input_ids))

\* The files after it.
LEMMA UnlinkedFiles ==
    ASSUME FInv, FilesInv, UnlinkStep
    PROVE  FilesInv' /\ Owed' = {} /\ Listed' = {}
<1> DEFINE last == next_sst_id - 1
<1>1. /\ next_sst_id \in Nat /\ last \in Int /\ l0' = <<>> /\ l1' = <<last>> /\ last \in Safe
      /\ next_sst_id' = next_sst_id /\ next_sst_id # 0 /\ dur' = dur /\ tmps' = tmps
      /\ pc \in FreshSteps /\ pc \in Serving /\ pc \notin OpenSteps
  BY DEF UnlinkStep, FInv, IInv, TypeOK, MemoryTypes, FilesInv, OutputsDurable, Serving, Steps, OpenSteps,
         FreshSteps, UpSteps, BusySteps, FlushSteps, CompactSteps
<1>2. Head(input_ids) # last
  <2>1. input_ids \in Seq(Ids) /\ input_ids # <<>> /\ l1 = <<last>> /\ pc = "CmpUnlink"
    BY <1>1 DEF FInv, IInv, TypeOK, MemoryTypes, UnlinkStep
  <2>2. 1 \in DOMAIN input_ids /\ Head(input_ids) = input_ids[1]
    BY <2>1
  <2>3. <<1, last>> \in Registered /\ <<1, last>>[2] = last
    BY <2>1 DEF Registered
  <2> HIDE DEF last
  <2> QED  BY <2>1, <2>2, <2>3 DEF FInv, InputsRetired
<1>3. \A f \in Files : disk'[f] # NoTable => disk[f] # NoTable
  BY DEF UnlinkStep, Unlinked
<1>4. There(0)' \subseteq There(0) /\ There(1)' \subseteq There(1)
  <2>1. \A lv \in {0, 1}, i \in Ids : <<lv, i>> \in Files
    BY DEF Files
  <2> QED  BY <1>1, <1>3, <2>1 DEF There, IdsAt, DurAt
<1>5. last \in Safe'
  <2>1. last \in Ids /\ disk[<<1, last>>] # NoTable /\ dur[<<1, last>>] # NoTable
    BY <1>1 DEF Safe, Everywhere, IdsAt, DurAt
  <2>2. <<1, last>> \in Files /\ <<1, last>>[2] = last
    BY <2>1 DEF Files
  <2>3. disk'[<<1, last>>] # NoTable
    BY <1>2, <2>1, <2>2 DEF UnlinkStep, Unlinked
  <2> QED  BY <1>1, <2>1, <2>3 DEF Safe, Everywhere, IdsAt, DurAt
<1>6. \A i \in There(0) \cup There(1) : i \in Nat /\ i < next_sst_id
  BY <1>1, ConstantsAssumption DEF FilesInv, IdsBelow, There, IdsAt, DurAt, Ids
<1>7. Owed' = {}
  <2>1. \A i \in There(0)' : ~(i > last)
    BY <1>1, <1>4, <1>6
  <2> HIDE DEF last
  <2> QED  BY <1>5, <2>1 DEF Owed
<1>8. Listed' = {}
  BY <1>1 DEF Listed
<1>9. pc' = pc /\ pc' \notin {"SstOpen", "CmpOpen", "Down"}
  BY DEF UnlinkStep
<1>10. IdsBelow'
  BY <1>1, <1>4, <1>9 DEF IdsBelow, FilesInv
<1>11. LastIdKept'
  BY <1>1, <1>5 DEF LastIdKept, Safe
<1>12. OutputsDurable'
  BY <1>1, <1>5, <1>9 DEF OutputsDurable
<1> QED  BY <1>1, <1>7, <1>8, <1>9, <1>10, <1>11, <1>12 DEF FilesInv, OwedListed, LeftoversDead

\* A crash leaves every name with a content it had in one of the directories.
LEMMA CrashedFiles ==
    ASSUME FInv, FilesInv, Crash
    PROVE  FilesInv' /\ Owed' \subseteq Owed /\ Listed' = {}
<1>1. /\ dur' = disk' /\ \A f \in Files : disk'[f] = disk[f] \/ disk'[f] = dur[f]
      /\ pc \in Serving /\ pc' = "Down" /\ l0' = <<>> /\ tmps' = tmps
  BY DEF Crash, Dies, Goto, Serving, FInv, IInv, TypeOK, CallTypes
<1>2. "Down" \notin Serving \cup FreshSteps \cup OpenSteps
  BY DEF Serving, FreshSteps, OpenSteps
<1>3. \A lv \in {0, 1} : /\ IdsAt(lv)' = DurAt(lv)' /\ IdsAt(lv)' \subseteq There(lv)
                         /\ Everywhere(lv) \subseteq Everywhere(lv)'
  <2>1. \A lv \in {0, 1}, i \in Ids : <<lv, i>> \in Files
    BY DEF Files
  <2> QED  BY <1>1, <2>1 DEF IdsAt, DurAt, There, Everywhere
<1>4. Owed' \subseteq Owed
  <2>1. Narrows
    BY <1>3 DEF Narrows, There
  <2> QED  BY <2>1, OwedNarrows
<1>5. \A f \in tmps' : f[2] <= NextId'
  <2> DEFINE S == (IdsAt(0) \cup IdsAt(1))'
  <2>1. S \in SUBSET Ids /\ NextId' = IF S = {} THEN 0 ELSE Max(S) + 1
    BY DEF IdsAt, NextId
  <2>2. next_sst_id \in Nat /\ (next_sst_id = 0 \/ next_sst_id - 1 \in S)
    <3>1. Everywhere(0) \cup Everywhere(1) \subseteq S
      BY <1>3 DEF Everywhere
    <3> HIDE DEF S
    <3> QED  BY <1>1, <3>1 DEF FilesInv, LastIdKept, FInv, IInv, TypeOK, MemoryTypes
  <2>3. NextId' \in Nat
    <3>1. MaxId \in Nat
      BY ConstantsAssumption
    <3> HIDE DEF S
    <3> QED  BY <2>1, <3>1, NextIdOf
  <2>4. next_sst_id <= NextId'
    <3> HIDE DEF S
    <3> QED  BY <2>1, <2>2, NextIdCovers
  <2>5. tmps \subseteq Files /\ \A f \in Files : f[2] \in Nat
    BY DEF FInv, IInv, TypeOK, DirectoryTypes, Files, Ids
  <2>6. \A f \in tmps : f[2] <= next_sst_id
    BY <1>1 DEF FilesInv, IdsBelow
  <2> HIDE DEF S
  <2> QED  BY <1>1, <2>2, <2>3, <2>4, <2>5, <2>6
<1>6. LeftoversDead'
  BY <1>3 DEF LeftoversDead
<1>7. Listed' = {}
  BY <1>1 DEF Listed
<1> QED  BY <1>1, <1>2, <1>4, <1>5, <1>6, <1>7 DEF FilesInv, IdsBelow, LastIdKept, OutputsDurable, OwedListed

\* Discovery lists what is above level 1 and above nothing else; what it
\* removes, or failed to remove before, stays dead.
LEMMA DiscoveredFiles ==
    ASSUME FInv, FilesInv, Discover
    PROVE  FilesInv' /\ Owed' \subseteq Listed' /\ Listed' \subseteq Owed
<1>0. MaxId \in Nat /\ \A level \in {0, 1} : IdsAt(level) \in SUBSET (0 .. MaxId)
  BY ConstantsAssumption DEF IdsAt, Ids
<1>1. /\ pc = "Down" /\ pc' = "Replay" /\ dur' = dur /\ tmps' \subseteq tmps /\ next_sst_id' = NextId
      /\ l0' \in NewestFirst(LiveL0)
      /\ \A f \in Files : disk'[f] # NoTable => disk[f] # NoTable
      /\ \A f \in LiveFiles : f \in Files => disk'[f] = disk[f]
  BY DEF Discover, Goto, Keeping
<1>2. /\ "Replay" \in OpenSteps /\ "Replay" \in Serving /\ "Replay" \notin FreshSteps
      /\ "Replay" \notin {"Down", "SstOpen", "CmpOpen", "CmpUnlink", "CmpFinish"}
  BY DEF Serving, Steps, OpenSteps, FreshSteps
<1>3. /\ \A lv \in {0, 1} : IdsAt(lv) \subseteq DurAt(lv)
      /\ \A lv \in {0, 1} : \A i \in DurAt(lv) \ IdsAt(lv) : \E j \in IdsAt(1) : i <= j
  BY <1>1 DEF FilesInv, LeftoversDead, Safe, Everywhere
<1>4. /\ \A lv \in {0, 1} : DurAt(lv)' = DurAt(lv) /\ IdsAt(lv)' \subseteq IdsAt(lv)
      /\ LiveL0 \subseteq IdsAt(0)' /\ SurvivingL1 \subseteq IdsAt(1)'
  <2>1. \A lv \in {0, 1}, i \in Ids : <<lv, i>> \in Files
    BY DEF Files
  <2>2. LiveL0 \subseteq IdsAt(0) /\ SurvivingL1 \subseteq IdsAt(1)
    BY <1>0, MaxOfNats DEF LiveL0, SurvivingL1
  <2>3. \A i \in LiveL0 : <<0, i>> \in LiveFiles
    BY DEF LiveFiles
  <2>4. \A i \in SurvivingL1 : <<1, i>> \in LiveFiles
    BY DEF LiveFiles
  <2> QED  BY <1>1, <2>1, <2>2, <2>3, <2>4 DEF IdsAt, DurAt
<1>5. \A lv \in {0, 1} : /\ There(lv)' = DurAt(lv) /\ Everywhere(lv)' = IdsAt(lv)'
                         /\ There(lv) = DurAt(lv) /\ Everywhere(lv) = IdsAt(lv)
  BY <1>3, <1>4 DEF There, Everywhere
<1>6. \A i \in IdsAt(1) : \E m \in SurvivingL1 : m \in IdsAt(1) /\ i <= m
  <2> SUFFICES ASSUME NEW i \in IdsAt(1) PROVE \E m \in SurvivingL1 : m \in IdsAt(1) /\ i <= m
    OBVIOUS
  <2>1. Max(IdsAt(1)) \in IdsAt(1) /\ i <= Max(IdsAt(1))
    BY <1>0, MaxOfNats
  <2> QED  BY <2>1 DEF SurvivingL1
<1>7. \A i, j, m \in 0 .. MaxId : i <= j /\ j <= m => i <= m
  BY <1>0
<1>8. \A lv \in {0, 1} : \A i \in DurAt(lv) \ IdsAt(lv) : \E m \in SurvivingL1 : m \in IdsAt(1) /\ i <= m
  BY <1>0, <1>3, <1>6, <1>7 DEF DurAt, Ids
<1>9. \A i \in IdsAt(0) \ LiveL0 : \E m \in SurvivingL1 : m \in IdsAt(1) /\ i <= m
  <2>1. SurvivingL1 \subseteq IdsAt(1)
    BY <1>0, MaxOfNats DEF SurvivingL1
  <2>2. \A i, m \in 0 .. MaxId : ~(i > m) => i <= m
    BY <1>0
  <2> QED  BY <1>0, <2>1, <2>2 DEF LiveL0
<1>10. LeftoversDead'
  <2>1. \A i \in DurAt(0) \ IdsAt(0)' : \E j \in Safe' : i <= j
    BY <1>4, <1>5, <1>8, <1>9 DEF Safe
  <2>2. \A i \in DurAt(1) \ IdsAt(1)' : \E j \in Safe' : i <= j
    BY <1>4, <1>5, <1>6, <1>8 DEF Safe
  <2> QED  BY <1>3, <1>4, <2>1, <2>2 DEF LeftoversDead
<1>11. Listed' = LiveL0
  <2> DEFINE s == l0'
  <2>1. s \in NewestFirst(LiveL0) /\ LiveL0 \in SUBSET Ids
    BY <1>1 DEF LiveL0, IdsAt
  <2>2. {s[i] : i \in DOMAIN s} = LiveL0
    <3>1. \A x \in LiveL0 : \E i \in DOMAIN s : s[i] = x
      BY <2>1, NewestFirstAll
    <3>2. \A i \in DOMAIN s : s[i] \in LiveL0
      BY <2>1, NewestFirstType
    <3> QED  BY <3>1, <3>2
  <2> QED  BY <2>2 DEF Listed
<1>12. Owed' \subseteq LiveL0
  <2>1. \A i \in DurAt(0) \ LiveL0 : \E j \in Safe' : i <= j /\ j \in 0 .. MaxId
    BY <1>0, <1>4, <1>5, <1>8, <1>9 DEF Safe
  <2>2. DurAt(0) \in SUBSET (0 .. MaxId) /\ \A i, j \in 0 .. MaxId : i <= j => ~(i > j)
    BY <1>0 DEF DurAt, Ids
  <2>3. \A i \in Owed' : i \in DurAt(0) /\ \A j \in Safe' : i > j
    BY <1>5 DEF Owed
  <2> QED  BY <2>1, <2>2, <2>3
<1>13. LiveL0 \subseteq Owed
  <2>1. \A i \in LiveL0, j \in IdsAt(1) : i > j
    <3> SUFFICES ASSUME NEW i \in LiveL0, NEW j \in IdsAt(1) PROVE i > j
      OBVIOUS
    <3>1. PICK m \in SurvivingL1 : m \in IdsAt(1) /\ j <= m
      BY <1>6
    <3>2. i > m /\ i \in 0 .. MaxId
      BY <1>0, <3>1 DEF LiveL0
    <3> QED  BY <1>0, <3>1, <3>2
  <2>2. LiveL0 \subseteq DurAt(0)
    BY <1>3 DEF LiveL0
  <2> QED  BY <1>5, <2>1, <2>2 DEF Owed, Safe
<1>14. /\ NextId \in Nat /\ \A i \in IdsAt(0) \cup IdsAt(1) : i < NextId
       /\ NextId = 0 \/ NextId - 1 \in IdsAt(0) \cup IdsAt(1)
  <2> DEFINE S == IdsAt(0) \cup IdsAt(1)
  <2>1. S \in SUBSET Ids /\ NextId = IF S = {} THEN 0 ELSE Max(S) + 1
    BY DEF IdsAt, NextId
  <2> HIDE DEF S
  <2>2. NextId \in 0 .. MaxId + 1 /\ (\A i \in S : i < NextId) /\ (NextId = 0 \/ NextId - 1 \in S)
    BY <2>1, NextIdOf
  <2> QED  BY <1>0, <2>2 DEF S
<1>15. IdsBelow'
  <2>1. \A i \in There(0)' \cup There(1)' : i \in Nat /\ i < NextId
    <3>1. \A i \in DurAt(0) \cup DurAt(1) : i \in 0 .. MaxId /\ i < NextId
      <4>1. \A i, m \in 0 .. MaxId : i <= m /\ m < NextId => i < NextId
        BY <1>0, <1>14
      <4>2. DurAt(0) \in SUBSET (0 .. MaxId) /\ DurAt(1) \in SUBSET (0 .. MaxId)
        BY DEF DurAt, Ids
      <4> QED  BY <1>0, <1>8, <1>14, <4>1, <4>2
    <3> QED  BY <1>0, <1>5, <3>1
  <2>2. \A i \in There(0)' \cup There(1)' : i <= NextId
    BY <1>14, <2>1
  <2>3. \A f \in tmps : f[2] <= NextId
    BY <1>1 DEF FilesInv, IdsBelow
  <2> QED  BY <1>1, <1>2, <2>1, <2>2, <2>3 DEF IdsBelow
<1>16. LastIdKept'
  <2>1. SUFFICES ASSUME NextId # 0 PROVE NextId - 1 \in Everywhere(0)' \cup Everywhere(1)'
    BY <1>1 DEF LastIdKept
  <2> DEFINE last == NextId - 1
  <2>2. last \in IdsAt(0) \cup IdsAt(1) /\ \A i \in IdsAt(0) \cup IdsAt(1) : i <= last
    BY <1>0, <1>14, <2>1
  <2> HIDE DEF last
  <2>3. CASE last \in IdsAt(1)
    <3>1. PICK m \in SurvivingL1 : m \in IdsAt(1) /\ last <= m
      BY <1>6, <2>3
    <3>2. m = last
      BY <1>0, <2>2, <2>3, <3>1
    <3> QED  BY <1>4, <1>5, <3>1, <3>2 DEF last
  <2>4. CASE last \notin IdsAt(1)
    <3>1. \A j \in SurvivingL1 : j \in IdsAt(1)
      BY <1>0, MaxOfNats DEF SurvivingL1
    <3>2. \A j \in SurvivingL1 : last > j
      BY <1>0, <2>2, <2>4, <3>1
    <3>3. last \in LiveL0
      BY <2>2, <2>4, <3>2 DEF LiveL0
    <3> QED  BY <1>4, <1>5, <3>3 DEF last
  <2> QED  BY <2>3, <2>4
<1>17. OwedListed'
  BY <1>11, <1>12 DEF OwedListed
<1>18. OutputsDurable'
  BY <1>1 DEF OutputsDurable
<1> QED  BY <1>10, <1>11, <1>12, <1>13, <1>15, <1>16, <1>17, <1>18 DEF FilesInv

\* What a compaction writes is a table.
LEMMA OutputType == ASSUME TypeOK PROVE CompactionOutput \in Tables
<1>1. Registered \in SUBSET Files /\ DirectoryTypes
  BY RegisteredFiles DEF TypeOK
<1>2. ASSUME NEW k \in Keys PROVE DropTombstone(NewestCell(Registered, k)) \in Cells
  BY <1>1, NewestCellType DEF DirectoryTypes, DropTombstone, Cells
<1> QED  BY <1>2 DEF CompactionOutput, Tables

\* What a step can do to the levels and the tables.
FailedOpen ==
    UNCHANGED <<disk, dur, tmps, l0, l1, next_sst_id>> /\ pc \in OpenSteps /\ pc' = "Down"
FileStep ==
    \/ PlainStep \/ FailedOpen \/ UnlinkStep \/ Crash \/ Discover \/ UNCHANGED vars
    \/ \E level \in {0, 1} : RenameStep(level) \/ OpenStepOf(level)

\* There is nothing else a step can do to them.
LEMMA FileSteps ==
    ASSUME BoundModel, FInv, [Next]_vars, NoDeletes, NeverEmpty
    PROVE  FileStep
<1>1. /\ pc \notin {"DropUnlink", "DropFinish"}
      /\ memtable \in Tables
      /\ pc = "SstRename" => memtable # NoTable
      /\ pc = "CmpRename" => CompactionOutput # NoTable
      /\ CompactionOutput \in Tables
  BY OutputType DEF FInv, IInv, TypeOK, MemoryTypes, TableInFlight, NeverEmpty
<1>2. maybe_compact(l0) \in {"Idle", "CmpWrite"}
  BY MaybeCompacts DEF FInv, IInv, TypeOK
<1>3. ~CanFail("WalCreate") /\ ~Kill
  BY DEF CanFail, BoundModel, Kill, Dies
<1>4. \A f \in {NewL0, NewL1} : f[2] = next_sst_id
  BY DEF NewL0, NewL1
<1> HIDE DEF maybe_compact, SyncedWal, Appended, NewL0, NewL1
<1>5. CASE Client \/ WalSync \/ FlushSync
  <2> USE DEF Goto, Fails, Proceeds, Returns, Opening, mvars, dvars, wvars, gvars, bounds,
              FlushSteps, CompactSteps, OpenSteps, BusySteps, UpSteps, Steps, Serving, FreshSteps
  <2>1. CASE Client
    BY <2>1 DEF Client, WriteAppend, Flush, Close, Admits, PlainStep, FileStep
  <2>2. CASE WalSync \/ FlushSync
    BY <1>2, <2>2 DEF WalSync, FlushSync, PlainStep, FileStep
  <2> QED  BY <1>5, <2>1, <2>2
<1>6. CASE SstWrite \/ CmpWrite
  <2>1. CmpWrite => CompactionOutput # NoTable
    BY OutputWritten DEF CmpWrite, NeverEmpty
  <2> USE DEF Goto, Fails, Proceeds, Returns, Opening, mvars, dvars, wvars, gvars, bounds,
              FlushSteps, CompactSteps, OpenSteps, BusySteps, UpSteps, Steps, Serving, FreshSteps
  <2> QED  BY <1>4, <1>6, <2>1 DEF SstWrite, CmpWrite, PlainStep, FileStep
<1>7. CASE SstRename \/ CmpRename
  <2> USE DEF Goto, Fails, Proceeds, Opening, mvars, dvars, wvars, gvars, bounds
  <2>1. CASE SstRename /\ disk' = [disk EXCEPT ![NewL0] = memtable] /\ tmps' = tmps \ {NewL0}
             /\ pc' = "SstSyncDir"
    <3>1. UNCHANGED <<l0, l1, next_sst_id, dur>> /\ pc = "SstRename" /\ tmps' \subseteq tmps
      BY <2>1 DEF SstRename
    <3>2. memtable \in Tables /\ memtable # NoTable
          /\ disk' = [disk EXCEPT ![<<0, next_sst_id>>] = memtable]
      BY <1>1, <2>1, <3>1 DEF NewL0
    <3>3. RenameStep(0)
      <4> HIDE DEF Tables, NoTable
      <4> QED  BY <2>1, <3>1, <3>2 DEF RenameStep
    <3> QED  BY <3>3 DEF FileStep
  <2>2. CASE CmpRename /\ disk' = [disk EXCEPT ![NewL1] = CompactionOutput]
             /\ tmps' = tmps \ {NewL1} /\ pc' = "CmpSyncDir"
    <3>1. RenameStep(1)
      BY <1>1, <2>2 DEF CmpRename, RenameStep, NewL1
    <3> QED  BY <3>1 DEF FileStep
  <2>3. CASE UNCHANGED <<disk, dur, tmps, l0, l1, next_sst_id>> /\ pc \in {"SstRename", "CmpRename"}
             /\ pc' = "Idle"
    BY <2>3 DEF PlainStep, FileStep, FlushSteps, CompactSteps, OpenSteps, BusySteps, UpSteps, Steps,
                Serving, FreshSteps
  <2> QED  BY <1>7, <2>1, <2>2, <2>3 DEF SstRename, CmpRename, OpenSteps
<1>8. CASE SstSyncDir \/ CmpSyncDir
  BY <1>8 DEF SstSyncDir, CmpSyncDir, SyncDir, PlainStep, FileStep,
              Goto, Fails, Proceeds, Opening, mvars, dvars, wvars, gvars, bounds,
              FlushSteps, CompactSteps, OpenSteps, BusySteps, UpSteps, Steps, Serving, FreshSteps
<1>9. CASE SstOpen \/ CmpOpen
  <2> USE DEF Goto, Fails, Proceeds, Opening, mvars, dvars, wvars, gvars, bounds
  <2>1. CASE pc' = "Idle"
    BY <1>9, <2>1 DEF SstOpen, CmpOpen, PlainStep, FileStep,
              FlushSteps, CompactSteps, OpenSteps, BusySteps, UpSteps, Steps, Serving, FreshSteps
  <2>2. CASE SstOpen /\ pc' # "Idle"
    BY <2>2 DEF SstOpen, OpenStepOf, FileStep, OpenSteps
  <2>3. CASE CmpOpen /\ pc' # "Idle"
    BY <2>3 DEF CmpOpen, OpenStepOf, FileStep, OpenSteps
  <2> QED  BY <1>9, <2>1, <2>2, <2>3
<1>10. CASE WalRemove \/ WalCreate \/ WalHeader
  BY <1>3, <1>10 DEF WalRemove, WalCreate, WalHeader, PlainStep, FailedOpen, FileStep,
              Goto, Fails, Proceeds, Returns, Opening, mvars, dvars, wvars, gvars, bounds,
              FlushSteps, CompactSteps, OpenSteps, BusySteps, UpSteps, Steps, Serving, FreshSteps
<1>11. CASE WalSyncDir
  BY <1>2, <1>11 DEF WalSyncDir, SyncDir, PlainStep, FileStep,
              Goto, Fails, Proceeds, Opening, mvars, dvars, wvars, gvars, bounds,
              FlushSteps, CompactSteps, OpenSteps, BusySteps, UpSteps, Steps, Serving, FreshSteps
<1>12. CASE Unlink \/ UnlinkedAll
  BY <1>1, <1>12 DEF Unlink, UnlinkedAll, UnlinkStep, PlainStep, FileStep,
              Goto, Proceeds, mvars, dvars, wvars, gvars, bounds,
              FlushSteps, CompactSteps, OpenSteps, BusySteps, UpSteps, Steps, Serving, FreshSteps
<1>13. CASE CmpFinish
  BY <1>13 DEF CmpFinish, SyncDir, PlainStep, FileStep,
              Goto, mvars, dvars, wvars, gvars, bounds,
              FlushSteps, CompactSteps, OpenSteps, BusySteps, UpSteps, Steps, Serving, FreshSteps
<1>14. CASE OpenStep
  BY <1>14 DEF OpenStep, Replay, OpenSyncDir, SyncDir, PlainStep, FailedOpen, FileStep,
              Goto, Fails, Opening, mvars, dvars, wvars, gvars, bounds,
              FlushSteps, CompactSteps, OpenSteps, BusySteps, UpSteps, Steps, Serving, FreshSteps
<1>15. CASE Crash \/ Discover \/ UNCHANGED vars
  BY <1>15 DEF FileStep
<1> QED
  BY <1>3, <1>5, <1>6, <1>7, <1>8, <1>9, <1>10, <1>11, <1>12, <1>13, <1>14, <1>15
     DEF Next, CallStep, FlushStep, CompactStep

\* Every step preserves the invariant of the files, and adds to the tables
\* that count at most one, by the rename of a flush.
LEMMA NextFilesInv ==
    ASSUME FInv, FilesInv, FileStep
    PROVE  FilesInv' /\ (Held' \subseteq Held \/ (RenameStep(0) /\ Held' \subseteq Held \cup {next_sst_id}))
<1>1. CASE PlainStep
  <2>1. Owed' \subseteq Owed
    BY <1>1, KeptNarrows, OwedNarrows DEF PlainStep
  <2>2. Listed' = Listed /\ Opening0' \subseteq Opening0
    BY <1>1 DEF PlainStep, Listed, Opening0
  <2> QED  BY <1>1, <2>1, <2>2, PlainFiles DEF Held
<1>2. CASE FailedOpen
  <2>1. Owed' = Owed /\ Listed' = Listed /\ Opening0' = {}
    BY <1>2 DEF FailedOpen, Owed, There, Safe, Everywhere, IdsAt, DurAt, Listed, Opening0
  <2> QED  BY <1>2, <2>1, FailedOpenFiles DEF FailedOpen, Held
<1>3. CASE UNCHANGED vars
  <2>1. Owed' = Owed /\ Listed' = Listed /\ Opening0' = Opening0
    BY <1>3 DEF vars, mvars, dvars, Owed, There, Safe, Everywhere, IdsAt, DurAt, Listed, Opening0
  <2>2. FilesInv'
    BY <1>3, <2>1 DEF vars, mvars, dvars, FilesInv, IdsBelow, LastIdKept, OutputsDurable, OwedListed,
                      LeftoversDead, There, Safe, Everywhere, IdsAt, DurAt, NextId
  <2> QED  BY <2>1, <2>2 DEF Held
<1>4. CASE UnlinkStep
  <2>1. Opening0' = {}
    BY <1>4 DEF UnlinkStep, Opening0
  <2> QED  BY <1>4, <2>1, UnlinkedFiles DEF Held
<1>5. CASE Crash
  <2>1. Opening0' = {}
    BY <1>5 DEF Crash, Dies, Goto, Opening0
  <2> QED  BY <1>5, <2>1, CrashedFiles DEF Held
<1>6. CASE Discover
  <2>1. Opening0' = {}
    BY <1>6 DEF Discover, Goto, Opening0
  <2> QED  BY <1>6, <2>1, DiscoveredFiles DEF Held
<1>7. CASE RenameStep(0)
  <2>1. Opening0' = {next_sst_id} /\ Listed' = Listed
    BY <1>7 DEF RenameStep, Opening0, Listed
  <2> QED  BY <1>7, <2>1, RenameFiles DEF Held
<1>8. CASE RenameStep(1)
  <2>1. Opening0' = {} /\ Listed' = Listed
    BY <1>8 DEF RenameStep, Opening0, Listed
  <2> QED  BY <1>8, <2>1, RenameFiles DEF Held
<1>9. CASE OpenStepOf(0)
  <2>1. Opening0' = {} /\ Opening0 = {next_sst_id}
    BY <1>9 DEF OpenStepOf, Opening0
  <2> QED  BY <1>9, <2>1, ListedFiles DEF Held
<1>10. CASE OpenStepOf(1)
  <2>1. Opening0' = {}
    BY <1>10 DEF OpenStepOf, Opening0
  <2> QED  BY <1>10, <2>1, ListedFiles DEF Held
<1> QED  BY <1>1, <1>2, <1>3, <1>4, <1>5, <1>6, <1>7, <1>8, <1>9, <1>10 DEF FileStep

-----------------------------------------------------------------------------
(* Their number                                                            *)

\* The tables that count are a finite set of ids.
LEMMA HeldFinite ==
    ASSUME MemoryTypes
    PROVE  Held \in SUBSET (0 .. MaxId + 1) /\ IsFiniteSet(0 .. MaxId + 1)
<1>1. MaxId \in Nat /\ IsFiniteSet(0 .. MaxId + 1)
  BY ConstantsAssumption, FS_Interval
<1>2. Ids \subseteq 0 .. MaxId + 1
  BY <1>1 DEF Ids
<1>3. Owed \subseteq Ids
  BY DEF Owed, There, IdsAt, DurAt
<1>4. Listed \subseteq Ids
  BY DEF MemoryTypes, Listed
<1>5. Opening0 \subseteq 0 .. MaxId + 1
  BY DEF MemoryTypes, Opening0
<1> QED  BY <1>1, <1>2, <1>3, <1>4, <1>5 DEF Held

\* A list of ids, newest first, names as many tables as it is long.
LEMMA ListedSize ==
    ASSUME NEW s \in Seq(Ids), \A i, j \in DOMAIN s : i < j => s[i] > s[j]
    PROVE  Cardinality({s[i] : i \in DOMAIN s}) = Len(s)
<1> DEFINE D == 1 .. Len(s)
           T == {s[i] : i \in DOMAIN s}
<1>1. Len(s) \in Nat /\ DOMAIN s = D /\ s \in [D -> T] /\ s \in [D -> Ids]
  OBVIOUS
<1>2. IsFiniteSet(D) /\ Cardinality(D) = Len(s)
  <2>1. 1 \in Int /\ Len(s) \in Int
    BY <1>1
  <2>2. IsFiniteSet(D) /\ Cardinality(D) = IF 1 > Len(s) THEN 0 ELSE Len(s) - 1 + 1
    BY <2>1, FS_Interval
  <2> QED  BY <1>1, <2>2
<1>3. ASSUME NEW i \in D, NEW j \in D, s[i] = s[j] PROVE i = j
  <2>1. s[i] \in Nat /\ s[j] \in Nat /\ i \in Nat /\ j \in Nat
    <3>1. s[i] \in Ids /\ s[j] \in Ids /\ Ids \subseteq Nat
      BY <1>1 DEF Ids
    <3>2. D \subseteq Nat
      BY <1>1
    <3> QED  BY <3>1, <3>2
  <2>2. (i < j => s[i] > s[j]) /\ (j < i => s[j] > s[i])
    BY <1>1
  <2> HIDE DEF D, T
  <2> QED  BY <1>3, <2>1, <2>2
<1>4. s \in Injection(D, T)
  <2> HIDE DEF D, T
  <2> QED  BY <1>1, <1>3 DEF Injection, IsInjective
<1>5. s \in Surjection(D, T)
  BY <1>1 DEF Surjection
<1> HIDE DEF D, T
<1>6. Cardinality(T) = Len(s)
  BY <1>2, <1>4, <1>5, FS_Surjection
<1> QED  BY <1>6 DEF T

\* A crash or an error raises the bound; nothing lowers it.
LEMMA CutRises ==
    ASSUME BoundTypes, FileStep, [Next]_vars
    PROVE  /\ crashes' >= crashes /\ fails' >= fails /\ crashes' \in Nat /\ fails' \in Nat
           /\ Crash => crashes' > crashes
<1>1. crashes \in Nat /\ fails \in Nat
  BY DEF BoundTypes
<1>2. crashes' \in {crashes, crashes + 1} /\ fails' \in {fails, fails + 1}
  <2> USE DEF Fails, IgnoredError, Proceeds, Returns, Dies, gvars, bounds, vars
  <2>1. CASE Client
    BY <2>1 DEF Client, WriteAppend, Flush, Close
  <2>2. CASE CallStep \/ OpenStep
    BY <2>2 DEF CallStep, OpenStep, FlushStep, CompactStep, WalSync, FlushSync, SstWrite, SstRename,
                SstSyncDir, SstOpen, WalRemove, WalCreate, WalHeader, WalSyncDir, CmpWrite, CmpRename,
                CmpSyncDir, CmpOpen, Unlink, UnlinkedAll, CmpFinish, Replay, OpenSyncDir
  <2>3. CASE Kill \/ Crash \/ Discover \/ UNCHANGED vars
    BY <2>3 DEF Kill, Crash, Discover
  <2> QED  BY <2>1, <2>2, <2>3 DEF Next
<1>3. Crash => crashes' = crashes + 1
  BY DEF Crash, Dies
<1> QED  BY <1>1, <1>2, <1>3

\* A call leaves the steps after its rename by an error, by the end of the
\* rotation with no compaction due, or by the opening of a compaction's output.
LEMMA LowAgain ==
    ASSUME BoundModel, FInv, FilesInv, [Next]_vars, NeverEmpty, NoDeletes, ~Low, Low'
    PROVE  \/ crashes' > crashes \/ fails' > fails
           \/ pc = "WalSyncDir" /\ pc' = "Idle" /\ Len(l0) < Trigger
              /\ UNCHANGED <<disk, l0, next_sst_id>> /\ dur' = disk
           \/ OpenStepOf(1)
<1>1. /\ MemoryTypes /\ BoundTypes /\ crashes \in Nat /\ fails \in Nat /\ next_sst_id \in Nat
      /\ pc \in Steps /\ tmps \subseteq Files
      /\ pc \notin {"DropUnlink", "DropFinish"}
      /\ pc \in UpSteps \ {"WalCreate"} => wal.exists
  BY DEF FInv, IInv, TypeOK, CallTypes, BoundTypes, MemoryTypes, DirectoryTypes, NeverEmpty
<1>2. pc \notin LowSteps /\ (pc = "CmpWrite" => NewL1 \notin tmps)
  BY DEF Low
<1>3. pc \in {"SstSyncDir", "SstOpen", "WalRemove", "WalCreate", "WalHeader", "WalSyncDir",
              "CmpWrite", "CmpRename", "CmpSyncDir", "CmpOpen", "Corrupt"}
  BY <1>1, <1>2 DEF Steps, UpSteps, BusySteps, FlushSteps, CompactSteps, OpenSteps, LowSteps
<1>4. pc' \in LowSteps \/ (pc' = "CmpWrite" /\ (NewL1 \in tmps)')
  BY DEF Low
<1>5. ~CanFail("WalCreate") /\ ~Kill
  BY DEF CanFail, BoundModel, Kill, Dies
<1>6. \A step : Fails(step) => fails' > fails
  BY <1>1 DEF Fails
<1>7. /\ maybe_compact(l0) \in {"Idle", "CmpWrite"}
      /\ maybe_compact(l0) = "Idle" => Len(l0) < Trigger
  BY <1>1, MaybeCompacts
<1>8. pc = "WalSyncDir" => NewL1 \notin tmps
  <2>1. pc = "WalSyncDir" => \A f \in tmps : f[2] < next_sst_id
    BY DEF FilesInv, IdsBelow, FreshSteps
  <2>2. NewL1[2] = next_sst_id
    BY DEF NewL1
  <2> QED  BY <1>1, <2>1, <2>2
<1> HIDE DEF maybe_compact, Low, NewL1, Fails
<1>9. CASE SstSyncDir
  BY <1>4, <1>6, <1>9 DEF SstSyncDir, Goto, LowSteps, OpenSteps
<1>10. CASE SstOpen
  BY <1>4, <1>6, <1>10 DEF SstOpen, Goto, LowSteps, OpenSteps
<1>11. CASE WalRemove
  BY <1>1, <1>4, <1>6, <1>11
     DEF WalRemove, Goto, LowSteps, OpenSteps, UpSteps, BusySteps, FlushSteps
<1>12. CASE WalCreate
  BY <1>2, <1>3, <1>4, <1>6, <1>12 DEF WalCreate, Goto, LowSteps, OpenSteps, Opening
<1>13. CASE WalHeader
  BY <1>2, <1>3, <1>4, <1>6, <1>13 DEF WalHeader, Goto, LowSteps, OpenSteps, Opening
<1>14. CASE WalSyncDir
  <2>1. CASE SyncDir /\ pc' = maybe_compact(l0)
    <3>1. NewL1' = NewL1 /\ tmps' = tmps
      BY <1>14 DEF WalSyncDir, NewL1
    <3>2. pc' # "CmpWrite"
      BY <1>4, <1>8, <1>14, <3>1 DEF WalSyncDir, LowSteps, OpenSteps
    <3> QED  BY <1>7, <1>14, <2>1, <3>2 DEF WalSyncDir, SyncDir
  <2> QED  BY <1>6, <1>14, <2>1 DEF WalSyncDir, Goto
<1>15. CASE CmpWrite
  <2>1. CompactionOutput # NoTable
    BY <1>15, OutputWritten DEF CmpWrite, NeverEmpty
  <2> QED  BY <1>2, <1>4, <1>6, <1>15, <2>1 DEF CmpWrite, Goto, LowSteps, OpenSteps
<1>16. CASE CmpRename \/ CmpSyncDir
  BY <1>4, <1>6, <1>16 DEF CmpRename, CmpSyncDir, Goto, LowSteps, OpenSteps
<1>17. CASE CmpOpen
  BY <1>6, <1>17 DEF CmpOpen, OpenStepOf, Goto, dvars
<1>18. CASE Crash
  <2>1. crashes' = crashes + 1
    BY <1>18 DEF Crash, Dies
  <2> QED  BY <1>1, <2>1
<1>19. CASE UNCHANGED vars
  BY <1>2, <1>4, <1>19 DEF vars, mvars, dvars, NewL1
<1>20. CASE SstWrite \/ SstRename \/ WalSync \/ FlushSync \/ Unlink \/ UnlinkedAll \/ CmpFinish
            \/ OpenStep \/ Discover \/ Client
  BY <1>1, <1>3, <1>20
     DEF SstWrite, SstRename, WalSync, FlushSync, Unlink, UnlinkedAll, CmpFinish, OpenStep, Replay,
         OpenSyncDir, Discover, Client, WriteAppend, Flush, Close, Admits
<1> QED
  BY <1>5, <1>9, <1>10, <1>11, <1>12, <1>13, <1>14, <1>15, <1>16, <1>17, <1>18, <1>19, <1>20
     DEF Next, CallStep, FlushStep, CompactStep

\* Every step preserves the bound.
LEMMA NextHeldBounded ==
    ASSUME BoundModel, FInv, FilesInv, NoDeletes, NeverEmpty, HeldBounded, [Next]_vars
    PROVE  HeldBounded'
<1>1. /\ MemoryTypes /\ MemoryTypes' /\ BoundTypes /\ LevelOrder'
      /\ crashes \in Nat /\ fails \in Nat /\ Trigger \in Nat /\ Trigger > 0
  <2>1. FInv'
    BY NextFInv
  <2> QED  BY <2>1, ConstantsAssumption DEF FInv, IInv, TypeOK, BoundTypes, BoundModel
<1>2. FileStep
  BY FileSteps
<1>3. /\ crashes' >= crashes /\ fails' >= fails /\ crashes' \in Nat /\ fails' \in Nat
      /\ Crash => crashes' > crashes
  BY <1>1, <1>2, CutRises
<1>4. Cut \in Nat /\ Cut' \in Nat /\ Cut <= Cut' /\ Trigger <= Cut'
      /\ (crashes' > crashes \/ fails' > fails => Cut < Cut')
  <2>1. Cut = Trigger + crashes + fails /\ Cut' = Trigger + crashes' + fails'
    BY DEF Cut
  <2>2. \A a, b, m, n \in Nat : b >= a /\ n >= m =>
            /\ Trigger + a + m \in Nat /\ Trigger + b + n \in Nat
            /\ Trigger + a + m <= Trigger + b + n /\ Trigger <= Trigger + b + n
            /\ (b > a \/ n > m => Trigger + a + m < Trigger + b + n)
    BY <1>1
  <2> HIDE DEF Cut
  <2> QED  BY <1>1, <1>3, <2>1, <2>2
<1> DEFINE S == 0 .. MaxId + 1
           c == Cardinality(Held)
           d == Cardinality(Held')
<1>5. Held' \subseteq Held \/ (RenameStep(0) /\ Held' \subseteq Held \cup {next_sst_id})
  BY <1>2, NextFilesInv
<1>6. IsFiniteSet(Held)
  BY <1>1, HeldFinite, FS_Subset
<1>7. c \in Nat /\ d \in Nat
  <2>1. IsFiniteSet(Held \cup {next_sst_id})
    BY <1>6, FS_AddElement
  <2>2. IsFiniteSet(Held')
    <3>1. Held' \in SUBSET (Held \cup {next_sst_id})
      BY <1>5
    <3> QED  BY <2>1, <3>1, FS_Subset
  <2> QED  BY <1>6, <2>2, FS_CardinalityType
<1>8. c <= Cut /\ (Low => c < Cut)
  BY DEF HeldBounded
<1>9. HeldBounded' <=> (d <= Cut' /\ (Low' => d < Cut'))
  BY DEF HeldBounded
<1> HIDE DEF S, Cut
<1>10. CASE RenameStep(0) /\ Held' \subseteq Held \cup {next_sst_id}
  <2>1. Low /\ ~Low'
    BY <1>10 DEF RenameStep, Low, LowSteps, OpenSteps
  <2>2. IsFiniteSet(Held \cup {next_sst_id}) /\ Cardinality(Held \cup {next_sst_id}) <= c + 1
    <3>1. /\ IsFiniteSet(Held \cup {next_sst_id})
          /\ Cardinality(Held \cup {next_sst_id}) = IF next_sst_id \in Held THEN c ELSE c + 1
      BY <1>6, FS_AddElement
    <3> HIDE DEF c, d
    <3> QED  BY <1>7, <3>1
  <2>3. d <= Cardinality(Held \cup {next_sst_id}) /\ Cardinality(Held \cup {next_sst_id}) \in Nat
    BY <1>10, <2>2, FS_Subset, FS_CardinalityType
  <2> HIDE DEF c, d
  <2>4. d <= c + 1
    BY <1>7, <2>2, <2>3
  <2> QED  BY <1>4, <1>7, <1>8, <1>9, <2>1, <2>4
<1>11. CASE Held' \subseteq Held
  <2>1. d <= c
    BY <1>6, <1>11, FS_Subset
  <2>2. CASE pc = "WalSyncDir" /\ pc' = "Idle" /\ Len(l0) < Trigger
             /\ UNCHANGED <<disk, l0, next_sst_id>> /\ dur' = disk
    <3>1. Held' \subseteq Listed'
      <4>1. Owed' \subseteq Owed
        BY <2>2, KeptNarrows, OwedNarrows
      <4>2. Owed \subseteq Listed \cup {next_sst_id}
        BY <2>2 DEF FilesInv, OwedListed, Serving, Steps, UpSteps, BusySteps, FlushSteps
      <4>3. next_sst_id \notin Owed
        <5>1. \A i \in There(0) : i < next_sst_id
          BY <2>2 DEF FilesInv, IdsBelow, FreshSteps
        <5>2. next_sst_id \in Nat
          BY <1>1 DEF MemoryTypes
        <5> QED  BY <5>1, <5>2 DEF Owed
      <4>4. Opening0' = {} /\ Listed' = Listed
        BY <2>2 DEF Opening0, Listed
      <4> QED  BY <4>1, <4>2, <4>3, <4>4 DEF Held
    <3>2. Listed' \subseteq Held'
      BY DEF Held
    <3>3. Held' = Listed'
      BY <3>1, <3>2
    <3>4. d = Len(l0')
      <4>1. l0' \in Seq(Ids) /\ \A i, j \in DOMAIN l0' : i < j => l0'[i] > l0'[j]
        BY <1>1 DEF MemoryTypes, LevelOrder
      <4> DEFINE s == l0'
      <4>2. Cardinality({s[i] : i \in DOMAIN s}) = Len(s)
        BY <4>1, ListedSize
      <4> QED  BY <3>3, <4>2 DEF Listed
    <3>5. d < Trigger
      BY <2>2, <3>4
    <3> HIDE DEF c, d
    <3> QED  BY <1>1, <1>4, <1>7, <1>9, <3>5
  <2>3. CASE OpenStepOf(1)
    <3>1. Held' = {}
      BY <2>3, ListedFiles DEF Held, Opening0, OpenStepOf
    <3>2. d = 0
      BY <3>1, FS_EmptySet
    <3> HIDE DEF c, d
    <3> QED  BY <1>1, <1>4, <1>9, <3>2
  <2>4. CASE Low \/ ~Low' \/ crashes' > crashes \/ fails' > fails
    <3> HIDE DEF c, d
    <3> QED  BY <1>3, <1>4, <1>7, <1>8, <1>9, <2>1, <2>4
  <2> QED  BY <2>2, <2>3, <2>4, LowAgain
<1> QED  BY <1>5, <1>10, <1>11

\* The invariant holds of an empty directory, and of what every step leaves.
LEMMA InitBoundInv == ASSUME BoundModel, Init PROVE BoundInv
<1>1. FInv
  BY InitRInv DEF RInv
<1>2. pc = "Down" /\ l0 = <<>> /\ disk = [f \in Files |-> NoTable] /\ dur = disk /\ tmps = {}
  BY DEF Init
<1>3. \A level \in {0, 1} : IdsAt(level) = {} /\ DurAt(level) = {}
  BY <1>2 DEF IdsAt, DurAt, Files
<1>4. NoDeletes
  BY ConstantsAssumption DEF Init, NoDeletes, PutsOnly, NoTable, NoReq, NoWal
<1>5. NeverEmpty
  BY <1>2 DEF NeverEmpty, UpSteps, BusySteps, FlushSteps, CompactSteps
<1>6. FilesInv
  BY <1>2, <1>3 DEF FilesInv, IdsBelow, LastIdKept, OutputsDurable, OwedListed, LeftoversDead,
                    Serving, FreshSteps, OpenSteps
<1>7. Held = {}
  BY <1>2, <1>3 DEF Held, Listed, Owed, There, Opening0
<1>8. Cut \in Nat /\ Cut > 0
  BY ConstantsAssumption DEF Init, Cut, BoundModel
<1>9. HeldBounded
  BY <1>7, <1>8, FS_EmptySet DEF HeldBounded
<1> QED  BY <1>1, <1>4, <1>5, <1>6, <1>9 DEF BoundInv

\* Every step preserves it: the parts one after the other.
LEMMA NextBoundInv == ASSUME BoundModel, BoundInv, [Next]_vars PROVE BoundInv'
<1>1. FInv /\ NoDeletes /\ NeverEmpty /\ FilesInv /\ HeldBounded
  BY DEF BoundInv
<1>2. NoDeletes'
  BY <1>1, NextNoDeletes DEF FInv, IInv
<1>3. FilesInv'
  BY <1>1, FileSteps, NextFilesInv
<1> QED  BY <1>1, <1>2, <1>3, NextFInv, NextNeverEmpty, NextHeldBounded DEF BoundInv

\* What is listed counts.
LEMMA BoundInvBounds == ASSUME BoundInv PROVE L0Bounded
<1>1. MemoryTypes /\ LevelOrder /\ HeldBounded /\ BoundTypes
  BY DEF BoundInv, FInv, IInv, TypeOK
<1>2. Listed \in SUBSET Held /\ IsFiniteSet(Held) /\ Cardinality(Held) \in Nat
  <2>1. IsFiniteSet(Held)
    BY <1>1, HeldFinite, FS_Subset
  <2> QED  BY <2>1, FS_CardinalityType DEF Held
<1>3. Cardinality(Listed) <= Cardinality(Held)
  BY <1>2, FS_Subset
<1>4. Cardinality(Listed) = Len(l0) /\ Len(l0) \in Nat
  BY <1>1, ListedSize DEF MemoryTypes, LevelOrder, Listed
<1>5. Cardinality(Held) <= Trigger + crashes + fails
  BY <1>1 DEF HeldBounded, Cut
<1>6. Trigger \in Nat /\ crashes \in Nat /\ fails \in Nat
  BY <1>1, ConstantsAssumption DEF BoundTypes
<1> QED  BY <1>2, <1>3, <1>4, <1>5, <1>6 DEF L0Bounded

\* Level 0 exceeds the compaction trigger by no more than one table for every
\* crash and every failed call, however many flushes a crash cut off.
THEOREM LevelZeroBounded == ASSUME BoundModel PROVE Spec => []L0Bounded
<1>1. Init => BoundInv
  BY InitBoundInv
<1>2. BoundInv /\ [Next]_vars => BoundInv'
  BY NextBoundInv
<1>3. BoundInv => L0Bounded
  BY BoundInvBounds
<1> QED  BY <1>1, <1>2, <1>3, PTL DEF Spec
=============================================================================

------------------------------ MODULE LsmProofs ------------------------------
(***************************************************************************)
(* Theorems about Lsm, for every set of keys and values, every trigger and *)
(* memtable size, and whatever crashes, kills and I/O errors CrashAt,      *)
(* KillAt and FailAt allow.                                                *)
(***************************************************************************)
EXTENDS Lsm, SetLemmas, FiniteSetTheorems, TLAPS

-----------------------------------------------------------------------------
(* What the operators return                                               *)

\* The newest cell of a key among some table files is a cell.
LEMMA NewestCellType ==
    ASSUME disk \in [Files -> Tables], NEW S \in SUBSET Files, NEW k \in Keys
    PROVE  NewestCell(S, k) \in Cells
<1> DEFINE hits == {f \in S : disk[f][k] # Missing}
<1>1. CASE hits = {}
  BY <1>1 DEF NewestCell, Cells
<1>2. CASE hits # {}
  <2> DEFINE ids == {f[2] : f \in hits}
  <2>0. MaxId \in Nat /\ \A f \in hits : f \in Files /\ f[2] \in 0 .. MaxId
    BY ConstantsAssumption DEF Files, Ids
  <2>1. ids \in SUBSET (0 .. MaxId) /\ ids # {}
    BY <1>2, <2>0
  <2>2. Max(ids) \in ids /\ \A i \in ids : i <= Max(ids)
    BY <2>0, <2>1, MaxOfNats
  <2>3. PICK f \in hits : f[2] = Max(ids)
    BY <2>2
  <2>4. \A g \in hits : g[2] \in ids
    OBVIOUS
  <2>5. \A g \in hits : NewestWins(f, g)
    BY <2>2, <2>3, <2>4 DEF NewestWins
  <2> DEFINE c == CHOOSE h \in hits : \A g \in hits : NewestWins(h, g)
  <2>6. c \in hits
    BY <2>5
  <2>7. disk[c][k] \in Cells
    BY <2>6, <2>0 DEF Tables
  <2> QED  BY <1>2, <2>7 DEF NewestCell
<1> QED  BY <1>1, <1>2

\* Sorting a set of ids newest first gives a sequence of them.
LEMMA NewestFirstType ==
    ASSUME NEW S \in SUBSET Ids, NEW s \in NewestFirst(S)
    PROVE  /\ s \in Seq(Ids) /\ Len(s) = Cardinality(S)
           /\ \A i \in DOMAIN s : s[i] \in S
           /\ \A i, j \in DOMAIN s : i < j => s[i] > s[j]
<1>1. Cardinality(S) \in Nat
  <2>1. 0 \in Int /\ MaxId \in Int
    BY ConstantsAssumption
  <2>2. IsFiniteSet(Ids)
    BY <2>1, FS_Interval DEF Ids
  <2>3. IsFiniteSet(S)
    BY <2>2, FS_Subset
  <2> QED  BY <2>3, FS_CardinalityType
<1>2. s \in [1 .. Cardinality(S) -> S] /\ \A i, j \in DOMAIN s : i < j => s[i] > s[j]
  BY DEF NewestFirst
<1> QED  BY <1>1, <1>2

\* A record that replay reaches is not torn.
LEMMA ReadableRecords ==
    ASSUME NEW w \in Wals
    PROVE  /\ ReadableLen(w) \in 0 .. Len(w.recs)
           /\ \A i \in 1 .. ReadableLen(w) : w.recs[i] \in Records
<1> DEFINE torn == {i \in DOMAIN w.recs : w.recs[i] = Torn}
<1>0. /\ w.recs \in Seq(Records \cup {Torn}) /\ Len(w.recs) \in Nat
      /\ DOMAIN w.recs = 1 .. Len(w.recs)
      /\ w.exists \in BOOLEAN /\ w.hdr \in BOOLEAN
  BY DEF Wals
<1>1. CASE ~w.exists \/ ~w.hdr
  BY <1>0, <1>1 DEF ReadableLen
<1>2. CASE w.exists /\ w.hdr /\ torn # {}
  <2>1. torn \in SUBSET Nat
    BY <1>0
  <2>2. Min(torn) \in torn /\ \A i \in torn : Min(torn) <= i
    BY <1>2, <2>1, MinOfNats
  <2>3. ReadableLen(w) = Min(torn) - 1
    BY <1>2 DEF ReadableLen
  <2>4. ReadableLen(w) \in 0 .. Len(w.recs)
    BY <1>0, <2>2, <2>3
  <2>5. ASSUME NEW i \in 1 .. ReadableLen(w)
        PROVE  i \in DOMAIN w.recs /\ w.recs[i] # Torn
    <3>1. i \in DOMAIN w.recs /\ i < Min(torn)
      BY <1>0, <2>2, <2>3, <2>4
    <3>2. i \notin torn
      <4>1. i \in Nat /\ Min(torn) \in Nat
        BY <1>0, <2>1, <2>2, <3>1
      <4> HIDE DEF torn
      <4> QED  BY <2>2, <3>1, <4>1
    <3> QED  BY <3>1, <3>2
  <2> QED  BY <1>0, <2>4, <2>5
<1>3. CASE w.exists /\ w.hdr /\ torn = {}
  <2>1. ReadableLen(w) = Len(w.recs)
    BY <1>3 DEF ReadableLen
  <2>2. \A i \in 1 .. Len(w.recs) : w.recs[i] # Torn
    BY <1>0, <1>3
  <2> QED  BY <1>0, <2>1, <2>2
<1> QED  BY <1>0, <1>1, <1>2, <1>3

\* What replay finds for a key is a cell.
LEMMA ReplayedCellType ==
    ASSUME NEW w \in Wals, NEW k \in Keys
    PROVE  ReplayedCell(w, k) \in Cells
<1> DEFINE hits == {i \in 1 .. ReadableLen(w) : w.recs[i].key = k}
<1>0. ReadableLen(w) \in Nat /\ \A i \in 1 .. ReadableLen(w) : w.recs[i] \in Records
  <2>1. Len(w.recs) \in Nat
    BY DEF Wals
  <2> QED  BY <2>1, ReadableRecords
<1>1. CASE hits = {}
  BY <1>1 DEF ReplayedCell, Cells
<1>2. CASE hits # {}
  <2>1. hits \in SUBSET (0 .. ReadableLen(w))
    BY <1>0
  <2>2. Max(hits) \in hits
    BY <1>0, <1>2, <2>1, MaxOfNats
  <2>3. w.recs[Max(hits)] \in Records
    BY <1>0, <2>2
  <2>4. w.recs[Max(hits)].entry \in Cells
    BY <2>3 DEF Records, Cells
  <2> QED  BY <1>2, <2>4 DEF ReplayedCell
<1> QED  BY <1>1, <1>2

\* Replacing the records of a WAL file gives a WAL file.
LEMMA WalUpdateType ==
    ASSUME NEW w \in Wals, NEW r \in Seq(Records \cup {Torn}), NEW m \in Nat
    PROVE  [w EXCEPT !.recs = r, !.synced = m] \in Wals
BY DEF Wals

\* A crash leaves of a WAL file a WAL file.
LEMMA SurvivorsType ==
    ASSUME NEW w \in Wals, NEW x \in Survivors(w)
    PROVE  x \in Wals
<1>0. w.recs \in Seq(Records \cup {Torn}) /\ w.synced \in Nat /\ Len(w.recs) \in Nat
  BY DEF Wals
<1>1. CASE \E n \in w.synced .. Len(w.recs) :
              x = [w EXCEPT !.recs = SubSeq(w.recs, 1, n), !.synced = n]
  <2>1. PICK n \in w.synced .. Len(w.recs) :
              x = [w EXCEPT !.recs = SubSeq(w.recs, 1, n), !.synced = n]
    BY <1>1
  <2>2. n \in Nat /\ n <= Len(w.recs)
    BY <1>0
  <2>3. SubSeq(w.recs, 1, n) \in Seq(Records \cup {Torn})
    BY <1>0, <2>2
  <2> QED  BY <2>1, <2>2, <2>3, WalUpdateType
<1>2. CASE \E n \in w.synced .. Len(w.recs) - 1 :
              x = [w EXCEPT !.recs = SubSeq(w.recs, 1, n) \o <<Torn>>, !.synced = n + 1]
  <2>1. PICK n \in w.synced .. Len(w.recs) - 1 :
              x = [w EXCEPT !.recs = SubSeq(w.recs, 1, n) \o <<Torn>>, !.synced = n + 1]
    BY <1>2
  <2>2. n \in Nat /\ n <= Len(w.recs)
    BY <1>0
  <2>3. SubSeq(w.recs, 1, n) \in Seq(Records \cup {Torn})
    BY <1>0, <2>2
  <2>4. SubSeq(w.recs, 1, n) \o <<Torn>> \in Seq(Records \cup {Torn})
    BY <2>3
  <2>5. n + 1 \in Nat
    BY <2>2
  <2> QED  BY <2>1, <2>4, <2>5, WalUpdateType
<1> QED  BY <1>1, <1>2 DEF Survivors

\* Appending to, and syncing, the WAL keeps it a WAL file.
LEMMA WalStepType ==
    ASSUME WalTypes
    PROVE  /\ \A x \in Records \cup {Torn} : Appended(x) \in Wals
           /\ SyncedWal \in Wals
           /\ NoWal \in Wals /\ [NoWal EXCEPT !.exists = TRUE] \in Wals
           /\ [wal EXCEPT !.hdr = TRUE] \in Wals
<1>1. wal \in Wals
  BY DEF WalTypes
<1>2. wal.recs \in Seq(Records \cup {Torn}) /\ Len(wal.recs) \in Nat
  BY <1>1 DEF Wals
<1>3. ASSUME NEW x \in Records \cup {Torn}
      PROVE  Appended(x) \in Wals
  <2>1. Append(wal.recs, x) \in Seq(Records \cup {Torn})
    BY <1>2
  <2> QED  BY <1>1, <2>1 DEF Appended, Wals
<1>4. SyncedWal \in Wals
  BY <1>1, <1>2 DEF SyncedWal, Wals
<1>5. NoWal \in Wals /\ [NoWal EXCEPT !.exists = TRUE] \in Wals
  <2>1. <<>> \in Seq(Records \cup {Torn}) /\ 0 \in Nat
    OBVIOUS
  <2> HIDE DEF Records
  <2>2. NoWal \in Wals
    BY <2>1 DEF NoWal, Wals
  <2>3. [NoWal EXCEPT !.exists = TRUE] \in Wals
    BY <2>2 DEF Wals
  <2> QED  BY <2>2, <2>3
<1>6. [wal EXCEPT !.hdr = TRUE] \in Wals
  BY <1>1 DEF Wals
<1> QED  BY <1>3, <1>4, <1>5, <1>6

\* What get answers for a cell is an answer.
LEMMA AnswerType == ASSUME NEW c PROVE Answer(c) \in Answers
BY DEF Answer, Answers

\* The tables discover_sstables keeps are tables it found; it keeps at most
\* one of level 1, and of level 0 only newer ones.
LEMMA LiveTables ==
    /\ SurvivingL1 \subseteq IdsAt(1) /\ LiveL0 \subseteq IdsAt(0)
    /\ Cardinality(SurvivingL1) \in {0, 1}
    /\ \A i \in LiveL0, j \in SurvivingL1 : i > j
<1>1. IdsAt(1) \in SUBSET (0 .. MaxId) /\ MaxId \in Nat
  BY ConstantsAssumption DEF IdsAt, Ids
<1>2. IdsAt(1) # {} => Max(IdsAt(1)) \in IdsAt(1)
  BY <1>1, MaxOfNats
<1>3. SurvivingL1 \subseteq IdsAt(1)
  BY <1>2 DEF SurvivingL1
<1>4. Cardinality(SurvivingL1) \in {0, 1}
  BY FS_EmptySet, FS_Singleton DEF SurvivingL1
<1> QED  BY <1>3, <1>4 DEF LiveL0

\* The id discover_sstables hands out next is above every table found.
LEMMA NextIdAbove ==
    /\ NextId \in 0 .. MaxId + 1
    /\ \A i \in IdsAt(0) \cup IdsAt(1) : i < NextId
<1> DEFINE S == IdsAt(0) \cup IdsAt(1)
<1>1. S \in SUBSET (0 .. MaxId) /\ MaxId \in Nat
  BY ConstantsAssumption DEF IdsAt, Ids
<1>2. CASE S = {}
  BY <1>1, <1>2 DEF NextId
<1>3. CASE S # {}
  <2>1. Max(S) \in S /\ \A i \in S : i <= Max(S)
    BY <1>1, <1>3, MaxOfNats
  <2>2. NextId = Max(S) + 1
    BY <1>3 DEF NextId
  <2> HIDE DEF S
  <2>3. Max(S) \in 0 .. MaxId /\ \A i \in S : i \in 0 .. MaxId
    BY <1>1, <2>1
  <2>4. NextId \in 0 .. MaxId + 1
    BY <1>1, <2>2, <2>3
  <2>5. \A i \in S : i < NextId
    BY <1>1, <2>1, <2>2, <2>3
  <2> QED  BY <2>4, <2>5 DEF S
<1> QED  BY <1>2, <1>3

\* Registering a flushed table puts its id before the others.
LEMMA RegisterL0Shape ==
    ASSUME l0 \in Seq(Ids), next_sst_id \in Ids
    PROVE  /\ RegisterL0 \in Seq(Ids)
           /\ DOMAIN RegisterL0 = 1 .. Len(l0) + 1
           /\ RegisterL0[1] = next_sst_id
           /\ \A i \in 2 .. Len(l0) + 1 : i - 1 \in DOMAIN l0 /\ RegisterL0[i] = l0[i - 1]
<1>1. <<next_sst_id>> \in Seq(Ids) /\ Len(<<next_sst_id>>) = 1
  OBVIOUS
<1>2. RegisterL0 \in Seq(Ids) /\ Len(RegisterL0) = Len(l0) + 1
  BY <1>1 DEF RegisterL0
<1>3. RegisterL0[1] = next_sst_id
  BY <1>1 DEF RegisterL0
<1>4. \A i \in 2 .. Len(l0) + 1 : i - 1 \in DOMAIN l0 /\ RegisterL0[i] = l0[i - 1]
  BY <1>1 DEF RegisterL0
<1> QED  BY <1>2, <1>3, <1>4

-----------------------------------------------------------------------------
(* The inductive invariant                                                 *)

\* A call that may still allocate an id has room for it: WriteAppend and
\* Flush are admitted below MaxId, and a call allocates at most two.
IdRoom ==
    /\ pc \in {"WalSync", "FlushSync", "SstWrite", "SstRename", "SstSyncDir", "SstOpen"}
          => next_sst_id < MaxId
    /\ pc \in {"WalRemove", "WalCreate", "WalHeader", "WalSyncDir",
               "CmpWrite", "CmpRename", "CmpSyncDir", "CmpOpen"}
          => next_sst_id <= MaxId

\* The type invariant and the order of the levels, with the room they need.
IInv == TypeOK /\ IdRoom /\ LevelOrder

\* Init establishes the invariant: no engine, an empty directory.
LEMMA InitInv == Init => IInv
<1> SUFFICES ASSUME Init PROVE IInv
  OBVIOUS
<1>1. CallTypes
  BY DEF Init, CallTypes, Steps
<1>2. NoTable \in Tables
  BY DEF NoTable, Tables, Cells
<1>3. MemoryTypes
  BY <1>2, ConstantsAssumption DEF Init, MemoryTypes
<1>4. DirectoryTypes
  BY <1>2 DEF Init, DirectoryTypes
<1>5. WalTypes
  <2>1. <<>> \in Seq(Records \cup {Torn})
    OBVIOUS
  <2>2. NoWal \in Wals
    BY <2>1 DEF NoWal, Wals
  <2> QED  BY <2>2 DEF Init, WalTypes
<1>6. GhostTypes /\ BoundTypes
  BY DEF Init, GhostTypes, BoundTypes, Answers
<1>7. IdRoom /\ LevelOrder
  BY ConstantsAssumption DEF Init, IdRoom, LevelOrder
<1> QED  BY <1>1, <1>3, <1>4, <1>5, <1>6, <1>7 DEF IInv, TypeOK

\* Every step of the engine, of the disk or of a crash preserves it.
LEMMA NextInv == IInv /\ [Next]_vars => IInv'
<1> SUFFICES ASSUME IInv, [Next]_vars PROVE IInv'
  OBVIOUS
<1>1. /\ CallTypes /\ MemoryTypes /\ DirectoryTypes /\ WalTypes /\ GhostTypes /\ BoundTypes
      /\ IdRoom /\ LevelOrder /\ MaxId \in Nat
  BY ConstantsAssumption DEF IInv, TypeOK
<1>2. NoTable \in Tables
  BY DEF NoTable, Tables, Cells
<1> USE DEF Goto, Fails, IgnoredError, Proceeds, Returns, Opening,
            mvars, dvars, wvars, gvars, bounds
<1>3. CASE \E k \in Keys, e \in Writes : WriteAppend(k, e)
  <2>0. PICK k \in Keys, e \in Writes : WriteAppend(k, e)
    BY <1>3
  <2> DEFINE r == [key |-> k, entry |-> e]
  <2>9. r \in Records
    BY ConstantsAssumption DEF Records
  <2>1. CallTypes'
    BY <1>1, <1>3, <2>0, <2>9 DEF WriteAppend, CallTypes,
       FlushSteps, CompactSteps, OpenSteps, BusySteps, UpSteps, Steps
  <2>2. WalTypes'
    BY <1>1, <1>3, <2>0, <2>9, WalStepType DEF WriteAppend, WalTypes
  <2>3. GhostTypes'
    BY <1>1, <1>3, <2>0, AnswerType DEF WriteAppend, GhostTypes, InLimbo
  <2>4. BoundTypes'
    BY <1>1, <1>3 DEF WriteAppend, BoundTypes
  <2>5. IdRoom'
    BY <1>1, <1>3 DEF WriteAppend, IdRoom, Admits, OpenSteps, MemoryTypes
  <2>6. MemoryTypes' /\ DirectoryTypes' /\ LevelOrder'
    BY <1>1, <1>3 DEF WriteAppend, MemoryTypes, DirectoryTypes, LevelOrder
  <2> QED  BY <2>1, <2>2, <2>3, <2>4, <2>5, <2>6 DEF IInv, TypeOK
<1>4. CASE WalSync
  <2>1. CallTypes'
    BY <1>1, <1>4 DEF WalSync, CallTypes, maybe_compact,
       FlushSteps, CompactSteps, OpenSteps, BusySteps, UpSteps, Steps
  <2>2. MemoryTypes'
    BY <1>1, <1>4 DEF WalSync, MemoryTypes, CallTypes, Tables, Cells, Records
  <2>3. WalTypes'
    BY <1>1, <1>4, WalStepType DEF WalSync, WalTypes
  <2>4. GhostTypes'
    BY <1>1, <1>4, AnswerType DEF WalSync, GhostTypes
  <2>5. BoundTypes'
    BY <1>1, <1>4 DEF WalSync, BoundTypes
  <2>6. IdRoom'
    BY <1>1, <1>4 DEF WalSync, IdRoom, maybe_compact, OpenSteps, MemoryTypes
  <2>7. DirectoryTypes' /\ LevelOrder'
    BY <1>1, <1>4 DEF WalSync, DirectoryTypes, LevelOrder
  <2> QED  BY <2>1, <2>2, <2>3, <2>4, <2>5, <2>6, <2>7 DEF IInv, TypeOK
<1>5. CASE Flush
  <2>1. CallTypes'
    BY <1>1, <1>5 DEF Flush, CallTypes, Admits,
       FlushSteps, CompactSteps, OpenSteps, BusySteps, UpSteps, Steps
  <2>2. BoundTypes'
    BY <1>1, <1>5 DEF Flush, BoundTypes
  <2>3. IdRoom'
    BY <1>1, <1>5 DEF Flush, IdRoom, Admits, OpenSteps, MemoryTypes
  <2>4. MemoryTypes' /\ DirectoryTypes' /\ WalTypes' /\ GhostTypes' /\ LevelOrder'
    BY <1>1, <1>5 DEF Flush, MemoryTypes, DirectoryTypes, WalTypes, GhostTypes, LevelOrder
  <2> QED  BY <2>1, <2>2, <2>3, <2>4 DEF IInv, TypeOK
<1>6. CASE FlushSync
  <2>1. CallTypes'
    BY <1>1, <1>6 DEF FlushSync, CallTypes, maybe_compact,
       FlushSteps, CompactSteps, OpenSteps, BusySteps, UpSteps, Steps
  <2>2. WalTypes'
    BY <1>1, <1>6, WalStepType DEF FlushSync, WalTypes
  <2>3. BoundTypes'
    BY <1>1, <1>6 DEF FlushSync, BoundTypes
  <2>4. IdRoom'
    BY <1>1, <1>6 DEF FlushSync, IdRoom, maybe_compact, OpenSteps, MemoryTypes
  <2>5. MemoryTypes' /\ DirectoryTypes' /\ GhostTypes' /\ LevelOrder'
    BY <1>1, <1>6 DEF FlushSync, MemoryTypes, DirectoryTypes, GhostTypes, LevelOrder
  <2> QED  BY <2>1, <2>2, <2>3, <2>4, <2>5 DEF IInv, TypeOK
<1>7. CASE SstWrite
  <2>1. CallTypes'
    BY <1>1, <1>7 DEF SstWrite, CallTypes,
       FlushSteps, CompactSteps, OpenSteps, BusySteps, UpSteps, Steps
  <2>2. DirectoryTypes'
    BY <1>1, <1>7 DEF SstWrite, DirectoryTypes, NewL0, Files, Ids, IdRoom, MemoryTypes
  <2>3. BoundTypes'
    BY <1>1, <1>7 DEF SstWrite, BoundTypes
  <2>4. IdRoom'
    BY <1>1, <1>7 DEF SstWrite, IdRoom, OpenSteps, MemoryTypes
  <2>5. MemoryTypes' /\ WalTypes' /\ GhostTypes' /\ LevelOrder'
    BY <1>1, <1>7 DEF SstWrite, MemoryTypes, WalTypes, GhostTypes, LevelOrder
  <2> QED  BY <2>1, <2>2, <2>3, <2>4, <2>5 DEF IInv, TypeOK
<1>8. CASE SstRename
  <2>1. CallTypes'
    BY <1>1, <1>8 DEF SstRename, CallTypes,
       FlushSteps, CompactSteps, OpenSteps, BusySteps, UpSteps, Steps
  <2>2. DirectoryTypes'
    BY <1>1, <1>8 DEF SstRename, DirectoryTypes, MemoryTypes
  <2>3. BoundTypes'
    BY <1>1, <1>8 DEF SstRename, BoundTypes
  <2>4. IdRoom'
    BY <1>1, <1>8 DEF SstRename, IdRoom, OpenSteps, MemoryTypes
  <2>5. MemoryTypes' /\ WalTypes' /\ GhostTypes' /\ LevelOrder'
    BY <1>1, <1>8 DEF SstRename, MemoryTypes, WalTypes, GhostTypes, LevelOrder
  <2> QED  BY <2>1, <2>2, <2>3, <2>4, <2>5 DEF IInv, TypeOK
<1>9. CASE SstSyncDir
  <2>1. CallTypes'
    BY <1>1, <1>9 DEF SstSyncDir, CallTypes,
       FlushSteps, CompactSteps, OpenSteps, BusySteps, UpSteps, Steps
  <2>2. DirectoryTypes'
    BY <1>1, <1>9 DEF SstSyncDir, DirectoryTypes, SyncDir
  <2>3. WalTypes'
    BY <1>1, <1>9 DEF SstSyncDir, WalTypes, SyncDir
  <2>4. BoundTypes'
    BY <1>1, <1>9 DEF SstSyncDir, BoundTypes
  <2>5. IdRoom'
    BY <1>1, <1>9 DEF SstSyncDir, IdRoom, OpenSteps, MemoryTypes
  <2>6. MemoryTypes' /\ GhostTypes' /\ LevelOrder'
    BY <1>1, <1>9 DEF SstSyncDir, MemoryTypes, GhostTypes, LevelOrder
  <2> QED  BY <2>1, <2>2, <2>3, <2>4, <2>5, <2>6 DEF IInv, TypeOK
<1>10. CASE SstOpen
  <2>0. next_sst_id \in Ids /\ next_sst_id + 1 \in 0 .. MaxId + 1 /\ l0 \in Seq(Ids)
    BY <1>1, <1>10 DEF SstOpen, MemoryTypes, Ids, IdRoom
  <2>1. CallTypes'
    BY <1>1, <1>10 DEF SstOpen, CallTypes,
       FlushSteps, CompactSteps, OpenSteps, BusySteps, UpSteps, Steps
  <2>2. MemoryTypes'
    BY <1>1, <1>10, <2>0, RegisterL0Shape DEF SstOpen, MemoryTypes
  <2>3. BoundTypes'
    BY <1>1, <1>10 DEF SstOpen, BoundTypes
  <2>4. IdRoom'
    BY <1>1, <1>10 DEF SstOpen, IdRoom, OpenSteps, MemoryTypes
  <2>5. LevelOrder'
    <3>1. CASE l0' = RegisterL0 /\ next_sst_id' = next_sst_id + 1
      <4>1. \A i \in DOMAIN l0 : l0[i] \in 0 .. MaxId /\ l0[i] < next_sst_id
        BY <1>1, <2>0 DEF LevelOrder, Ids
      <4>2. l1' = l1 /\ l1 \in Seq(0 .. MaxId) /\ next_sst_id \in 0 .. MaxId
        BY <1>1, <1>10, <2>0 DEF SstOpen, MemoryTypes, Ids
      <4>3. \A i \in DOMAIN l0' : \/ i = 1 /\ l0'[i] = next_sst_id
                                  \/ i - 1 \in DOMAIN l0 /\ l0'[i] = l0[i - 1]
        BY <2>0, <3>1, RegisterL0Shape
      <4>4. \A i, j \in DOMAIN l0' : i < j => l0'[i] > l0'[j]
        <5> SUFFICES ASSUME NEW i \in DOMAIN l0', NEW j \in DOMAIN l0', i < j
                     PROVE  l0'[i] > l0'[j]
          OBVIOUS
        <5>1. j # 1 /\ i \in Nat /\ j \in Nat
          BY <2>0, <3>1, RegisterL0Shape
        <5>2. j - 1 \in DOMAIN l0 /\ l0'[j] = l0[j - 1]
          BY <4>3, <5>1
        <5>3. CASE i = 1
          BY <2>0, <3>1, <4>1, <4>2, <5>2, <5>3, RegisterL0Shape
        <5>4. CASE i # 1
          BY <1>1, <4>1, <4>3, <5>1, <5>2, <5>4 DEF LevelOrder
        <5> QED  BY <5>3, <5>4
      <4>5. \A i \in DOMAIN l0', j \in DOMAIN l1 : l0'[i] > l1[j]
        BY <1>1, <4>2, <4>3 DEF LevelOrder
      <4>6. \A i \in DOMAIN l0' : l0'[i] < next_sst_id + 1
        BY <4>1, <4>2, <4>3
      <4>7. Len(l1) <= 1 /\ \A i \in DOMAIN l1 : l1[i] < next_sst_id + 1
        BY <1>1, <4>2 DEF LevelOrder
      <4> QED  BY <3>1, <4>2, <4>4, <4>5, <4>6, <4>7 DEF LevelOrder
    <3>2. CASE UNCHANGED <<l0, next_sst_id>>
      BY <1>1, <1>10, <3>2 DEF SstOpen, LevelOrder
    <3> QED  BY <1>10, <3>1, <3>2 DEF SstOpen
  <2>6. DirectoryTypes' /\ WalTypes' /\ GhostTypes'
    BY <1>1, <1>10 DEF SstOpen, DirectoryTypes, WalTypes, GhostTypes
  <2> QED  BY <2>1, <2>2, <2>3, <2>4, <2>5, <2>6 DEF IInv, TypeOK
<1>11. CASE WalRemove
  <2>1. CallTypes'
    BY <1>1, <1>11 DEF WalRemove, CallTypes,
       FlushSteps, CompactSteps, OpenSteps, BusySteps, UpSteps, Steps
  <2>2. WalTypes'
    BY <1>1, <1>11, WalStepType DEF WalRemove, WalTypes
  <2>3. BoundTypes'
    BY <1>1, <1>11 DEF WalRemove, BoundTypes
  <2>4. IdRoom'
    BY <1>1, <1>11 DEF WalRemove, IdRoom, OpenSteps, MemoryTypes
  <2>5. MemoryTypes' /\ DirectoryTypes' /\ GhostTypes' /\ LevelOrder'
    BY <1>1, <1>11 DEF WalRemove, MemoryTypes, DirectoryTypes, GhostTypes, LevelOrder
  <2> QED  BY <2>1, <2>2, <2>3, <2>4, <2>5 DEF IInv, TypeOK
<1>12. CASE WalCreate
  <2>1. CallTypes'
    BY <1>1, <1>12 DEF WalCreate, CallTypes,
       FlushSteps, CompactSteps, OpenSteps, BusySteps, UpSteps, Steps
  <2>2. WalTypes'
    BY <1>1, <1>12, WalStepType DEF WalCreate, WalTypes
  <2>3. BoundTypes'
    BY <1>1, <1>12 DEF WalCreate, BoundTypes
  <2>4. IdRoom'
    BY <1>1, <1>12 DEF WalCreate, IdRoom, OpenSteps, MemoryTypes
  <2>5. MemoryTypes' /\ DirectoryTypes' /\ GhostTypes' /\ LevelOrder'
    BY <1>1, <1>12 DEF WalCreate, MemoryTypes, DirectoryTypes, GhostTypes, LevelOrder
  <2> QED  BY <2>1, <2>2, <2>3, <2>4, <2>5 DEF IInv, TypeOK
<1>13. CASE WalHeader
  <2>1. CallTypes'
    BY <1>1, <1>13 DEF WalHeader, CallTypes,
       FlushSteps, CompactSteps, OpenSteps, BusySteps, UpSteps, Steps
  <2>2. WalTypes'
    BY <1>1, <1>13, WalStepType DEF WalHeader, WalTypes
  <2>3. BoundTypes'
    BY <1>1, <1>13 DEF WalHeader, BoundTypes
  <2>4. IdRoom'
    BY <1>1, <1>13 DEF WalHeader, IdRoom, OpenSteps, MemoryTypes
  <2>5. MemoryTypes' /\ DirectoryTypes' /\ GhostTypes' /\ LevelOrder'
    BY <1>1, <1>13 DEF WalHeader, MemoryTypes, DirectoryTypes, GhostTypes, LevelOrder
  <2> QED  BY <2>1, <2>2, <2>3, <2>4, <2>5 DEF IInv, TypeOK
<1>14. CASE WalSyncDir
  <2>1. CallTypes'
    BY <1>1, <1>14 DEF WalSyncDir, CallTypes, maybe_compact,
       FlushSteps, CompactSteps, OpenSteps, BusySteps, UpSteps, Steps
  <2>2. MemoryTypes'
    BY <1>1, <1>14, <1>2 DEF WalSyncDir, MemoryTypes
  <2>3. DirectoryTypes'
    BY <1>1, <1>14 DEF WalSyncDir, DirectoryTypes, SyncDir
  <2>4. WalTypes'
    BY <1>1, <1>14 DEF WalSyncDir, WalTypes, SyncDir
  <2>5. BoundTypes'
    BY <1>1, <1>14 DEF WalSyncDir, BoundTypes
  <2>6. IdRoom'
    BY <1>1, <1>14 DEF WalSyncDir, IdRoom, maybe_compact, OpenSteps, MemoryTypes
  <2>7. GhostTypes' /\ LevelOrder'
    BY <1>1, <1>14 DEF WalSyncDir, GhostTypes, LevelOrder
  <2> QED  BY <2>1, <2>2, <2>3, <2>4, <2>5, <2>6, <2>7 DEF IInv, TypeOK
<1>15. CASE CmpWrite
  <2>0. Inputs \in Seq(Ids) /\ <<>> \in Seq(Ids) /\ next_sst_id + 1 \in 0 .. MaxId + 1
    BY <1>1, <1>15 DEF CmpWrite, MemoryTypes, Inputs, IdRoom
  <2>1. CallTypes'
    BY <1>1, <1>15 DEF CmpWrite, CallTypes,
       FlushSteps, CompactSteps, OpenSteps, BusySteps, UpSteps, Steps
  <2>2. MemoryTypes'
    BY <1>1, <1>15, <2>0 DEF CmpWrite, MemoryTypes
  <2>3. DirectoryTypes'
    BY <1>1, <1>15 DEF CmpWrite, DirectoryTypes, NewL1, Files, Ids, IdRoom, MemoryTypes
  <2>4. BoundTypes'
    BY <1>1, <1>15 DEF CmpWrite, BoundTypes
  <2>5. IdRoom'
    BY <1>1, <1>15 DEF CmpWrite, IdRoom, OpenSteps, MemoryTypes
  <2>6. LevelOrder'
    BY <1>1, <1>15 DEF CmpWrite, LevelOrder, MemoryTypes
  <2>7. WalTypes' /\ GhostTypes'
    BY <1>1, <1>15 DEF CmpWrite, WalTypes, GhostTypes
  <2> QED  BY <2>1, <2>2, <2>3, <2>4, <2>5, <2>6, <2>7 DEF IInv, TypeOK
<1>16. CASE CmpRename
  <2>0. CompactionOutput \in Tables
    <3>1. Registered \in SUBSET Files
      BY <1>1 DEF Registered, Files, MemoryTypes
    <3>2. ASSUME NEW k \in Keys PROVE NewestCell(Registered, k) \in Cells
      BY <1>1, <3>1, NewestCellType DEF DirectoryTypes
    <3>3. ASSUME NEW k \in Keys PROVE DropTombstone(NewestCell(Registered, k)) \in Cells
      BY <3>2 DEF DropTombstone, Cells
    <3> QED  BY <3>3 DEF CompactionOutput, Tables
  <2>1. CallTypes'
    BY <1>1, <1>16 DEF CmpRename, CallTypes,
       FlushSteps, CompactSteps, OpenSteps, BusySteps, UpSteps, Steps
  <2>2. DirectoryTypes'
    BY <1>1, <1>16, <2>0 DEF CmpRename, DirectoryTypes
  <2>3. BoundTypes'
    BY <1>1, <1>16 DEF CmpRename, BoundTypes
  <2>4. IdRoom'
    BY <1>1, <1>16 DEF CmpRename, IdRoom, OpenSteps, MemoryTypes
  <2>5. MemoryTypes' /\ WalTypes' /\ GhostTypes' /\ LevelOrder'
    BY <1>1, <1>16 DEF CmpRename, MemoryTypes, WalTypes, GhostTypes, LevelOrder
  <2> QED  BY <2>1, <2>2, <2>3, <2>4, <2>5 DEF IInv, TypeOK
<1>17. CASE CmpSyncDir
  <2>1. CallTypes'
    BY <1>1, <1>17 DEF CmpSyncDir, CallTypes,
       FlushSteps, CompactSteps, OpenSteps, BusySteps, UpSteps, Steps
  <2>2. DirectoryTypes'
    BY <1>1, <1>17 DEF CmpSyncDir, DirectoryTypes, SyncDir
  <2>3. WalTypes'
    BY <1>1, <1>17 DEF CmpSyncDir, WalTypes, SyncDir
  <2>4. BoundTypes'
    BY <1>1, <1>17 DEF CmpSyncDir, BoundTypes
  <2>5. IdRoom'
    BY <1>1, <1>17 DEF CmpSyncDir, IdRoom, OpenSteps, MemoryTypes
  <2>6. MemoryTypes' /\ GhostTypes' /\ LevelOrder'
    BY <1>1, <1>17 DEF CmpSyncDir, MemoryTypes, GhostTypes, LevelOrder
  <2> QED  BY <2>1, <2>2, <2>3, <2>4, <2>5, <2>6 DEF IInv, TypeOK
<1>18. CASE CmpOpen
  <2>0. /\ Inputs \in Seq(Ids) /\ <<>> \in Seq(Ids) /\ <<next_sst_id>> \in Seq(Ids)
        /\ next_sst_id \in Nat /\ next_sst_id + 1 \in 0 .. MaxId + 1
    <3>1. next_sst_id \in Ids /\ next_sst_id + 1 \in 0 .. MaxId + 1
      BY <1>1, <1>18 DEF CmpOpen, MemoryTypes, IdRoom, Ids
    <3>2. Inputs \in Seq(Ids)
      BY <1>1 DEF MemoryTypes, Inputs
    <3> QED  BY <3>1, <3>2 DEF Ids
  <2>1. CallTypes'
    BY <1>1, <1>18 DEF CmpOpen, CallTypes,
       FlushSteps, CompactSteps, OpenSteps, BusySteps, UpSteps, Steps
  <2>2. MemoryTypes'
    BY <1>1, <1>18, <2>0 DEF CmpOpen, MemoryTypes
  <2>3. BoundTypes'
    BY <1>1, <1>18 DEF CmpOpen, BoundTypes
  <2>4. IdRoom'
    BY <1>1, <1>18 DEF CmpOpen, IdRoom, OpenSteps, MemoryTypes
  <2>5. LevelOrder'
    <3>1. CASE l0' = <<>> /\ l1' = <<next_sst_id>> /\ next_sst_id' = next_sst_id + 1
      <4>1. DOMAIN l0' = {} /\ DOMAIN l1' = {1} /\ Len(l1') = 1 /\ l1'[1] = next_sst_id
        BY <3>1
      <4>2. next_sst_id < next_sst_id'
        BY <2>0, <3>1
      <4> QED  BY <4>1, <4>2 DEF LevelOrder
    <3>2. CASE UNCHANGED <<l0, l1, next_sst_id>>
      BY <1>1, <3>2 DEF LevelOrder
    <3> QED  BY <1>18, <3>1, <3>2 DEF CmpOpen
  <2>6. DirectoryTypes' /\ WalTypes' /\ GhostTypes'
    BY <1>1, <1>18 DEF CmpOpen, DirectoryTypes, WalTypes, GhostTypes
  <2> QED  BY <2>1, <2>2, <2>3, <2>4, <2>5, <2>6 DEF IInv, TypeOK
<1>19. CASE Unlink
  <2>1. CallTypes'
    BY <1>1, <1>19 DEF Unlink, CallTypes,
       FlushSteps, CompactSteps, OpenSteps, BusySteps, UpSteps, Steps
  <2>2. MemoryTypes'
    BY <1>1, <1>19 DEF Unlink, MemoryTypes, InputsLeft
  <2>3. DirectoryTypes'
    BY <1>1, <1>19, <1>2 DEF Unlink, DirectoryTypes, Unlinked
  <2>4. BoundTypes'
    BY <1>1, <1>19 DEF Unlink, BoundTypes
  <2>5. IdRoom'
    BY <1>1, <1>19 DEF Unlink, IdRoom, OpenSteps, MemoryTypes
  <2>6. WalTypes' /\ GhostTypes' /\ LevelOrder'
    BY <1>1, <1>19 DEF Unlink, WalTypes, GhostTypes, LevelOrder
  <2> QED  BY <2>1, <2>2, <2>3, <2>4, <2>5, <2>6 DEF IInv, TypeOK
<1>20. CASE UnlinkedAll
  <2>1. CallTypes'
    BY <1>1, <1>20 DEF UnlinkedAll, CallTypes,
       FlushSteps, CompactSteps, OpenSteps, BusySteps, UpSteps, Steps
  <2>2. IdRoom'
    BY <1>1, <1>20 DEF UnlinkedAll, IdRoom, OpenSteps, MemoryTypes
  <2>3. MemoryTypes' /\ DirectoryTypes' /\ WalTypes' /\ GhostTypes' /\ BoundTypes' /\ LevelOrder'
    BY <1>1, <1>20
       DEF UnlinkedAll, MemoryTypes, DirectoryTypes, WalTypes, GhostTypes, BoundTypes, LevelOrder
  <2> QED  BY <2>1, <2>2, <2>3 DEF IInv, TypeOK
<1>21. CASE CmpFinish
  <2>1. CallTypes'
    BY <1>1, <1>21 DEF CmpFinish, CallTypes,
       FlushSteps, CompactSteps, OpenSteps, BusySteps, UpSteps, Steps
  <2>2. DirectoryTypes'
    BY <1>1, <1>21 DEF CmpFinish, DirectoryTypes, SyncDir
  <2>3. WalTypes'
    BY <1>1, <1>21 DEF CmpFinish, WalTypes, SyncDir
  <2>4. BoundTypes'
    BY <1>1, <1>21 DEF CmpFinish, BoundTypes
  <2>5. IdRoom'
    BY <1>1, <1>21 DEF CmpFinish, IdRoom, OpenSteps, MemoryTypes
  <2>6. MemoryTypes' /\ GhostTypes' /\ LevelOrder'
    BY <1>1, <1>21 DEF CmpFinish, MemoryTypes, GhostTypes, LevelOrder
  <2> QED  BY <2>1, <2>2, <2>3, <2>4, <2>5, <2>6 DEF IInv, TypeOK
<1>22. CASE Close
  <2>1. CallTypes'
    BY <1>1, <1>22 DEF Close, CallTypes,
       FlushSteps, CompactSteps, OpenSteps, BusySteps, UpSteps, Steps
  <2>2. WalTypes'
    BY <1>1, <1>22, WalStepType DEF Close, WalTypes
  <2>3. IdRoom'
    BY <1>1, <1>22 DEF Close, IdRoom, OpenSteps, MemoryTypes
  <2>4. MemoryTypes' /\ DirectoryTypes' /\ GhostTypes' /\ BoundTypes' /\ LevelOrder'
    BY <1>1, <1>22
       DEF Close, MemoryTypes, DirectoryTypes, GhostTypes, BoundTypes, LevelOrder
  <2> QED  BY <2>1, <2>2, <2>3, <2>4 DEF IInv, TypeOK
<1>23. CASE Crash
  <2>1. CallTypes'
    BY <1>1, <1>23 DEF Crash, CallTypes, Dies, NoReq,
       FlushSteps, CompactSteps, OpenSteps, BusySteps, UpSteps, Steps
  <2>2. MemoryTypes'
    BY <1>1, <1>23, <1>2 DEF Crash, MemoryTypes, Dies
  <2>3. DirectoryTypes'
    BY <1>1, <1>23 DEF Crash, DirectoryTypes, Dies
  <2>4. WalTypes'
    BY <1>1, <1>23, SurvivorsType, WalStepType DEF Crash, WalTypes, Dies
  <2>5. GhostTypes'
    BY <1>1, <1>23 DEF Crash, GhostTypes, Dies
  <2>6. BoundTypes'
    BY <1>1, <1>23 DEF Crash, BoundTypes, Dies
  <2>7. IdRoom'
    BY <1>1, <1>23 DEF Crash, IdRoom, Dies, OpenSteps, MemoryTypes
  <2>8. LevelOrder'
    BY <1>1, <1>23 DEF Crash, LevelOrder, Dies, MemoryTypes
  <2> QED  BY <2>1, <2>2, <2>3, <2>4, <2>5, <2>6, <2>7, <2>8 DEF IInv, TypeOK
<1>24. CASE Kill
  <2>1. CallTypes'
    BY <1>1, <1>24 DEF Kill, CallTypes, Dies, NoReq,
       FlushSteps, CompactSteps, OpenSteps, BusySteps, UpSteps, Steps
  <2>2. MemoryTypes'
    BY <1>1, <1>24, <1>2 DEF Kill, MemoryTypes, Dies
  <2>3. DirectoryTypes'
    BY <1>1, <1>24 DEF Kill, DirectoryTypes, Dies
  <2>4. WalTypes'
    BY <1>1, <1>24 DEF Kill, WalTypes, Dies
  <2>5. GhostTypes'
    BY <1>1, <1>24 DEF Kill, GhostTypes, Dies
  <2>6. BoundTypes'
    BY <1>1, <1>24 DEF Kill, BoundTypes, Dies
  <2>7. IdRoom'
    BY <1>1, <1>24 DEF Kill, IdRoom, Dies, OpenSteps, MemoryTypes
  <2>8. LevelOrder'
    BY <1>1, <1>24 DEF Kill, LevelOrder, Dies, MemoryTypes
  <2> QED  BY <2>1, <2>2, <2>3, <2>4, <2>5, <2>6, <2>7, <2>8 DEF IInv, TypeOK
<1>25. CASE Discover
  <2>0. /\ LiveL0 \in SUBSET Ids /\ SurvivingL1 \in SUBSET Ids
        /\ IdsAt(0) \subseteq Ids /\ IdsAt(1) \subseteq Ids
    BY LiveTables DEF IdsAt
  <2>1. CallTypes'
    BY <1>1, <1>25 DEF Discover, CallTypes,
       FlushSteps, CompactSteps, OpenSteps, BusySteps, UpSteps, Steps
  <2>2. MemoryTypes'
    BY <1>1, <1>25, <2>0, LiveTables, NextIdAbove, NewestFirstType DEF Discover, MemoryTypes
  <2>3. DirectoryTypes'
    BY <1>1, <1>25, <1>2 DEF Discover, DirectoryTypes, Keeping
  <2>4. BoundTypes'
    BY <1>1, <1>25 DEF Discover, BoundTypes
  <2>5. IdRoom'
    BY <1>1, <1>25 DEF Discover, IdRoom, OpenSteps, MemoryTypes
  <2>6. LevelOrder'
    <3>1. /\ l0' \in NewestFirst(LiveL0) /\ l1' \in NewestFirst(SurvivingL1)
          /\ next_sst_id' = NextId
      BY <1>25 DEF Discover
    <3>2. /\ \A i, j \in DOMAIN l0' : i < j => l0'[i] > l0'[j]
          /\ \A i \in DOMAIN l0' : l0'[i] \in LiveL0
      BY <2>0, <3>1, NewestFirstType
    <3>3. Len(l1') = Cardinality(SurvivingL1) /\ \A j \in DOMAIN l1' : l1'[j] \in SurvivingL1
      BY <2>0, <3>1, NewestFirstType
    <3>4. \A i \in DOMAIN l0', j \in DOMAIN l1' : l0'[i] > l1'[j]
      BY <3>2, <3>3, LiveTables
    <3>5. Len(l1') <= 1
      BY <3>3, LiveTables
    <3>6. /\ \A i \in DOMAIN l0' : l0'[i] < next_sst_id'
          /\ \A j \in DOMAIN l1' : l1'[j] < next_sst_id'
      BY <3>1, <3>2, <3>3, LiveTables, NextIdAbove
    <3> QED  BY <3>2, <3>4, <3>5, <3>6 DEF LevelOrder
  <2>7. WalTypes' /\ GhostTypes'
    BY <1>1, <1>25 DEF Discover, WalTypes, GhostTypes
  <2> QED  BY <2>1, <2>2, <2>3, <2>4, <2>5, <2>6, <2>7 DEF IInv, TypeOK
<1>26. CASE Replay
  <2>0. replay_wal(wal) \in Tables
    <3>1. ASSUME NEW k \in Keys PROVE ReplayedCell(wal, k) \in Cells
      BY <1>1, ReplayedCellType DEF WalTypes
    <3> QED  BY <3>1 DEF replay_wal, Tables
  <2>1. CallTypes'
    BY <1>1, <1>26 DEF Replay, CallTypes,
       FlushSteps, CompactSteps, OpenSteps, BusySteps, UpSteps, Steps
  <2>2. MemoryTypes'
    BY <1>1, <1>26, <2>0 DEF Replay, MemoryTypes
  <2>3. WalTypes'
    BY <1>1, <1>26 DEF Replay, WalTypes
  <2>4. GhostTypes'
    BY <1>1, <1>26, AnswerType DEF Replay, GhostTypes, Recovered
  <2>5. IdRoom'
    BY <1>1, <1>26 DEF Replay, IdRoom, OpenSteps, MemoryTypes
  <2>6. DirectoryTypes' /\ BoundTypes' /\ LevelOrder'
    BY <1>1, <1>26 DEF Replay, DirectoryTypes, BoundTypes, LevelOrder
  <2> QED  BY <2>1, <2>2, <2>3, <2>4, <2>5, <2>6 DEF IInv, TypeOK
<1>27. CASE OpenSyncDir
  <2>1. CallTypes'
    BY <1>1, <1>27 DEF OpenSyncDir, CallTypes,
       FlushSteps, CompactSteps, OpenSteps, BusySteps, UpSteps, Steps
  <2>2. DirectoryTypes'
    BY <1>1, <1>27 DEF OpenSyncDir, DirectoryTypes, SyncDir
  <2>3. WalTypes'
    BY <1>1, <1>27 DEF OpenSyncDir, WalTypes, SyncDir
  <2>4. GhostTypes'
    BY <1>1, <1>27, AnswerType DEF OpenSyncDir, GhostTypes, Recovered
  <2>5. BoundTypes'
    BY <1>1, <1>27 DEF OpenSyncDir, BoundTypes
  <2>6. IdRoom'
    BY <1>1, <1>27 DEF OpenSyncDir, IdRoom, OpenSteps, MemoryTypes
  <2>7. MemoryTypes' /\ LevelOrder'
    BY <1>1, <1>27 DEF OpenSyncDir, MemoryTypes, LevelOrder
  <2> QED  BY <2>1, <2>2, <2>3, <2>4, <2>5, <2>6, <2>7 DEF IInv, TypeOK
<1>28. CASE UNCHANGED vars
  BY <1>1, <1>28
     DEF IInv, TypeOK, CallTypes, MemoryTypes, DirectoryTypes, WalTypes, GhostTypes, BoundTypes, IdRoom, LevelOrder, vars
<1> QED
  BY <1>3, <1>4, <1>5, <1>6, <1>7, <1>8, <1>9, <1>10, <1>11, <1>12, <1>13, <1>14, <1>15,
     <1>16, <1>17, <1>18, <1>19, <1>20, <1>21, <1>22, <1>23, <1>24, <1>25, <1>26, <1>27, <1>28
     DEF Next, Client, CallStep, OpenStep, FlushStep, CompactStep

\* Type correctness: every value the engine, its directory and its log take,
\* at every I/O step of every call and through every crash and error.
THEOREM TypeCorrect == Spec => []TypeOK
<1>1. IInv => TypeOK
  BY DEF IInv
<1> QED  BY InitInv, NextInv, <1>1, PTL DEF Spec

\* The order get depends on holds whatever flushes, compactions, crashes,
\* kills and I/O errors happen, in whatever order: L0 newest first, above L1,
\* one L1 table at most, and ids handed out in increasing order.
THEOREM LevelsOrdered == Spec => []LevelOrder
<1>1. IInv => LevelOrder
  BY DEF IInv
<1> QED  BY InitInv, NextInv, <1>1, PTL DEF Spec
-----------------------------------------------------------------------------
(* Registered tables are in the directory                                  *)

\* From discovery to the end of the process, a reader's file is there.
ReadersOnDisk == pc \notin {"Down", "Corrupt"} => \A f \in Registered : disk[f] # NoTable

\* A flush or a compaction that got this far has something to write, then has
\* written it.
TableInFlight ==
    /\ pc = "WalSync" => req \in Records
    /\ pc \in {"SstWrite", "SstRename"} => memtable # NoTable
    /\ pc \in {"SstSyncDir", "SstOpen"} => disk[NewL0] # NoTable
    /\ pc = "CmpRename" => CompactionOutput # NoTable
    /\ pc \in {"CmpSyncDir", "CmpOpen"} => disk[NewL1] # NoTable

\* Compaction unlinks only ids it has taken out of the levels.
InputsRetired ==
    pc \in {"CmpUnlink", "DropUnlink"}
        => \A i \in DOMAIN input_ids, f \in Registered : f[2] # input_ids[i]

\* The inductive invariant for RegisteredOnDisk.
FInv == IInv /\ ReadersOnDisk /\ TableInFlight /\ InputsRetired

\* Registered readers are files of the directory's name space.
LEMMA RegisteredFiles == MemoryTypes => Registered \in SUBSET Files
BY DEF MemoryTypes, Registered, Files

\* Every step preserves it.
LEMMA NextFInv == FInv /\ [Next]_vars => FInv'
<1> SUFFICES ASSUME FInv, [Next]_vars PROVE FInv'
  OBVIOUS
<1>1. /\ MemoryTypes /\ DirectoryTypes /\ IdRoom /\ LevelOrder /\ MaxId \in Nat
      /\ ReadersOnDisk /\ TableInFlight /\ InputsRetired
  BY ConstantsAssumption DEF FInv, IInv, TypeOK
<1>2. IInv'
  BY NextInv DEF FInv
<1> USE DEF Goto, Fails, IgnoredError, Proceeds, Returns, Opening,
            mvars, dvars, wvars, gvars, bounds
<1>3. CASE \E k \in Keys, e \in Writes : WriteAppend(k, e)
  <2>1. ReadersOnDisk'
    BY <1>1, <1>3 DEF WriteAppend, ReadersOnDisk, Registered, Admits
  <2>2. TableInFlight'
    BY <1>1, <1>3, ConstantsAssumption
       DEF WriteAppend, TableInFlight, NewL0, NewL1, OpenSteps, Admits, Records
  <2>3. InputsRetired'
    BY <1>1, <1>3 DEF WriteAppend, InputsRetired, Registered, OpenSteps, Admits
  <2> QED  BY <1>2, <2>1, <2>2, <2>3 DEF FInv
<1>4. CASE WalSync
  <2>0. pc' = "SstWrite" => memtable' # NoTable
    BY <1>1, <1>4, ConstantsAssumption
       DEF WalSync, TableInFlight, MemoryTypes, Tables, NoTable, Records, Entries,
           maybe_compact, OpenSteps
  <2>1. ReadersOnDisk'
    BY <1>1, <1>4 DEF WalSync, ReadersOnDisk, Registered
  <2>2. TableInFlight'
    BY <1>1, <1>4, <2>0 DEF WalSync, TableInFlight, NewL0, NewL1, OpenSteps, maybe_compact
  <2>3. InputsRetired'
    BY <1>1, <1>4 DEF WalSync, InputsRetired, Registered, OpenSteps, maybe_compact
  <2> QED  BY <1>2, <2>1, <2>2, <2>3 DEF FInv
<1>5. CASE Flush
  <2>1. ReadersOnDisk'
    BY <1>1, <1>5 DEF Flush, ReadersOnDisk, Registered, Admits
  <2>2. TableInFlight'
    BY <1>1, <1>5 DEF Flush, TableInFlight, NewL0, NewL1, OpenSteps, Admits
  <2>3. InputsRetired'
    BY <1>1, <1>5 DEF Flush, InputsRetired, Registered, OpenSteps
  <2> QED  BY <1>2, <2>1, <2>2, <2>3 DEF FInv
<1>6. CASE FlushSync
  <2>1. ReadersOnDisk'
    BY <1>1, <1>6 DEF FlushSync, ReadersOnDisk, Registered
  <2>2. TableInFlight'
    BY <1>1, <1>6 DEF FlushSync, TableInFlight, NewL0, NewL1, OpenSteps, maybe_compact
  <2>3. InputsRetired'
    BY <1>1, <1>6 DEF FlushSync, InputsRetired, Registered, OpenSteps, maybe_compact
  <2> QED  BY <1>2, <2>1, <2>2, <2>3 DEF FInv
<1>7. CASE SstWrite
  <2>1. ReadersOnDisk'
    BY <1>1, <1>7 DEF SstWrite, ReadersOnDisk, Registered
  <2>2. TableInFlight'
    BY <1>1, <1>7 DEF SstWrite, TableInFlight, NewL0, NewL1, OpenSteps
  <2>3. InputsRetired'
    BY <1>1, <1>7 DEF SstWrite, InputsRetired, Registered, OpenSteps
  <2> QED  BY <1>2, <2>1, <2>2, <2>3 DEF FInv
<1>8. CASE SstRename
  <2>1. ReadersOnDisk'
    <3>1. Registered' = Registered /\ Registered \in SUBSET Files
      BY <1>1, <1>8, RegisteredFiles DEF SstRename, Registered
    <3>2. \A f \in Files : disk'[f] = disk[f] \/ disk'[f] # NoTable
      BY <1>1, <1>8 DEF SstRename, DirectoryTypes, TableInFlight
    <3> QED  BY <1>1, <1>8, <3>1, <3>2 DEF SstRename, ReadersOnDisk
  <2>2. TableInFlight'
    BY <1>1, <1>8
       DEF SstRename, TableInFlight, NewL0, NewL1, OpenSteps, DirectoryTypes, MemoryTypes, IdRoom, Files, Ids
  <2>3. InputsRetired'
    BY <1>1, <1>8 DEF SstRename, InputsRetired, Registered, OpenSteps
  <2> QED  BY <1>2, <2>1, <2>2, <2>3 DEF FInv
<1>9. CASE SstSyncDir
  <2>1. ReadersOnDisk'
    BY <1>1, <1>9 DEF SstSyncDir, ReadersOnDisk, Registered
  <2>2. TableInFlight'
    BY <1>1, <1>9 DEF SstSyncDir, TableInFlight, NewL0, NewL1, OpenSteps
  <2>3. InputsRetired'
    BY <1>1, <1>9 DEF SstSyncDir, InputsRetired, Registered, OpenSteps
  <2> QED  BY <1>2, <2>1, <2>2, <2>3 DEF FInv
<1>10. CASE SstOpen
  <2>1. ReadersOnDisk'
    <3>1. CASE l0' = RegisterL0 /\ next_sst_id' = next_sst_id + 1
      <4>0. next_sst_id \in Ids /\ l0 \in Seq(Ids)
        BY <1>1, <1>10 DEF SstOpen, MemoryTypes, IdRoom, Ids
      <4>1. \A i \in DOMAIN l0' : \/ l0'[i] = next_sst_id
                                  \/ \E j \in DOMAIN l0 : l0'[i] = l0[j]
        BY <3>1, <4>0, RegisterL0Shape
      <4>2. Registered' \subseteq Registered \cup {NewL0}
        BY <1>10, <4>1 DEF SstOpen, Registered, NewL0
      <4> QED  BY <1>1, <1>10, <4>2 DEF SstOpen, ReadersOnDisk, TableInFlight
    <3>2. CASE UNCHANGED <<l0, next_sst_id>>
      BY <1>1, <1>10, <3>2 DEF SstOpen, ReadersOnDisk, Registered
    <3> QED  BY <1>10, <3>1, <3>2 DEF SstOpen
  <2>2. TableInFlight'
    BY <1>1, <1>10 DEF SstOpen, TableInFlight, NewL0, NewL1, OpenSteps
  <2>3. InputsRetired'
    BY <1>1, <1>10 DEF SstOpen, InputsRetired, Registered, OpenSteps
  <2> QED  BY <1>2, <2>1, <2>2, <2>3 DEF FInv
<1>11. CASE WalRemove
  <2>1. ReadersOnDisk'
    BY <1>1, <1>11 DEF WalRemove, ReadersOnDisk, Registered
  <2>2. TableInFlight'
    BY <1>1, <1>11 DEF WalRemove, TableInFlight, NewL0, NewL1, OpenSteps
  <2>3. InputsRetired'
    BY <1>1, <1>11 DEF WalRemove, InputsRetired, Registered, OpenSteps
  <2> QED  BY <1>2, <2>1, <2>2, <2>3 DEF FInv
<1>12. CASE WalCreate
  <2>1. ReadersOnDisk'
    BY <1>1, <1>12 DEF WalCreate, ReadersOnDisk, Registered
  <2>2. TableInFlight'
    BY <1>1, <1>12 DEF WalCreate, TableInFlight, NewL0, NewL1, OpenSteps
  <2>3. InputsRetired'
    BY <1>1, <1>12 DEF WalCreate, InputsRetired, Registered, OpenSteps
  <2> QED  BY <1>2, <2>1, <2>2, <2>3 DEF FInv
<1>13. CASE WalHeader
  <2>1. ReadersOnDisk'
    BY <1>1, <1>13 DEF WalHeader, ReadersOnDisk, Registered
  <2>2. TableInFlight'
    BY <1>1, <1>13 DEF WalHeader, TableInFlight, NewL0, NewL1, OpenSteps
  <2>3. InputsRetired'
    BY <1>1, <1>13 DEF WalHeader, InputsRetired, Registered, OpenSteps
  <2> QED  BY <1>2, <2>1, <2>2, <2>3 DEF FInv
<1>14. CASE WalSyncDir
  <2>1. ReadersOnDisk'
    BY <1>1, <1>14 DEF WalSyncDir, ReadersOnDisk, Registered
  <2>2. TableInFlight'
    BY <1>1, <1>14 DEF WalSyncDir, TableInFlight, NewL0, NewL1, OpenSteps, maybe_compact
  <2>3. InputsRetired'
    BY <1>1, <1>14 DEF WalSyncDir, InputsRetired, Registered, OpenSteps, maybe_compact
  <2> QED  BY <1>2, <2>1, <2>2, <2>3 DEF FInv
<1>15. CASE CmpWrite
  <2>1. ReadersOnDisk'
    BY <1>1, <1>15 DEF CmpWrite, ReadersOnDisk, Registered
  <2>2. TableInFlight'
    <3>1. pc' = "CmpRename" => CompactionOutput' # NoTable
      <4>1. CASE UNCHANGED <<disk, l0, l1>>
        <5>1. CompactionOutput' = CompactionOutput
          BY <4>1 DEF CompactionOutput, NewestCell, Registered
        <5> QED  BY <1>15, <5>1 DEF CmpWrite, OpenSteps
      <4>2. CASE pc' # "CmpRename"
        BY <4>2
      <4> QED  BY <1>15, <4>1, <4>2 DEF CmpWrite
    <3> QED  BY <1>15, <3>1 DEF CmpWrite, TableInFlight, OpenSteps
  <2>3. InputsRetired'
    BY <1>1, <1>15 DEF CmpWrite, InputsRetired, Registered, OpenSteps
  <2> QED  BY <1>2, <2>1, <2>2, <2>3 DEF FInv
<1>16. CASE CmpRename
  <2>1. ReadersOnDisk'
    <3>1. Registered' = Registered /\ Registered \in SUBSET Files
      BY <1>1, <1>16, RegisteredFiles DEF CmpRename, Registered
    <3>2. \A f \in Files : disk'[f] = disk[f] \/ disk'[f] # NoTable
      BY <1>1, <1>16 DEF CmpRename, DirectoryTypes, TableInFlight
    <3> QED  BY <1>1, <1>16, <3>1, <3>2 DEF CmpRename, ReadersOnDisk
  <2>2. TableInFlight'
    BY <1>1, <1>16
       DEF CmpRename, TableInFlight, NewL0, NewL1, OpenSteps, DirectoryTypes, MemoryTypes, IdRoom, Files, Ids
  <2>3. InputsRetired'
    BY <1>1, <1>16 DEF CmpRename, InputsRetired, Registered, OpenSteps
  <2> QED  BY <1>2, <2>1, <2>2, <2>3 DEF FInv
<1>17. CASE CmpSyncDir
  <2>1. ReadersOnDisk'
    BY <1>1, <1>17 DEF CmpSyncDir, ReadersOnDisk, Registered
  <2>2. TableInFlight'
    BY <1>1, <1>17 DEF CmpSyncDir, TableInFlight, NewL0, NewL1, OpenSteps
  <2>3. InputsRetired'
    BY <1>1, <1>17 DEF CmpSyncDir, InputsRetired, Registered, OpenSteps
  <2> QED  BY <1>2, <2>1, <2>2, <2>3 DEF FInv
<1>18. CASE CmpOpen
  <2>0. CASE UNCHANGED <<l0, l1, input_ids>> /\ pc' = "Idle"
    BY <1>1, <1>2, <1>18, <2>0
       DEF CmpOpen, FInv, ReadersOnDisk, TableInFlight, InputsRetired, Registered
  <2>8. SUFFICES ASSUME l0' = <<>>, l1' = <<next_sst_id>>, input_ids' = Inputs, pc' = "CmpUnlink"
                 PROVE  FInv'
    BY <1>18, <2>0 DEF CmpOpen, OpenSteps
  <2>9. Registered' = {NewL1}
    BY <2>8 DEF Registered, NewL1
  <2>1. ReadersOnDisk'
    BY <1>1, <1>18, <2>9 DEF CmpOpen, ReadersOnDisk, TableInFlight
  <2>2. TableInFlight'
    BY <1>1, <1>18 DEF CmpOpen, TableInFlight, NewL0, NewL1, OpenSteps
  <2>3. InputsRetired'
    <3>1. l0 \in Seq(0 .. MaxId) /\ l1 \in Seq(0 .. MaxId) /\ next_sst_id \in 0 .. MaxId + 1
      BY <1>1 DEF MemoryTypes, Ids
    <3>2. \A i \in DOMAIN Inputs : \/ \E j \in DOMAIN l1 : Inputs[i] = l1[j]
                                 \/ \E j \in DOMAIN l0 : Inputs[i] = l0[j]
      BY <3>1 DEF Inputs
    <3>3. \A i \in DOMAIN Inputs : Inputs[i] # next_sst_id
      BY <1>1, <3>1, <3>2 DEF LevelOrder
    <3> QED  BY <2>8, <2>9, <3>3 DEF InputsRetired, NewL1
  <2> QED  BY <1>2, <2>1, <2>2, <2>3 DEF FInv
<1>19. CASE Unlink
  <2>0. /\ Head(input_ids) = input_ids[1] /\ 1 \in DOMAIN input_ids
        /\ \A i \in DOMAIN Tail(input_ids) :
              i + 1 \in DOMAIN input_ids /\ Tail(input_ids)[i] = input_ids[i + 1]
    BY <1>1, <1>19 DEF Unlink, MemoryTypes
  <2>8. Registered' = Registered /\ Registered \in SUBSET Files
    BY <1>1, <1>19, RegisteredFiles DEF Unlink, Registered
  <2>1. ReadersOnDisk'
    <3>1. \A f \in Registered : disk'[f] = disk[f]
      BY <1>1, <1>19, <2>0, <2>8 DEF Unlink, Unlinked, InputsRetired, DirectoryTypes
    <3> QED  BY <1>1, <1>19, <2>8, <3>1 DEF Unlink, ReadersOnDisk
  <2>2. TableInFlight'
    BY <1>1, <1>19 DEF Unlink, TableInFlight, NewL0, NewL1, OpenSteps
  <2>3. InputsRetired'
    BY <1>1, <1>19, <2>0, <2>8 DEF Unlink, InputsRetired, InputsLeft
  <2> QED  BY <1>2, <2>1, <2>2, <2>3 DEF FInv
<1>20. CASE UnlinkedAll
  <2>1. ReadersOnDisk'
    BY <1>1, <1>20 DEF UnlinkedAll, ReadersOnDisk, Registered
  <2>2. TableInFlight'
    BY <1>1, <1>20 DEF UnlinkedAll, TableInFlight, NewL0, NewL1, OpenSteps
  <2>3. InputsRetired'
    BY <1>1, <1>20 DEF UnlinkedAll, InputsRetired, Registered, OpenSteps
  <2> QED  BY <1>2, <2>1, <2>2, <2>3 DEF FInv
<1>21. CASE CmpFinish
  <2>1. ReadersOnDisk'
    BY <1>1, <1>21 DEF CmpFinish, ReadersOnDisk, Registered
  <2>2. TableInFlight'
    BY <1>1, <1>21 DEF CmpFinish, TableInFlight, NewL0, NewL1, OpenSteps
  <2>3. InputsRetired'
    BY <1>1, <1>21 DEF CmpFinish, InputsRetired, Registered, OpenSteps
  <2> QED  BY <1>2, <2>1, <2>2, <2>3 DEF FInv
<1>22. CASE Close
  <2>1. ReadersOnDisk'
    BY <1>1, <1>22 DEF Close, ReadersOnDisk, Registered
  <2>2. TableInFlight'
    BY <1>1, <1>22 DEF Close, TableInFlight, NewL0, NewL1, OpenSteps
  <2>3. InputsRetired'
    BY <1>1, <1>22 DEF Close, InputsRetired, Registered, OpenSteps
  <2> QED  BY <1>2, <2>1, <2>2, <2>3 DEF FInv
<1>23. CASE Crash
  <2>1. ReadersOnDisk'
    BY <1>1, <1>23 DEF Crash, ReadersOnDisk, Registered, Dies
  <2>2. TableInFlight'
    BY <1>1, <1>23 DEF Crash, TableInFlight, NewL0, NewL1, OpenSteps, Dies
  <2>3. InputsRetired'
    BY <1>1, <1>23 DEF Crash, InputsRetired, Registered, OpenSteps, Dies
  <2> QED  BY <1>2, <2>1, <2>2, <2>3 DEF FInv
<1>24. CASE Kill
  <2>1. ReadersOnDisk'
    BY <1>1, <1>24 DEF Kill, ReadersOnDisk, Registered, Dies
  <2>2. TableInFlight'
    BY <1>1, <1>24 DEF Kill, TableInFlight, NewL0, NewL1, OpenSteps, Dies
  <2>3. InputsRetired'
    BY <1>1, <1>24 DEF Kill, InputsRetired, Registered, OpenSteps, Dies
  <2> QED  BY <1>2, <2>1, <2>2, <2>3 DEF FInv
<1>25. CASE Discover
  <2>1. ReadersOnDisk'
    <3>1. /\ LiveL0 \in SUBSET Ids /\ SurvivingL1 \in SUBSET Ids
          /\ \A f \in LiveFiles : f \in Files /\ disk[f] # NoTable
      <4>1. /\ \A i \in LiveL0 : i \in Ids /\ disk[<<0, i>>] # NoTable
            /\ \A i \in SurvivingL1 : i \in Ids /\ disk[<<1, i>>] # NoTable
        BY LiveTables DEF IdsAt
      <4>2. LiveL0 \in SUBSET Ids /\ SurvivingL1 \in SUBSET Ids
        BY <4>1
      <4>3. \A f \in LiveFiles : \/ \E i \in LiveL0 : f = <<0, i>>
                                \/ \E i \in SurvivingL1 : f = <<1, i>>
        BY DEF LiveFiles
      <4>4. \A f \in LiveFiles : f \in Files /\ disk[f] # NoTable
        BY <4>1, <4>3 DEF Files
      <4> QED  BY <4>2, <4>4
    <3>2. l0' \in NewestFirst(LiveL0) /\ l1' \in NewestFirst(SurvivingL1)
      BY <1>25 DEF Discover
    <3>3. /\ \A i \in DOMAIN l0' : l0'[i] \in LiveL0
          /\ \A i \in DOMAIN l1' : l1'[i] \in SurvivingL1
      BY <3>1, <3>2, NewestFirstType
    <3>4. Registered' \subseteq LiveFiles
      BY <3>3 DEF Registered, LiveFiles
    <3>5. \A f \in LiveFiles : disk'[f] = disk[f]
      BY <1>25, <3>1 DEF Discover, Keeping
    <3> QED  BY <3>1, <3>4, <3>5 DEF ReadersOnDisk
  <2>2. TableInFlight'
    BY <1>1, <1>25 DEF Discover, TableInFlight, NewL0, NewL1, OpenSteps
  <2>3. InputsRetired'
    BY <1>1, <1>25 DEF Discover, InputsRetired, Registered, OpenSteps
  <2> QED  BY <1>2, <2>1, <2>2, <2>3 DEF FInv
<1>26. CASE Replay
  <2>1. ReadersOnDisk'
    BY <1>1, <1>26 DEF Replay, ReadersOnDisk, Registered
  <2>2. TableInFlight'
    BY <1>1, <1>26 DEF Replay, TableInFlight, NewL0, NewL1, OpenSteps
  <2>3. InputsRetired'
    BY <1>1, <1>26 DEF Replay, InputsRetired, Registered, OpenSteps
  <2> QED  BY <1>2, <2>1, <2>2, <2>3 DEF FInv
<1>27. CASE OpenSyncDir
  <2>1. ReadersOnDisk'
    BY <1>1, <1>27 DEF OpenSyncDir, ReadersOnDisk, Registered
  <2>2. TableInFlight'
    BY <1>1, <1>27 DEF OpenSyncDir, TableInFlight, NewL0, NewL1, OpenSteps
  <2>3. InputsRetired'
    BY <1>1, <1>27 DEF OpenSyncDir, InputsRetired, Registered, OpenSteps
  <2> QED  BY <1>2, <2>1, <2>2, <2>3 DEF FInv
<1>28. CASE UNCHANGED vars
  BY <1>1, <1>2, <1>28 DEF FInv, ReadersOnDisk, TableInFlight, InputsRetired, vars,
                        Registered, CompactionOutput, NewestCell, NewL0, NewL1
<1> QED
  BY <1>3, <1>4, <1>5, <1>6, <1>7, <1>8, <1>9, <1>10, <1>11, <1>12, <1>13, <1>14, <1>15,
     <1>16, <1>17, <1>18, <1>19, <1>20, <1>21, <1>22, <1>23, <1>24, <1>25, <1>26, <1>27, <1>28
     DEF Next, Client, CallStep, OpenStep, FlushStep, CompactStep

\* No step, crash or I/O error makes the engine serve reads from a table whose
\* file is gone: compaction unlinks its inputs only after it has replaced them
\* in the levels, and discovery registers only files it has found.
THEOREM ReadersHaveFiles == Spec => []RegisteredOnDisk
<1>1. Init => FInv
  BY InitInv DEF Init, FInv, ReadersOnDisk, TableInFlight, InputsRetired
<1>2. FInv => RegisteredOnDisk
  BY DEF FInv, ReadersOnDisk, RegisteredOnDisk, UpSteps, BusySteps, FlushSteps, CompactSteps
<1> QED  BY <1>1, <1>2, NextFInv, PTL DEF Spec

-----------------------------------------------------------------------------
(* The newest entry for a key among a set of tables                        *)

\* NewestCell as a function of the directory, so that the facts below hold
\* of the directory before a step and after it.
CellIn(d, S, k) ==
    LET hits == {f \in S : d[f][k] # Missing}
    IN  IF hits = {} THEN Missing
        ELSE d[CHOOSE f \in hits : \A g \in hits : NewestWins(f, g)][k]

\* What CellIn means: no table of S has the key, or c is the entry of one
\* whose id no other table with the key exceeds.
IsNewest(d, S, k, c) ==
    \/ c = Missing /\ \A f \in S : d[f][k] = Missing
    \/ /\ c # Missing
       /\ \E f \in S : /\ c = d[f][k]
                       /\ \A g \in S : d[g][k] # Missing => g[2] <= f[2]

\* No id names two tables of S.
OneIdEach(S) == \A f, g \in S : f[2] = g[2] => f = g

\* MergingIterator's choice is the newest entry.
LEMMA CellInIsNewest ==
    ASSUME NEW d, NEW S \in SUBSET Files, NEW k
    PROVE  IsNewest(d, S, k, CellIn(d, S, k))
<1> DEFINE hits == {f \in S : d[f][k] # Missing}
<1>1. CASE hits = {}
  BY <1>1 DEF CellIn, IsNewest
<1>2. CASE hits # {}
  <2> DEFINE ids == {f[2] : f \in hits}
             best == CHOOSE f \in hits : \A g \in hits : NewestWins(f, g)
  <2>0. MaxId \in Nat /\ \A f \in hits : f \in Files /\ f[2] \in 0 .. MaxId
    BY ConstantsAssumption DEF Files, Ids
  <2>1. ids \in SUBSET (0 .. MaxId) /\ ids # {}
    BY <1>2, <2>0
  <2>2. Max(ids) \in ids /\ \A y \in ids : y <= Max(ids)
    BY <2>0, <2>1, MaxOfNats
  <2>3. \E f \in hits : \A g \in hits : NewestWins(f, g)
    BY <2>2 DEF NewestWins
  <2>4. best \in hits /\ \A g \in hits : NewestWins(best, g)
    BY <2>3
  <2>5. CellIn(d, S, k) = d[best][k]
    BY <1>2 DEF CellIn
  <2> QED  BY <2>4, <2>5 DEF IsNewest, NewestWins
<1> QED  BY <1>1, <1>2

\* It is the only one, if ids are not shared.
LEMMA NewestUnique ==
    ASSUME NEW d, NEW S \in SUBSET Files, NEW k, NEW c, NEW e, OneIdEach(S),
           IsNewest(d, S, k, c), IsNewest(d, S, k, e)
    PROVE  c = e
<1>0. \A f \in S : f[2] \in Nat
  BY DEF Files, Ids
<1>1. ASSUME NEW f \in S, NEW g \in S, d[f][k] # Missing, d[g][k] # Missing,
             \A h \in S : d[h][k] # Missing => h[2] <= f[2],
             \A h \in S : d[h][k] # Missing => h[2] <= g[2]
      PROVE  f = g
  <2>1. g[2] <= f[2] /\ f[2] <= g[2]
    BY <1>1
  <2>2. f[2] = g[2]
    BY <1>0, <2>1
  <2> QED  BY <2>2 DEF OneIdEach
<1> QED  BY <1>1 DEF IsNewest

\* So two directories that agree on S have the same newest entry.
LEMMA SameNewest ==
    ASSUME NEW d, NEW e, NEW S \in SUBSET Files, NEW k, OneIdEach(S),
           \A f \in S : d[f] = e[f]
    PROVE  CellIn(d, S, k) = CellIn(e, S, k)
<1>1. IsNewest(d, S, k, CellIn(d, S, k)) /\ IsNewest(e, S, k, CellIn(e, S, k))
  BY CellInIsNewest
<1>2. IsNewest(d, S, k, CellIn(e, S, k))
  BY <1>1 DEF IsNewest
<1> QED  BY <1>1, <1>2, NewestUnique

\* Adding a table with an id above the others: its entry if it has one, else
\* the newest of the others.
LEMMA NewestAdded ==
    ASSUME NEW d, NEW S \in SUBSET Files, NEW n \in Files, NEW k,
           OneIdEach(S), \A f \in S : f[2] < n[2]
    PROVE  /\ OneIdEach(S \cup {n})
           /\ CellIn(d, S \cup {n}, k) = IF d[n][k] # Missing THEN d[n][k] ELSE CellIn(d, S, k)
<1> DEFINE T == S \cup {n}
<1>0. T \in SUBSET Files /\ n[2] \in Nat /\ \A f \in S : f[2] \in Nat
  BY DEF Files, Ids
<1>1. OneIdEach(T)
  BY <1>0 DEF OneIdEach
<1>2. IsNewest(d, T, k, CellIn(d, T, k)) /\ IsNewest(d, S, k, CellIn(d, S, k))
  BY <1>0, CellInIsNewest
<1>3. CASE d[n][k] # Missing
  <2>1. IsNewest(d, T, k, d[n][k])
    BY <1>0, <1>3 DEF IsNewest
  <2> QED  BY <1>0, <1>1, <1>2, <1>3, <2>1, NewestUnique
<1>4. CASE d[n][k] = Missing
  <2>1. IsNewest(d, T, k, CellIn(d, S, k))
    BY <1>2, <1>4 DEF IsNewest
  <2> QED  BY <1>0, <1>1, <1>2, <1>4, <2>1, NewestUnique
<1> QED  BY <1>1, <1>3, <1>4

-----------------------------------------------------------------------------
(* Engine::get finds the newest entry                                      *)

\* The registered tables have an id each.
LEMMA RegisteredIds ==
    ASSUME MemoryTypes, LevelOrder
    PROVE  Registered \in SUBSET Files /\ OneIdEach(Registered)
<1>0. Registered \in SUBSET Files
  BY RegisteredFiles
<1>1. /\ \A i \in DOMAIN l0 : l0[i] \in Nat
      /\ \A i \in DOMAIN l1 : l1[i] \in Nat
      /\ DOMAIN l0 = 1 .. Len(l0) /\ DOMAIN l1 = 1 .. Len(l1)
      /\ Len(l0) \in Nat /\ Len(l1) \in Nat
  <2>1. l0 \in Seq(Ids) /\ l1 \in Seq(Ids)
    BY DEF MemoryTypes
  <2>2. \A n \in Ids : n \in Nat
    BY DEF Ids
  <2> QED  BY <2>1, <2>2
<1>2. ASSUME NEW i \in DOMAIN l0, NEW j \in DOMAIN l0, l0[i] = l0[j] PROVE i = j
  BY <1>1, <1>2 DEF LevelOrder
<1>3. ASSUME NEW i \in DOMAIN l0, NEW j \in DOMAIN l1 PROVE l0[i] # l1[j]
  BY <1>1, <1>3 DEF LevelOrder
<1>4. OneIdEach(Registered)
  BY <1>2, <1>3 DEF OneIdEach, Registered
<1> QED  BY <1>0, <1>4

\* The order in which get asks the readers: every one, by decreasing id.
LEMMA ReadOrderDescends ==
    ASSUME MemoryTypes, LevelOrder
    PROVE  /\ DOMAIN ReadOrder \in SUBSET Nat
           /\ \A i \in DOMAIN ReadOrder : ReadOrder[i] \in Registered
           /\ \A f \in Registered : \E i \in DOMAIN ReadOrder : ReadOrder[i] = f
           /\ \A i, j \in DOMAIN ReadOrder : i < j => ReadOrder[j][2] <= ReadOrder[i][2]
<1> DEFINE a == [i \in DOMAIN l0 |-> <<0, l0[i]>>]
           b == [i \in DOMAIN l1 |-> <<1, l1[i]>>]
<1>1. /\ \A i \in DOMAIN l0 : l0[i] \in Ids
      /\ \A i \in DOMAIN l1 : l1[i] \in Ids
      /\ DOMAIN l0 = 1 .. Len(l0) /\ DOMAIN l1 = 1 .. Len(l1)
      /\ Len(l0) \in Nat /\ Len(l1) \in Nat
  BY DEF MemoryTypes
<1>2. a \in Seq(Files) /\ Len(a) = Len(l0) /\ b \in Seq(Files) /\ Len(b) = Len(l1)
  BY <1>1 DEF Files
<1>3. DOMAIN ReadOrder = 1 .. Len(l0) + Len(l1)
  BY <1>1, <1>2 DEF ReadOrder
<1>4. ASSUME NEW i \in DOMAIN l0 PROVE i \in DOMAIN ReadOrder /\ ReadOrder[i] = <<0, l0[i]>>
  BY <1>1, <1>2, <1>3 DEF ReadOrder
<1>5. ASSUME NEW i \in DOMAIN l1
      PROVE  Len(l0) + i \in DOMAIN ReadOrder /\ ReadOrder[Len(l0) + i] = <<1, l1[i]>>
  BY <1>1, <1>2, <1>3 DEF ReadOrder
<1>6. ASSUME NEW i \in DOMAIN ReadOrder
      PROVE  i \in DOMAIN l0 \/ \E j \in DOMAIN l1 : i = Len(l0) + j
  <2>1. CASE i <= Len(l0)
    BY <1>1, <1>3, <2>1
  <2>2. CASE ~(i <= Len(l0))
    <3>1. i - Len(l0) \in DOMAIN l1 /\ i = Len(l0) + (i - Len(l0))
      BY <1>1, <1>3, <2>2
    <3> QED  BY <3>1
  <2> QED  BY <2>1, <2>2
<1>7. \A i \in DOMAIN ReadOrder : ReadOrder[i] \in Registered
  BY <1>4, <1>5, <1>6 DEF Registered
<1>8. \A f \in Registered : \E i \in DOMAIN ReadOrder : ReadOrder[i] = f
  BY <1>4, <1>5 DEF Registered
<1>9. ASSUME NEW i \in DOMAIN ReadOrder, NEW j \in DOMAIN ReadOrder, i < j
      PROVE  ReadOrder[j][2] <= ReadOrder[i][2]
  <2>0. \A n \in Ids : n \in Nat
    BY DEF Ids
  <2>1. CASE j \in DOMAIN l0
    <3>1. i \in DOMAIN l0
      BY <1>1, <1>3, <1>9, <2>1
    <3>2. l0[i] > l0[j]
      BY <1>9, <2>1, <3>1 DEF LevelOrder
    <3> QED  BY <1>1, <1>4, <2>0, <2>1, <3>1, <3>2
  <2>2. CASE j \notin DOMAIN l0 /\ i \in DOMAIN l0
    <3>1. PICK y \in DOMAIN l1 : j = Len(l0) + y
      BY <1>6, <2>2
    <3>2. l0[i] > l1[y]
      BY <2>2, <3>1 DEF LevelOrder
    <3> QED  BY <1>1, <1>4, <1>5, <2>0, <2>2, <3>1, <3>2
  <2>3. CASE j \notin DOMAIN l0 /\ i \notin DOMAIN l0
    <3>1. PICK y \in DOMAIN l1 : j = Len(l0) + y
      BY <1>6, <2>3
    <3>2. PICK x \in DOMAIN l1 : i = Len(l0) + x
      BY <1>6, <2>3
    <3>3. x < y /\ x \in 1 .. Len(l1) /\ y \in 1 .. Len(l1) /\ Len(l1) <= 1
      BY <1>1, <1>9, <3>1, <3>2 DEF LevelOrder
    <3> QED  BY <1>1, <3>3
  <2> QED  BY <2>1, <2>2, <2>3
<1>10. DOMAIN ReadOrder \in SUBSET Nat
  BY <1>1, <1>3
<1> QED  BY <1>7, <1>8, <1>9, <1>10

\* What get finds before it turns a tombstone into no answer.
Lookup(k) == IF memtable[k] # Missing THEN memtable[k] ELSE NewestCell(Registered, k)

\* The first hit in reading order is the newest entry: get, which stops at
\* it, and compaction, which merges by id, agree.
LEMMA GetIsNewest ==
    ASSUME MemoryTypes, LevelOrder, NEW k \in Keys
    PROVE  get(k) = Answer(Lookup(k))
<1> DEFINE hits == {i \in DOMAIN ReadOrder : disk[ReadOrder[i]][k] # Missing}
<1>0. NewestCell(Registered, k) = CellIn(disk, Registered, k)
  BY DEF NewestCell, CellIn
<1>1. Registered \in SUBSET Files /\ OneIdEach(Registered)
  BY RegisteredIds
<1>2. IsNewest(disk, Registered, k, NewestCell(Registered, k))
  BY <1>0, <1>1, CellInIsNewest
<1>3. CASE memtable[k] # Missing
  BY <1>3 DEF get, Lookup
<1>4. CASE memtable[k] = Missing /\ hits = {}
  <2>1. \A f \in Registered : disk[f][k] = Missing
    BY <1>4, ReadOrderDescends
  <2>2. NewestCell(Registered, k) = Missing
    BY <1>2, <2>1 DEF IsNewest
  <2> QED  BY <1>4, <2>2 DEF get, Lookup
<1>5. CASE memtable[k] = Missing /\ hits # {}
  <2>1. Min(hits) \in hits /\ \A y \in hits : Min(hits) <= y
    BY <1>5, ReadOrderDescends, MinOfNats
  <2> DEFINE f == ReadOrder[Min(hits)]
  <2>2. f \in Registered /\ disk[f][k] # Missing
    BY <2>1, ReadOrderDescends
  <2>3. ASSUME NEW g \in Registered, disk[g][k] # Missing PROVE g[2] <= f[2]
    <3>1. PICK j \in hits : ReadOrder[j] = g
      BY <2>3, ReadOrderDescends
    <3>2. Min(hits) = j \/ Min(hits) < j
      <4>1. Min(hits) \in Nat /\ j \in Nat /\ Min(hits) <= j
        BY <2>1, ReadOrderDescends
      <4> QED  BY <4>1
    <3>3. g[2] \in Nat
      BY <1>1 DEF Files, Ids
    <3> QED  BY <2>1, <3>1, <3>2, <3>3, ReadOrderDescends
  <2>4. IsNewest(disk, Registered, k, disk[f][k])
    BY <2>2, <2>3 DEF IsNewest
  <2>5. NewestCell(Registered, k) = disk[f][k]
    BY <1>1, <1>2, <2>4, NewestUnique
  <2> QED  BY <1>5, <2>5 DEF get, Lookup
<1> QED  BY <1>3, <1>4, <1>5

-----------------------------------------------------------------------------
(* The inductive invariant                                                 *)

\* No engine, or one that has not replayed the WAL yet: nothing in memory.
NoMemory == pc \in {"Down"} \cup OpenSteps => memtable = NoTable

\* While Engine::open runs, its readers are the tables a second open would
\* keep, and the WAL it creates has no record.
OpenedFiles ==
    /\ pc \in OpenSteps => Registered = LiveFiles
    /\ pc \in {"OpenHeader", "OpenSyncDir"} => wal.recs = <<>>

\* From its rename to its registration the new L0 table holds the memtable;
\* from there until flush_inner empties the memtable it is the newest table.
FlushedTable ==
    /\ pc \in {"SstSyncDir", "SstOpen"} => disk[NewL0] = memtable
    /\ pc \in {"WalRemove", "WalCreate", "WalHeader", "WalSyncDir"}
          => l0 # <<>> /\ disk[<<0, l0[1]>>] = memtable

\* From its rename to its registration the new L1 table holds the merge.
MergedTable == pc \in {"CmpSyncDir", "CmpOpen"} => disk[NewL1] = CompactionOutput

\* ReadsLatest, in terms of the newest entry.
ReadsNewest == pc \in UpSteps => \A k \in Keys : Answer(Lookup(k)) = acked[k]

RInv == FInv /\ NoMemory /\ OpenedFiles /\ FlushedTable /\ MergedTable /\ ReadsNewest

\* A step that keeps the memtable, the levels and the registered tables keeps
\* what get finds and what a compaction would write.
LEMMA LookupKept ==
    ASSUME MemoryTypes, LevelOrder, UNCHANGED <<memtable, l0, l1>>,
           \A f \in Registered : disk'[f] = disk[f]
    PROVE  /\ Registered' = Registered
           /\ CompactionOutput' = CompactionOutput
           /\ \A k \in Keys : Lookup(k)' = Lookup(k)
<1>1. Registered' = Registered
  BY DEF Registered
<1>2. ASSUME NEW k \in Keys PROVE NewestCell(Registered, k)' = NewestCell(Registered, k)
  <2>1. /\ NewestCell(Registered, k)' = CellIn(disk', Registered', k)
        /\ NewestCell(Registered, k) = CellIn(disk, Registered, k)
    BY DEF NewestCell, CellIn
  <2> QED  BY <1>1, <2>1, RegisteredIds, SameNewest
<1>3. CompactionOutput' = CompactionOutput
  BY <1>2 DEF CompactionOutput
<1>4. ASSUME NEW k \in Keys PROVE Lookup(k)' = Lookup(k)
  BY <1>2 DEF Lookup
<1> QED  BY <1>1, <1>3, <1>4

\* A step of a running engine that changes nothing get depends on.
LEMMA QuietStep ==
    ASSUME RInv, UNCHANGED <<memtable, l0, l1, disk, acked>>, pc' \in UpSteps => pc \in UpSteps
    PROVE  /\ ReadsNewest' /\ CompactionOutput' = CompactionOutput
           /\ Registered' = Registered /\ LiveFiles' = LiveFiles
<1>1. MemoryTypes /\ LevelOrder
  BY DEF RInv, FInv, IInv, TypeOK
<1>2. /\ CompactionOutput' = CompactionOutput /\ Registered' = Registered
      /\ \A k \in Keys : Lookup(k)' = Lookup(k)
  BY <1>1, LookupKept
<1>3. SurvivingL1' = SurvivingL1 /\ IdsAt(0)' = IdsAt(0)
  BY DEF SurvivingL1, IdsAt
<1>4. LiveFiles' = LiveFiles
  BY <1>3 DEF LiveFiles, LiveL0
<1> QED  BY <1>2, <1>4 DEF RInv, ReadsNewest

\* The table names a flush and a compaction would use are not registered.
LEMMA NewNames ==
    ASSUME MemoryTypes, LevelOrder
    PROVE  /\ NewL0 \notin Registered /\ NewL1 \notin Registered
           /\ \A f \in Registered : f[2] < next_sst_id
<1>1. \A f \in Registered : f[2] < next_sst_id
  BY DEF LevelOrder, Registered
<1>2. next_sst_id \in Nat
  BY ConstantsAssumption DEF MemoryTypes
<1> QED  BY <1>1, <1>2 DEF NewL0, NewL1

\* There is room for them.
LEMMA NewFiles ==
    ASSUME MemoryTypes, IdRoom,
           pc \in {"SstRename", "SstOpen", "CmpWrite", "CmpRename", "CmpOpen"}
    PROVE  next_sst_id \in Ids /\ NewL0 \in Files /\ NewL1 \in Files
<1>1. next_sst_id \in Ids
  BY ConstantsAssumption DEF MemoryTypes, IdRoom, Ids
<1> QED  BY <1>1 DEF NewL0, NewL1, Files

\* Registering the flushed table adds it to the readers.
LEMMA FlushRegisters ==
    ASSUME MemoryTypes, next_sst_id \in Ids, l0' = RegisterL0, l1' = l1
    PROVE  Registered' = Registered \cup {NewL0}
<1>1. /\ DOMAIN RegisterL0 = 1 .. Len(l0) + 1 /\ RegisterL0[1] = next_sst_id
      /\ \A i \in 2 .. Len(l0) + 1 : i - 1 \in DOMAIN l0 /\ RegisterL0[i] = l0[i - 1]
  BY RegisterL0Shape DEF MemoryTypes
<1>2. Len(l0) \in Nat /\ DOMAIN l0 = 1 .. Len(l0)
  BY DEF MemoryTypes
<1>3. \A i \in DOMAIN l0 : i + 1 \in DOMAIN RegisterL0 /\ RegisterL0[i + 1] = l0[i]
  BY <1>1, <1>2
<1>4. \A i \in DOMAIN RegisterL0 : i = 1 \/ i \in 2 .. Len(l0) + 1
  BY <1>1, <1>2
<1>5. 1 \in DOMAIN RegisterL0
  BY <1>1, <1>2
<1>6. \A f : (\E i \in DOMAIN RegisterL0 : f = <<0, RegisterL0[i]>>)
             <=> (f = NewL0 \/ \E i \in DOMAIN l0 : f = <<0, l0[i]>>)
  <2> SUFFICES ASSUME NEW f
               PROVE  (\E i \in DOMAIN RegisterL0 : f = <<0, RegisterL0[i]>>)
                         <=> (f = NewL0 \/ \E i \in DOMAIN l0 : f = <<0, l0[i]>>)
    OBVIOUS
  <2>1. ASSUME NEW i \in DOMAIN RegisterL0, f = <<0, RegisterL0[i]>>
        PROVE  f = NewL0 \/ \E j \in DOMAIN l0 : f = <<0, l0[j]>>
    BY <1>1, <1>4, <2>1 DEF NewL0
  <2>2. ASSUME NEW i \in DOMAIN l0, f = <<0, l0[i]>>
        PROVE  \E j \in DOMAIN RegisterL0 : f = <<0, RegisterL0[j]>>
    BY <1>3, <2>2
  <2>3. f = NewL0 => \E j \in DOMAIN RegisterL0 : f = <<0, RegisterL0[j]>>
    BY <1>1, <1>5 DEF NewL0
  <2> QED  BY <2>1, <2>2, <2>3
<1> QED  BY <1>6 DEF Registered

\* Once the flushed table is the first of L0, an entry of the memtable is the
\* newest of the tables.
LEMMA HeadNewest ==
    ASSUME MemoryTypes, LevelOrder, l0 # <<>>, disk[<<0, l0[1]>>] = memtable, NEW k \in Keys
    PROVE  memtable[k] # Missing => NewestCell(Registered, k) = memtable[k]
<1> DEFINE n == <<0, l0[1]>>
<1>1. 1 \in DOMAIN l0 /\ n \in Registered
  BY DEF MemoryTypes, Registered
<1>2. /\ DOMAIN l0 = 1 .. Len(l0) /\ Len(l0) \in Nat
      /\ \A i \in DOMAIN l0 : l0[i] \in Ids
      /\ \A i \in DOMAIN l1 : l1[i] \in Ids
  BY DEF MemoryTypes
<1>3. \A x \in Ids : x \in Nat
  BY DEF Ids
<1>4. \A i \in DOMAIN l0 : l0[i] <= l0[1]
  <2>1. \A i \in DOMAIN l0 : i = 1 \/ 1 < i
    BY <1>2
  <2> QED  BY <1>1, <1>2, <1>3, <2>1 DEF LevelOrder
<1>5. \A i \in DOMAIN l1 : l1[i] <= l0[1]
  BY <1>1, <1>2, <1>3 DEF LevelOrder
<1>6. \A f \in Registered : f[2] <= n[2]
  BY <1>4, <1>5 DEF Registered
<1>7. memtable[k] # Missing => IsNewest(disk, Registered, k, memtable[k])
  BY <1>1, <1>6 DEF IsNewest
<1>8. NewestCell(Registered, k) = CellIn(disk, Registered, k)
  BY DEF NewestCell, CellIn
<1> QED  BY <1>7, <1>8, RegisteredIds, CellInIsNewest, NewestUnique

\* Sorting a set of ids leaves none of them out.
LEMMA NewestFirstAll ==
    ASSUME NEW S \in SUBSET Ids, NEW s \in NewestFirst(S)
    PROVE  \A x \in S : \E i \in DOMAIN s : s[i] = x
<1>1. IsFiniteSet(S) /\ Cardinality(S) \in Nat
  <2>1. 0 \in Int /\ MaxId \in Int
    BY ConstantsAssumption
  <2>2. IsFiniteSet(Ids)
    BY <2>1, FS_Interval DEF Ids
  <2> QED  BY <2>2, FS_Subset, FS_CardinalityType
<1> DEFINE D == 1 .. Cardinality(S)
<1>2. Cardinality(D) = Cardinality(S)
  <2>1. 1 \in Int /\ Cardinality(S) \in Int
    BY <1>1
  <2>2. Cardinality(D) = IF 1 > Cardinality(S) THEN 0 ELSE Cardinality(S) - 1 + 1
    BY <2>1, FS_Interval
  <2> QED  BY <1>1, <2>2
<1>3. s \in [D -> S] /\ \A i, j \in D : i < j => s[i] > s[j]
  BY DEF NewestFirst
<1>4. ASSUME NEW i \in D, NEW j \in D, s[i] = s[j] PROVE i = j
  <2>1. s[i] \in Nat /\ s[j] \in Nat /\ i \in Nat /\ j \in Nat
    <3>1. s[i] \in S /\ s[j] \in S
      BY <1>3
    <3>2. \A x \in S : x \in Nat
      BY DEF Ids
    <3> QED  BY <1>1, <3>1, <3>2
  <2>2. ~(i < j) /\ ~(j < i)
    BY <1>3, <1>4, <2>1
  <2> QED  BY <2>1, <2>2
<1>5. s \in Injection(D, S)
  BY <1>3, <1>4 DEF Injection, IsInjective
<1>6. s \in Surjection(D, S)
  BY <1>1, <1>2, <1>5, FS_Injection
<1> QED  BY <1>3, <1>6 DEF Surjection

\* discover_sstables registers exactly the surviving tables.
LEMMA DiscoverRegisters ==
    ASSUME l0' \in NewestFirst(LiveL0), l1' \in NewestFirst(SurvivingL1)
    PROVE  Registered' = LiveFiles
<1>1. LiveL0 \in SUBSET Ids /\ SurvivingL1 \in SUBSET Ids
  BY LiveTables DEF IdsAt
<1>2. /\ \A i \in DOMAIN l0' : l0'[i] \in LiveL0
      /\ \A i \in DOMAIN l1' : l1'[i] \in SurvivingL1
  BY <1>1, NewestFirstType
<1>3. /\ \A x \in LiveL0 : \E i \in DOMAIN l0' : l0'[i] = x
      /\ \A x \in SurvivingL1 : \E i \in DOMAIN l1' : l1'[i] = x
  BY <1>1, NewestFirstAll
<1> QED  BY <1>2, <1>3 DEF Registered, LiveFiles

\* Removing orphans, or some of them, changes neither the tables a later open
\* would keep nor what they hold.
LEMMA LiveKept ==
    ASSUME NEW S \in SUBSET Files, disk' = Keeping(S)
    PROVE  LiveFiles' = LiveFiles /\ \A f \in LiveFiles : disk'[f] = disk[f]
<1>1. /\ IdsAt(1) \in SUBSET (0 .. MaxId) /\ IdsAt(1)' \in SUBSET (0 .. MaxId)
      /\ MaxId \in Nat
  BY ConstantsAssumption DEF IdsAt, Ids
<1>2. SurvivingL1 \subseteq IdsAt(1) /\ LiveL0 \subseteq IdsAt(0)
  BY LiveTables
<1>3. LiveFiles \subseteq Files
  BY <1>2 DEF LiveFiles, Files, IdsAt
<1>4. \A f \in LiveFiles : disk'[f] = disk[f]
  BY <1>3 DEF Keeping
<1>5. \A f \in Files : disk'[f] # NoTable => disk[f] # NoTable
  BY DEF Keeping
<1>6. \A l \in {0, 1}, i \in Ids : <<l, i>> \in Files
  BY DEF Files
<1>7. IdsAt(1)' \subseteq IdsAt(1) /\ IdsAt(0)' \subseteq IdsAt(0)
  BY <1>5, <1>6 DEF IdsAt
<1>8. SurvivingL1 \subseteq IdsAt(1)' /\ LiveL0 \subseteq IdsAt(0)'
  BY <1>2, <1>4 DEF IdsAt, LiveFiles
<1>9. SurvivingL1' = SurvivingL1
  <2>1. CASE IdsAt(1) = {}
    BY <1>7, <2>1 DEF SurvivingL1
  <2>2. CASE IdsAt(1) # {}
    <3>1. SurvivingL1 = {Max(IdsAt(1))}
      BY <2>2 DEF SurvivingL1
    <3>2. IdsAt(1)' # {} /\ SurvivingL1' = {Max(IdsAt(1)')}
      BY <1>8, <3>1 DEF SurvivingL1
    <3>3. /\ Max(IdsAt(1)) \in IdsAt(1)' /\ Max(IdsAt(1)) \in 0 .. MaxId
          /\ \A y \in IdsAt(1) : y <= Max(IdsAt(1))
      BY <1>1, <1>8, <2>2, <3>1, MaxOfNats
    <3>4. /\ Max(IdsAt(1)') \in IdsAt(1)' /\ Max(IdsAt(1)') \in 0 .. MaxId
          /\ \A y \in IdsAt(1)' : y <= Max(IdsAt(1)')
      BY <1>1, <3>2, MaxOfNats
    <3>5. Max(IdsAt(1)') = Max(IdsAt(1))
      BY <1>1, <1>7, <3>3, <3>4
    <3> QED  BY <3>1, <3>2, <3>5
  <2> QED  BY <2>1, <2>2
<1>10. LiveL0' = LiveL0
  BY <1>7, <1>8, <1>9 DEF LiveL0
<1> QED  BY <1>4, <1>9, <1>10 DEF LiveFiles

\* Every step preserves the invariant.
LEMMA NextRInv == RInv /\ [Next]_vars => RInv'
<1> SUFFICES ASSUME RInv, [Next]_vars PROVE RInv'
  OBVIOUS
<1>1. /\ MemoryTypes /\ DirectoryTypes /\ CallTypes /\ WalTypes /\ GhostTypes
      /\ IdRoom /\ LevelOrder /\ InputsRetired /\ TableInFlight
      /\ NoMemory /\ OpenedFiles /\ FlushedTable /\ MergedTable /\ ReadsNewest
  BY DEF RInv, FInv, IInv, TypeOK
<1>2. FInv'
  BY NextFInv DEF RInv
<1>0. MemoryTypes' /\ LevelOrder'
  BY <1>2 DEF FInv, IInv, TypeOK
<1> USE DEF Goto, Fails, IgnoredError, Proceeds, Returns, Opening,
            mvars, dvars, wvars, gvars, bounds
<1>3. CASE \E k \in Keys, e \in Writes : WriteAppend(k, e)
  <2>1. /\ ReadsNewest' /\ CompactionOutput' = CompactionOutput
        /\ Registered' = Registered /\ LiveFiles' = LiveFiles
    <3>1. UNCHANGED <<memtable, l0, l1, disk, acked>>
      BY <1>3 DEF WriteAppend, Admits
    <3>2. pc' \in UpSteps => pc \in UpSteps
      BY <1>3 DEF WriteAppend, Admits, FlushSteps, CompactSteps, OpenSteps, BusySteps, UpSteps
    <3> QED  BY <3>1, <3>2, QuietStep
  <2>2. NoMemory' /\ OpenedFiles' /\ FlushedTable' /\ MergedTable'
    BY <1>1, <1>3, <2>1 DEF WriteAppend, Admits, NoMemory, OpenedFiles, FlushedTable, MergedTable,
       NewL0, NewL1, FlushSteps, CompactSteps, OpenSteps, BusySteps, UpSteps
  <2> QED  BY <1>2, <2>1, <2>2 DEF RInv
<1>4. CASE Flush
  <2>1. /\ ReadsNewest' /\ CompactionOutput' = CompactionOutput
        /\ Registered' = Registered /\ LiveFiles' = LiveFiles
    <3>1. UNCHANGED <<memtable, l0, l1, disk, acked>>
      BY <1>4 DEF Flush, Admits
    <3>2. pc' \in UpSteps => pc \in UpSteps
      BY <1>4 DEF Flush, Admits, FlushSteps, CompactSteps, OpenSteps, BusySteps, UpSteps
    <3> QED  BY <3>1, <3>2, QuietStep
  <2>2. NoMemory' /\ OpenedFiles' /\ FlushedTable' /\ MergedTable'
    BY <1>1, <1>4, <2>1 DEF Flush, Admits, NoMemory, OpenedFiles, FlushedTable, MergedTable,
       NewL0, NewL1, FlushSteps, CompactSteps, OpenSteps, BusySteps, UpSteps
  <2> QED  BY <1>2, <2>1, <2>2 DEF RInv
<1>5. CASE FlushSync
  <2>1. /\ ReadsNewest' /\ CompactionOutput' = CompactionOutput
        /\ Registered' = Registered /\ LiveFiles' = LiveFiles
    <3>1. UNCHANGED <<memtable, l0, l1, disk, acked>>
      BY <1>5 DEF FlushSync, maybe_compact
    <3>2. pc' \in UpSteps => pc \in UpSteps
      BY <1>5 DEF FlushSync, maybe_compact, FlushSteps, CompactSteps, OpenSteps, BusySteps, UpSteps
    <3> QED  BY <3>1, <3>2, QuietStep
  <2>2. NoMemory' /\ OpenedFiles' /\ FlushedTable' /\ MergedTable'
    BY <1>1, <1>5, <2>1 DEF FlushSync, maybe_compact, NoMemory, OpenedFiles, FlushedTable, MergedTable,
       NewL0, NewL1, FlushSteps, CompactSteps, OpenSteps, BusySteps, UpSteps
  <2> QED  BY <1>2, <2>1, <2>2 DEF RInv
<1>6. CASE SstWrite
  <2>1. /\ ReadsNewest' /\ CompactionOutput' = CompactionOutput
        /\ Registered' = Registered /\ LiveFiles' = LiveFiles
    <3>1. UNCHANGED <<memtable, l0, l1, disk, acked>>
      BY <1>6 DEF SstWrite
    <3>2. pc' \in UpSteps => pc \in UpSteps
      BY <1>6 DEF SstWrite, FlushSteps, CompactSteps, OpenSteps, BusySteps, UpSteps
    <3> QED  BY <3>1, <3>2, QuietStep
  <2>2. NoMemory' /\ OpenedFiles' /\ FlushedTable' /\ MergedTable'
    BY <1>1, <1>6, <2>1 DEF SstWrite, NoMemory, OpenedFiles, FlushedTable, MergedTable,
       NewL0, NewL1, FlushSteps, CompactSteps, OpenSteps, BusySteps, UpSteps
  <2> QED  BY <1>2, <2>1, <2>2 DEF RInv
<1>7. CASE SstSyncDir
  <2>1. /\ ReadsNewest' /\ CompactionOutput' = CompactionOutput
        /\ Registered' = Registered /\ LiveFiles' = LiveFiles
    <3>1. UNCHANGED <<memtable, l0, l1, disk, acked>>
      BY <1>7 DEF SstSyncDir
    <3>2. pc' \in UpSteps => pc \in UpSteps
      BY <1>7 DEF SstSyncDir, FlushSteps, CompactSteps, OpenSteps, BusySteps, UpSteps
    <3> QED  BY <3>1, <3>2, QuietStep
  <2>2. NoMemory' /\ OpenedFiles' /\ FlushedTable' /\ MergedTable'
    BY <1>1, <1>7, <2>1 DEF SstSyncDir, NoMemory, OpenedFiles, FlushedTable, MergedTable,
       NewL0, NewL1, FlushSteps, CompactSteps, OpenSteps, BusySteps, UpSteps
  <2> QED  BY <1>2, <2>1, <2>2 DEF RInv
<1>8. CASE WalRemove
  <2>1. /\ ReadsNewest' /\ CompactionOutput' = CompactionOutput
        /\ Registered' = Registered /\ LiveFiles' = LiveFiles
    <3>1. UNCHANGED <<memtable, l0, l1, disk, acked>>
      BY <1>8 DEF WalRemove
    <3>2. pc' \in UpSteps => pc \in UpSteps
      BY <1>8 DEF WalRemove, FlushSteps, CompactSteps, OpenSteps, BusySteps, UpSteps
    <3> QED  BY <3>1, <3>2, QuietStep
  <2>2. NoMemory' /\ OpenedFiles' /\ FlushedTable' /\ MergedTable'
    BY <1>1, <1>8, <2>1 DEF WalRemove, NoMemory, OpenedFiles, FlushedTable, MergedTable,
       NewL0, NewL1, FlushSteps, CompactSteps, OpenSteps, BusySteps, UpSteps
  <2> QED  BY <1>2, <2>1, <2>2 DEF RInv
<1>9. CASE WalCreate
  <2>1. /\ ReadsNewest' /\ CompactionOutput' = CompactionOutput
        /\ Registered' = Registered /\ LiveFiles' = LiveFiles
    <3>1. UNCHANGED <<memtable, l0, l1, disk, acked>>
      BY <1>9 DEF WalCreate
    <3>2. pc' \in UpSteps => pc \in UpSteps
      BY <1>9 DEF WalCreate, FlushSteps, CompactSteps, OpenSteps, BusySteps, UpSteps
    <3> QED  BY <3>1, <3>2, QuietStep
  <2>2. NoMemory' /\ OpenedFiles' /\ FlushedTable' /\ MergedTable'
    BY <1>1, <1>9, <2>1 DEF WalCreate, NoMemory, OpenedFiles, FlushedTable, MergedTable,
       NewL0, NewL1, FlushSteps, CompactSteps, OpenSteps, BusySteps, UpSteps, NoWal
  <2> QED  BY <1>2, <2>1, <2>2 DEF RInv
<1>10. CASE WalHeader
  <2>1. /\ ReadsNewest' /\ CompactionOutput' = CompactionOutput
        /\ Registered' = Registered /\ LiveFiles' = LiveFiles
    <3>1. UNCHANGED <<memtable, l0, l1, disk, acked>>
      BY <1>10 DEF WalHeader
    <3>2. pc' \in UpSteps => pc \in UpSteps
      BY <1>10 DEF WalHeader, FlushSteps, CompactSteps, OpenSteps, BusySteps, UpSteps
    <3> QED  BY <3>1, <3>2, QuietStep
  <2>3. wal'.recs = wal.recs
    BY <1>1, <1>10 DEF WalHeader, WalTypes, Wals
  <2>2. NoMemory' /\ OpenedFiles' /\ FlushedTable' /\ MergedTable'
    BY <1>1, <1>10, <2>1, <2>3 DEF WalHeader, NoMemory, OpenedFiles, FlushedTable, MergedTable,
       NewL0, NewL1, FlushSteps, CompactSteps, OpenSteps, BusySteps, UpSteps
  <2> QED  BY <1>2, <2>1, <2>2 DEF RInv
<1>11. CASE CmpSyncDir
  <2>1. /\ ReadsNewest' /\ CompactionOutput' = CompactionOutput
        /\ Registered' = Registered /\ LiveFiles' = LiveFiles
    <3>1. UNCHANGED <<memtable, l0, l1, disk, acked>>
      BY <1>11 DEF CmpSyncDir
    <3>2. pc' \in UpSteps => pc \in UpSteps
      BY <1>11 DEF CmpSyncDir, FlushSteps, CompactSteps, OpenSteps, BusySteps, UpSteps
    <3> QED  BY <3>1, <3>2, QuietStep
  <2>2. NoMemory' /\ OpenedFiles' /\ FlushedTable' /\ MergedTable'
    BY <1>1, <1>11, <2>1 DEF CmpSyncDir, NoMemory, OpenedFiles, FlushedTable, MergedTable,
       NewL0, NewL1, FlushSteps, CompactSteps, OpenSteps, BusySteps, UpSteps
  <2> QED  BY <1>2, <2>1, <2>2 DEF RInv
<1>12. CASE UnlinkedAll
  <2>1. /\ ReadsNewest' /\ CompactionOutput' = CompactionOutput
        /\ Registered' = Registered /\ LiveFiles' = LiveFiles
    <3>1. UNCHANGED <<memtable, l0, l1, disk, acked>>
      BY <1>12 DEF UnlinkedAll
    <3>2. pc' \in UpSteps => pc \in UpSteps
      BY <1>12 DEF UnlinkedAll, FlushSteps, CompactSteps, OpenSteps, BusySteps, UpSteps
    <3> QED  BY <3>1, <3>2, QuietStep
  <2>2. NoMemory' /\ OpenedFiles' /\ FlushedTable' /\ MergedTable'
    BY <1>1, <1>12, <2>1 DEF UnlinkedAll, NoMemory, OpenedFiles, FlushedTable, MergedTable,
       NewL0, NewL1, FlushSteps, CompactSteps, OpenSteps, BusySteps, UpSteps
  <2> QED  BY <1>2, <2>1, <2>2 DEF RInv
<1>13. CASE CmpFinish
  <2>1. /\ ReadsNewest' /\ CompactionOutput' = CompactionOutput
        /\ Registered' = Registered /\ LiveFiles' = LiveFiles
    <3>1. UNCHANGED <<memtable, l0, l1, disk, acked>>
      BY <1>13 DEF CmpFinish
    <3>2. pc' \in UpSteps => pc \in UpSteps
      BY <1>13 DEF CmpFinish, FlushSteps, CompactSteps, OpenSteps, BusySteps, UpSteps
    <3> QED  BY <3>1, <3>2, QuietStep
  <2>2. NoMemory' /\ OpenedFiles' /\ FlushedTable' /\ MergedTable'
    BY <1>1, <1>13, <2>1 DEF CmpFinish, NoMemory, OpenedFiles, FlushedTable, MergedTable,
       NewL0, NewL1, FlushSteps, CompactSteps, OpenSteps, BusySteps, UpSteps
  <2> QED  BY <1>2, <2>1, <2>2 DEF RInv
<1>14. CASE Close
  <2>1. /\ ReadsNewest' /\ CompactionOutput' = CompactionOutput
        /\ Registered' = Registered /\ LiveFiles' = LiveFiles
    <3>1. UNCHANGED <<memtable, l0, l1, disk, acked>>
      BY <1>14 DEF Close
    <3>2. pc' \in UpSteps => pc \in UpSteps
      BY <1>14 DEF Close, FlushSteps, CompactSteps, OpenSteps, BusySteps, UpSteps
    <3> QED  BY <3>1, <3>2, QuietStep
  <2>2. NoMemory' /\ OpenedFiles' /\ FlushedTable' /\ MergedTable'
    BY <1>1, <1>14, <2>1 DEF Close, NoMemory, OpenedFiles, FlushedTable, MergedTable,
       NewL0, NewL1, FlushSteps, CompactSteps, OpenSteps, BusySteps, UpSteps
  <2> QED  BY <1>2, <2>1, <2>2 DEF RInv
<1>15. CASE WalSync
  <2>1. CASE UNCHANGED <<memtable, acked>>
    <3>1. ReadsNewest'
      <4>1. UNCHANGED <<memtable, l0, l1, disk, acked>> /\ pc \in UpSteps
        BY <1>15, <2>1 DEF WalSync, FlushSteps, CompactSteps, OpenSteps, BusySteps, UpSteps
      <4> QED  BY <4>1, QuietStep
    <3>2. NoMemory' /\ OpenedFiles' /\ FlushedTable' /\ MergedTable'
      BY <1>15 DEF WalSync, maybe_compact, NoMemory, OpenedFiles, FlushedTable, MergedTable,
         FlushSteps, CompactSteps, OpenSteps, BusySteps, UpSteps
    <3> QED  BY <1>2, <3>1, <3>2 DEF RInv
  <2>2. CASE /\ memtable' = [memtable EXCEPT ![req.key] = req.entry]
             /\ acked' = [acked EXCEPT ![req.key] = Answer(req.entry)]
    <3>0. /\ req \in Records /\ req.entry # Missing /\ UNCHANGED <<l0, l1, disk>>
          /\ memtable \in [Keys -> Cells] /\ acked \in [Keys -> Answers] /\ pc \in UpSteps
      BY <1>1, <1>15, ConstantsAssumption
         DEF WalSync, CallTypes, MemoryTypes, GhostTypes, Tables, Records, Entries, FlushSteps, CompactSteps, OpenSteps, BusySteps, UpSteps
    <3>1. ASSUME NEW k \in Keys PROVE Answer(Lookup(k))' = acked'[k]
      <4>1. CASE k = req.key
        <5>1. memtable'[k] = req.entry /\ acked'[k] = Answer(req.entry)
          BY <2>2, <3>0, <4>1
        <5> QED  BY <3>0, <5>1 DEF Lookup, Answer
      <4>2. CASE k # req.key
        <5>1. memtable'[k] = memtable[k] /\ acked'[k] = acked[k]
          BY <2>2, <3>0, <4>2
        <5>2. NewestCell(Registered, k)' = NewestCell(Registered, k)
          BY <3>0 DEF NewestCell, Registered
        <5>3. Answer(Lookup(k)) = acked[k]
          BY <1>1, <3>0 DEF ReadsNewest
        <5> QED  BY <5>1, <5>2, <5>3 DEF Lookup, Answer
      <4> QED  BY <4>1, <4>2
    <3>2. NoMemory' /\ OpenedFiles' /\ FlushedTable' /\ MergedTable'
      BY <1>15 DEF WalSync, maybe_compact, NoMemory, OpenedFiles, FlushedTable, MergedTable,
         FlushSteps, CompactSteps, OpenSteps, BusySteps, UpSteps
    <3> QED  BY <1>2, <3>1, <3>2 DEF RInv, ReadsNewest
  <2> QED  BY <1>15, <2>1, <2>2 DEF WalSync
<1>16. CASE SstRename
  <2>1. NewL0 \in Files /\ \A f \in Registered : f \in Files /\ disk'[f] = disk[f]
    <3>1. NewL0 \in Files
      BY <1>1, <1>16, NewFiles DEF SstRename
    <3>2. Registered \in SUBSET Files /\ NewL0 \notin Registered
      BY <1>1, RegisteredIds, NewNames
    <3> QED  BY <1>1, <1>16, <3>1, <3>2 DEF SstRename, DirectoryTypes
  <2>2. /\ pc' \in {"SstSyncDir", "Idle"} /\ pc \in UpSteps
        /\ UNCHANGED <<memtable, l0, l1, next_sst_id, acked>>
    BY <1>16 DEF SstRename, FlushSteps, CompactSteps, OpenSteps, BusySteps, UpSteps
  <2>3. ReadsNewest'
    BY <1>1, <2>1, <2>2, LookupKept DEF ReadsNewest, Answer
  <2>4. FlushedTable'
    <3>1. CASE disk' = [disk EXCEPT ![NewL0] = memtable]
      <4>1. disk'[NewL0] = memtable /\ NewL0' = NewL0
        BY <1>1, <2>1, <2>2, <3>1 DEF DirectoryTypes, NewL0
      <4> QED  BY <2>2, <4>1 DEF FlushedTable
    <3>2. CASE pc' = "Idle"
      BY <3>2 DEF FlushedTable
    <3> QED  BY <1>16, <2>2, <3>1, <3>2 DEF SstRename, OpenSteps
  <2>5. NoMemory' /\ OpenedFiles' /\ MergedTable'
    BY <2>2 DEF NoMemory, OpenedFiles, MergedTable, OpenSteps
  <2> QED  BY <1>2, <2>3, <2>4, <2>5 DEF RInv
<1>17. CASE SstOpen
  <2>1. CASE UNCHANGED <<l0, next_sst_id>>
    <3>1. ReadsNewest'
      <4>1. UNCHANGED <<memtable, l0, l1, disk, acked>> /\ pc \in UpSteps
        BY <1>17, <2>1 DEF SstOpen, FlushSteps, CompactSteps, OpenSteps, BusySteps, UpSteps
      <4> QED  BY <4>1, QuietStep
    <3>2. NoMemory' /\ OpenedFiles' /\ FlushedTable' /\ MergedTable'
      <4>1. pc' = "Idle" \/ next_sst_id' = next_sst_id + 1
        BY <1>17 DEF SstOpen, OpenSteps
      <4>2. pc' = "Idle"
        BY <1>1, <2>1, <4>1, ConstantsAssumption DEF MemoryTypes
      <4> QED  BY <4>2 DEF NoMemory, OpenedFiles, FlushedTable, MergedTable, OpenSteps
    <3> QED  BY <1>2, <3>1, <3>2 DEF RInv
  <2>2. CASE l0' = RegisterL0 /\ pc' = "WalRemove"
    <3>0. /\ UNCHANGED <<memtable, l1, disk, acked>> /\ pc \in UpSteps
          /\ disk[NewL0] = memtable /\ next_sst_id \in Ids /\ NewL0 \in Files
      BY <1>1, <1>17, NewFiles DEF SstOpen, FlushedTable,
         FlushSteps, CompactSteps, OpenSteps, BusySteps, UpSteps
    <3>1. Registered' = Registered \cup {NewL0}
      BY <1>1, <2>2, <3>0, FlushRegisters
    <3>2. Registered \in SUBSET Files /\ OneIdEach(Registered)
      BY <1>1, RegisteredIds
    <3>3. \A f \in Registered : f[2] < NewL0[2]
      BY <1>1, NewNames DEF NewL0
    <3>4. ASSUME NEW k \in Keys PROVE Answer(Lookup(k))' = acked'[k]
      <4>1. /\ NewestCell(Registered, k)' = CellIn(disk', Registered', k)
            /\ NewestCell(Registered, k) = CellIn(disk, Registered, k)
        BY DEF NewestCell, CellIn
      <4>2. NewestCell(Registered, k)' = IF memtable[k] # Missing THEN memtable[k]
                                          ELSE NewestCell(Registered, k)
        BY <3>0, <3>1, <3>2, <3>3, <4>1, NewestAdded
      <4>3. Answer(Lookup(k)) = acked[k]
        BY <1>1, <3>0 DEF ReadsNewest
      <4> QED  BY <3>0, <4>2, <4>3 DEF Lookup, Answer
    <3>5. FlushedTable'
      <4>1. l0'[1] = next_sst_id /\ l0' # <<>>
        BY <1>1, <2>2, <3>0, RegisterL0Shape DEF MemoryTypes
      <4> QED  BY <2>2, <3>0, <4>1 DEF FlushedTable, NewL0
    <3>6. NoMemory' /\ OpenedFiles' /\ MergedTable'
      BY <2>2 DEF NoMemory, OpenedFiles, MergedTable, OpenSteps
    <3> QED  BY <1>2, <3>4, <3>5, <3>6 DEF RInv, ReadsNewest
  <2> QED  BY <1>17, <2>1, <2>2 DEF SstOpen
<1>18. CASE WalSyncDir
  <2>0. UNCHANGED <<l0, l1, disk, acked>> /\ pc = "WalSyncDir" /\ pc \in UpSteps
    BY <1>18 DEF WalSyncDir, FlushSteps, CompactSteps, OpenSteps, BusySteps, UpSteps
  <2>1. NoMemory' /\ OpenedFiles' /\ FlushedTable' /\ MergedTable'
    BY <1>18 DEF WalSyncDir, maybe_compact, NoMemory, OpenedFiles, FlushedTable, MergedTable,
       FlushSteps, CompactSteps, OpenSteps, BusySteps, UpSteps
  <2>2. CASE UNCHANGED memtable
    BY <1>2, <2>0, <2>1, <2>2, QuietStep DEF RInv
  <2>3. CASE memtable' = NoTable
    <3>3. ASSUME NEW k \in Keys PROVE Answer(Lookup(k))' = acked'[k]
      <4>1. NewestCell(Registered, k)' = NewestCell(Registered, k)
        BY <2>0 DEF NewestCell, Registered
      <4>3. memtable[k] # Missing => NewestCell(Registered, k) = memtable[k]
        BY <1>1, <2>0, HeadNewest DEF FlushedTable
      <4>4. memtable'[k] = Missing
        BY <2>3 DEF NoTable
      <4>5. Answer(Lookup(k)) = acked[k]
        BY <1>1, <2>0 DEF ReadsNewest
      <4> QED  BY <2>0, <4>1, <4>3, <4>4, <4>5 DEF Lookup, Answer
    <3> QED  BY <1>2, <2>1, <3>3 DEF RInv, ReadsNewest
  <2> QED  BY <1>18, <2>2, <2>3 DEF WalSyncDir
<1>19. CASE CmpWrite
  <2>0. UNCHANGED <<memtable, disk, acked>> /\ pc \in UpSteps
    BY <1>19 DEF CmpWrite, FlushSteps, CompactSteps, OpenSteps, BusySteps, UpSteps
  <2>1. NoMemory' /\ OpenedFiles' /\ FlushedTable' /\ MergedTable'
    BY <1>19 DEF CmpWrite, NoMemory, OpenedFiles, FlushedTable, MergedTable,
       FlushSteps, CompactSteps, OpenSteps, BusySteps, UpSteps
  <2>2. CASE UNCHANGED <<l0, l1>>
    BY <1>2, <2>0, <2>1, <2>2, QuietStep DEF RInv
  <2>3. CASE CompactionOutput = NoTable /\ l0' = <<>> /\ l1' = <<>>
    <3>1. Registered' = {}
      BY <2>3 DEF Registered
    <3>2. ASSUME NEW k \in Keys PROVE Answer(Lookup(k))' = acked'[k]
      <4>1. NewestCell(Registered, k)' = Missing
        BY <3>1 DEF NewestCell
      <4>2. DropTombstone(NewestCell(Registered, k)) = Missing
        BY <2>3 DEF CompactionOutput, NoTable
      <4>3. Answer(NewestCell(Registered, k)) = Missing
        BY <4>2, ConstantsAssumption DEF DropTombstone, Answer
      <4>4. Answer(Lookup(k)) = acked[k]
        BY <1>1, <2>0 DEF ReadsNewest
      <4> QED  BY <2>0, <4>1, <4>3, <4>4, ConstantsAssumption DEF Lookup, Answer
    <3> QED  BY <1>2, <2>1, <3>2 DEF RInv, ReadsNewest
  <2> QED  BY <1>19, <2>2, <2>3 DEF CmpWrite
<1>20. CASE CmpRename
  <2>1. NewL1 \in Files /\ \A f \in Registered : f \in Files /\ disk'[f] = disk[f]
    <3>1. NewL1 \in Files
      BY <1>1, <1>20, NewFiles DEF CmpRename
    <3>2. Registered \in SUBSET Files /\ NewL1 \notin Registered
      BY <1>1, RegisteredIds, NewNames
    <3> QED  BY <1>1, <1>20, <3>1, <3>2 DEF CmpRename, DirectoryTypes
  <2>2. /\ pc' \in {"CmpSyncDir", "Idle"} /\ pc \in UpSteps
        /\ UNCHANGED <<memtable, l0, l1, next_sst_id, acked>>
    BY <1>20 DEF CmpRename, FlushSteps, CompactSteps, OpenSteps, BusySteps, UpSteps
  <2>3. ReadsNewest' /\ CompactionOutput' = CompactionOutput
    BY <1>1, <2>1, <2>2, LookupKept DEF ReadsNewest, Answer
  <2>4. MergedTable'
    <3>1. CASE disk' = [disk EXCEPT ![NewL1] = CompactionOutput]
      <4>1. disk'[NewL1] = CompactionOutput /\ NewL1' = NewL1
        BY <1>1, <2>1, <2>2, <3>1 DEF DirectoryTypes, NewL1
      <4> QED  BY <2>2, <2>3, <4>1 DEF MergedTable
    <3>2. CASE pc' = "Idle"
      BY <3>2 DEF MergedTable
    <3> QED  BY <1>20, <2>2, <3>1, <3>2 DEF CmpRename, OpenSteps
  <2>5. NoMemory' /\ OpenedFiles' /\ FlushedTable'
    BY <2>2 DEF NoMemory, OpenedFiles, FlushedTable, OpenSteps
  <2> QED  BY <1>2, <2>3, <2>4, <2>5 DEF RInv
<1>21. CASE CmpOpen
  <2>0. UNCHANGED <<memtable, disk, acked>> /\ pc = "CmpOpen" /\ pc \in UpSteps
    BY <1>21 DEF CmpOpen, FlushSteps, CompactSteps, OpenSteps, BusySteps, UpSteps
  <2>1. NoMemory' /\ OpenedFiles' /\ FlushedTable' /\ MergedTable'
    BY <1>21 DEF CmpOpen, NoMemory, OpenedFiles, FlushedTable, MergedTable,
       FlushSteps, CompactSteps, OpenSteps, BusySteps, UpSteps
  <2>2. CASE UNCHANGED <<l0, l1>>
    BY <1>2, <2>0, <2>1, <2>2, QuietStep DEF RInv
  <2>3. CASE l0' = <<>> /\ l1' = <<next_sst_id>>
    <3>1. Registered' = {NewL1}
      <4>1. DOMAIN l0' = {} /\ DOMAIN l1' = {1} /\ l1'[1] = next_sst_id
        BY <2>3
      <4> QED  BY <4>1 DEF Registered, NewL1
    <3>2. NewL1 \in Files /\ disk[NewL1] = CompactionOutput
      BY <1>1, <2>0, NewFiles DEF MergedTable
    <3>3. ASSUME NEW k \in Keys PROVE Answer(Lookup(k))' = acked'[k]
      <4> DEFINE c == DropTombstone(NewestCell(Registered, k))
      <4>1. disk[NewL1][k] = c
        BY <3>2 DEF CompactionOutput
      <4>2. NewestCell(Registered, k)' = CellIn(disk, {NewL1}, k)
        BY <2>0, <3>1 DEF NewestCell, CellIn
      <4>3. IsNewest(disk, {NewL1}, k, NewestCell(Registered, k)')
        BY <3>2, <4>2, CellInIsNewest
      <4>4. NewestCell(Registered, k)' = c
        BY <4>1, <4>3 DEF IsNewest
      <4>5. Answer(c) = Answer(NewestCell(Registered, k))
        BY ConstantsAssumption DEF DropTombstone, Answer
      <4>6. Answer(Lookup(k)) = acked[k]
        BY <1>1, <2>0 DEF ReadsNewest
      <4> QED  BY <2>0, <4>4, <4>5, <4>6 DEF Lookup, Answer
    <3> QED  BY <1>2, <2>1, <3>3 DEF RInv, ReadsNewest
  <2> QED  BY <1>21, <2>2, <2>3 DEF CmpOpen
<1>22. CASE Unlink
  <2>0. /\ UNCHANGED <<memtable, l0, l1, acked>> /\ pc' = pc
        /\ pc \in {"CmpUnlink", "DropUnlink"} /\ pc \in UpSteps /\ input_ids # <<>>
    BY <1>22 DEF Unlink, FlushSteps, CompactSteps, OpenSteps, BusySteps, UpSteps
  <2>1. \A f \in Registered : disk'[f] = disk[f]
    <3>1. 1 \in DOMAIN input_ids /\ Head(input_ids) = input_ids[1]
      BY <1>1, <2>0 DEF MemoryTypes
    <3>2. \A f \in Registered : f \in Files /\ f[2] # Head(input_ids)
      BY <1>1, <2>0, <3>1, RegisteredFiles DEF InputsRetired
    <3> QED  BY <1>22, <3>2 DEF Unlink, Unlinked
  <2>2. ReadsNewest'
    BY <1>1, <2>0, <2>1, LookupKept DEF ReadsNewest, Answer
  <2>3. NoMemory' /\ OpenedFiles' /\ FlushedTable' /\ MergedTable'
    BY <2>0 DEF NoMemory, OpenedFiles, FlushedTable, MergedTable, OpenSteps
  <2> QED  BY <1>2, <2>2, <2>3 DEF RInv
<1>23. CASE Crash
  BY <1>2, <1>23 DEF Crash, Dies, RInv, NoMemory, OpenedFiles, FlushedTable, MergedTable,
     ReadsNewest, FlushSteps, CompactSteps, OpenSteps, BusySteps, UpSteps
<1>24. CASE Kill
  BY <1>2, <1>24 DEF Kill, Dies, RInv, NoMemory, OpenedFiles, FlushedTable, MergedTable,
     ReadsNewest, FlushSteps, CompactSteps, OpenSteps, BusySteps, UpSteps
<1>25. CASE Discover
  <2>0. pc' = "Replay" /\ memtable' = NoTable
    BY <1>1, <1>25 DEF Discover, NoMemory
  <2>1. Registered' = LiveFiles
    BY <1>25, DiscoverRegisters DEF Discover
  <2>2. LiveFiles' = LiveFiles
    <3>1. PICK S \in SUBSET Files : disk' = Keeping(S)
      BY <1>25 DEF Discover
    <3> QED  BY <3>1, LiveKept
  <2>3. NoMemory' /\ OpenedFiles' /\ FlushedTable' /\ MergedTable' /\ ReadsNewest'
    BY <2>0, <2>1, <2>2 DEF NoMemory, OpenedFiles, FlushedTable, MergedTable, ReadsNewest,
       FlushSteps, CompactSteps, OpenSteps, BusySteps, UpSteps
  <2> QED  BY <1>2, <2>3 DEF RInv
<1>26. CASE Replay
  <2>0. /\ pc \in OpenSteps /\ pc = "Replay" /\ memtable = NoTable /\ Registered = LiveFiles
        /\ UNCHANGED <<l0, l1, disk, wal>>
    BY <1>1, <1>26 DEF Replay, NoMemory, OpenedFiles, OpenSteps
  <2>1. Registered' = Registered /\ LiveFiles' = LiveFiles
    <3>1. SurvivingL1' = SurvivingL1 /\ IdsAt(0)' = IdsAt(0)
      BY <2>0 DEF SurvivingL1, IdsAt
    <3> QED  BY <2>0, <3>1 DEF Registered, LiveFiles, LiveL0
  <2>2. CASE pc' \in {"Corrupt", "OpenCreate"} /\ UNCHANGED memtable
    BY <1>2, <2>0, <2>1, <2>2 DEF RInv, NoMemory, OpenedFiles, FlushedTable, MergedTable, ReadsNewest,
       FlushSteps, CompactSteps, OpenSteps, BusySteps, UpSteps
  <2>3. CASE memtable' = replay_wal(wal) /\ Recovered /\ pc' = "Idle"
    <3>1. ASSUME NEW k \in Keys PROVE Answer(Lookup(k))' = acked'[k]
      <4>1. memtable'[k] = ReplayedCell(wal, k)
        BY <2>3 DEF replay_wal
      <4>2. NewestCell(Registered, k)' = NewestCell(LiveFiles, k)
        BY <2>0, <2>1 DEF NewestCell
      <4>3. acked'[k] = Answer(DiskCell(k))
        BY <2>3 DEF Recovered
      <4> QED  BY <4>1, <4>2, <4>3 DEF Lookup, Answer, DiskCell
    <3>2. NoMemory' /\ OpenedFiles' /\ FlushedTable' /\ MergedTable'
      BY <2>3 DEF NoMemory, OpenedFiles, FlushedTable, MergedTable, OpenSteps
    <3> QED  BY <1>2, <3>1, <3>2 DEF RInv, ReadsNewest
  <2> QED  BY <1>26, <2>2, <2>3 DEF Replay
<1>27. CASE OpenSyncDir
  <2>0. /\ memtable = NoTable /\ Registered = LiveFiles /\ wal.recs = <<>>
        /\ UNCHANGED <<memtable, l0, l1, disk, wal>>
    BY <1>1, <1>27 DEF OpenSyncDir, NoMemory, OpenedFiles, OpenSteps
  <2>1. CASE pc' = "Down"
    BY <1>2, <2>0, <2>1 DEF RInv, NoMemory, OpenedFiles, FlushedTable, MergedTable, ReadsNewest,
       FlushSteps, CompactSteps, OpenSteps, BusySteps, UpSteps
  <2>2. CASE Recovered /\ pc' = "Idle"
    <3>1. ASSUME NEW k \in Keys PROVE Answer(Lookup(k))' = acked'[k]
      <4>1. ReplayedCell(wal, k) = Missing
        <5>1. ReadableLen(wal) \in 0 .. 0
          BY <1>1, <2>0, ReadableRecords DEF WalTypes
        <5>2. 1 .. ReadableLen(wal) = {}
          BY <5>1
        <5> QED  BY <5>2 DEF ReplayedCell
      <4>2. memtable'[k] = Missing
        BY <2>0 DEF NoTable
      <4>3. NewestCell(Registered, k)' = NewestCell(LiveFiles, k)
        <5>1. Registered' = LiveFiles
          BY <2>0 DEF Registered
        <5> QED  BY <2>0, <5>1 DEF NewestCell
      <4>4. acked'[k] = Answer(DiskCell(k))
        BY <2>2 DEF Recovered
      <4> QED  BY <4>1, <4>2, <4>3, <4>4 DEF Lookup, Answer, DiskCell
    <3>2. NoMemory' /\ OpenedFiles' /\ FlushedTable' /\ MergedTable'
      BY <2>2 DEF NoMemory, OpenedFiles, FlushedTable, MergedTable, OpenSteps
    <3> QED  BY <1>2, <3>1, <3>2 DEF RInv, ReadsNewest
  <2> QED  BY <1>27, <2>1, <2>2 DEF OpenSyncDir, OpenSteps
<1>28. CASE UNCHANGED vars
  <2>1. UNCHANGED <<memtable, l0, l1, disk, acked>> /\ pc' = pc
    BY <1>28 DEF vars
  <2>2. /\ ReadsNewest' /\ CompactionOutput' = CompactionOutput
        /\ Registered' = Registered /\ LiveFiles' = LiveFiles
    BY <2>1, QuietStep
  <2>3. NoMemory' /\ OpenedFiles' /\ FlushedTable' /\ MergedTable'
    BY <1>1, <1>28, <2>2 DEF vars, NoMemory, OpenedFiles, FlushedTable, MergedTable,
       NewL0, NewL1
  <2> QED  BY <1>2, <2>2, <2>3 DEF RInv
<1> QED
  BY <1>3, <1>4, <1>5, <1>6, <1>7, <1>8, <1>9, <1>10, <1>11, <1>12, <1>13, <1>14, <1>15,
     <1>16, <1>17, <1>18, <1>19, <1>20, <1>21, <1>22, <1>23, <1>24, <1>25, <1>26, <1>27, <1>28
     DEF Next, Client, CallStep, OpenStep, FlushStep, CompactStep

\* Init establishes the invariant.
LEMMA InitRInv == Init => RInv
<1>1. Init => FInv
  BY InitInv DEF Init, FInv, ReadersOnDisk, TableInFlight, InputsRetired
<1> QED  BY <1>1 DEF Init, RInv, NoMemory, OpenedFiles, FlushedTable, MergedTable,
     ReadsNewest, FlushSteps, CompactSteps, OpenSteps, BusySteps, UpSteps

\* The invariant says what get answers.
LEMMA RInvReads == RInv => ReadsLatest
<1>1. RInv => MemoryTypes /\ LevelOrder /\ ReadsNewest
  BY DEF RInv, FInv, IInv, TypeOK
<1> QED  BY <1>1, GetIsNewest DEF ReadsNewest, ReadsLatest

\* Whatever flush, rotation and compaction are in the middle of, and whatever
\* I/O errors, kills and power failures came before, get answers with the last
\* write that took effect: Engine::get over memtable, L0 and L1 never serves a
\* stale value nor one that a tombstone hides.
THEOREM GetReadsLatest == Spec => []ReadsLatest
BY InitRInv, NextRInv, RInvReads, PTL DEF Spec
=============================================================================

------------------------- MODULE VectorEngineProofs -------------------------
(***************************************************************************)
(* Theorems about VectorEngine, for every finite set of threads, every set *)
(* of keys and vectors, every memtable size and compaction trigger, and    *)
(* however the LSM, index and snapshot parts of concurrent calls, crashes  *)
(* and I/O errors interleave.  The last part adds SoloModel, and proves    *)
(* that snapshots and recovery give back the LSM's vectors.                *)
(***************************************************************************)
EXTENDS VectorEngine, SetLemmas, FiniteSetTheorems, TLAPS

-----------------------------------------------------------------------------
(* The LSM part of a call                                                  *)

LsmStates == [memtable : Tables, tables : [Ids -> Tables],
              l1 : SUBSET Ids, next_sst_id : SnapIds]

\* No table has an id that is still to be handed out.
IdsBelow(s) == \A i \in IdsOf(s) : i < s.next_sst_id

\* A state of the LSM that leaves room for n ids.
GoodLsm(s, n) == s \in LsmStates /\ IdsBelow(s) /\ s.next_sst_id + n <= MaxId + 1

\* What get finds for k, tombstones included.
Latest(s, k) == Newest(s, IdsOf(s), k)

\* Compaction may only turn a tombstone into no entry.
SameEntry(a, b) == a = b \/ (a \in {Tombstone, Missing} /\ b \in {Tombstone, Missing})

\* The fields of an LSM state.
LEMMA LsmFields ==
    ASSUME NEW s \in LsmStates
    PROVE  /\ s.memtable \in Tables /\ s.tables \in [Ids -> Tables]
           /\ s.l1 \in SUBSET Ids /\ s.next_sst_id \in Nat /\ s.next_sst_id \in SnapIds
           /\ \A i \in Ids : s.tables[i] \in Tables /\ i \in Nat /\ i <= MaxId
           /\ IdsOf(s) \in SUBSET Ids /\ MaxId \in Nat
BY VectorAssumption DEF LsmStates, SnapIds, IdsOf, Ids

\* NewestIn by its meaning: no table of ids has the key, or the one with the
\* greatest id that has it decides.
LEMMA NewestInIs ==
    ASSUME NEW s \in LsmStates, NEW ids \in SUBSET Ids, NEW k \in Keys
    PROVE  \/ NewestIn(s, ids, k) = Missing /\ \A i \in ids : s.tables[i][k] = Missing
           \/ \E m \in ids : /\ NewestIn(s, ids, k) = s.tables[m][k] /\ s.tables[m][k] # Missing
                             /\ \A i \in ids : s.tables[i][k] # Missing => i <= m
<1> DEFINE hits == {i \in ids : s.tables[i][k] # Missing}
<1>1. CASE hits = {}
  BY <1>1 DEF NewestIn
<1>2. CASE hits # {}
  <2>1. hits \in SUBSET (0 .. MaxId) /\ MaxId \in Nat
    BY VectorAssumption DEF Ids
  <2>2. Max(hits) \in hits /\ \A y \in hits : y <= Max(hits)
    BY <1>2, <2>1, MaxOfNats
  <2>3. NewestIn(s, ids, k) = s.tables[Max(hits)][k]
    BY <1>2 DEF NewestIn
  <2> QED  BY <2>2, <2>3
<1> QED  BY <1>1, <1>2

\* That determines it.
LEMMA NewestInDetermined ==
    ASSUME NEW s \in LsmStates, NEW ids \in SUBSET Ids, NEW k \in Keys, NEW m \in ids,
           s.tables[m][k] # Missing, \A i \in ids : s.tables[i][k] # Missing => i <= m
    PROVE  NewestIn(s, ids, k) = s.tables[m][k]
<1>1. PICK n \in ids : /\ NewestIn(s, ids, k) = s.tables[n][k] /\ s.tables[n][k] # Missing
                       /\ \A i \in ids : s.tables[i][k] # Missing => i <= n
  BY NewestInIs
<1>2. m <= n /\ n <= m /\ m \in Nat /\ n \in Nat
  BY <1>1 DEF Ids
<1>3. m = n
  BY <1>2
<1> QED  BY <1>1, <1>3

\* It is a cell, and depends on no other table than those of ids.
LEMMA NewestInType ==
    ASSUME NEW s \in LsmStates, NEW ids \in SUBSET Ids, NEW k \in Keys
    PROVE  NewestIn(s, ids, k) \in Entries \cup {Missing}
<1>1. \A i \in ids : s.tables[i][k] \in Entries \cup {Missing}
  BY LsmFields DEF Tables
<1> QED  BY <1>1, NewestInIs

LEMMA LatestType ==
    ASSUME NEW s \in LsmStates, NEW ids \in SUBSET Ids, NEW k \in Keys
    PROVE  Newest(s, ids, k) \in Entries \cup {Missing}
<1>1. s.memtable[k] \in Entries \cup {Missing}
  BY LsmFields DEF Tables
<1> QED  BY <1>1, NewestInType DEF Newest

\* A write is the latest entry of its key and of no other.
LEMMA WrittenKeeps ==
    ASSUME NEW n \in Nat, NEW s, GoodLsm(s, n), NEW k \in Keys, NEW e \in Entries
    PROVE  /\ GoodLsm(Written(s, k, e), n)
           /\ Latest(Written(s, k, e), k) = e
           /\ \A j \in Keys : j # k => Latest(Written(s, k, e), j) = Latest(s, j)
<1> DEFINE w == Written(s, k, e)
<1>1. /\ w.memtable = [s.memtable EXCEPT ![k] = e] /\ w.tables = s.tables
      /\ w.l1 = s.l1 /\ w.next_sst_id = s.next_sst_id
  BY DEF Written, GoodLsm, LsmStates
<1>2. w.memtable \in Tables
  BY <1>1, LsmFields DEF GoodLsm, Tables
<1>3. w \in LsmStates
  BY <1>1, <1>2, LsmFields DEF GoodLsm, LsmStates, Written
<1>4. IdsOf(w) = IdsOf(s)
  BY <1>1 DEF IdsOf
<1>5. GoodLsm(w, n)
  BY <1>1, <1>3, <1>4 DEF GoodLsm, IdsBelow
<1>6. \A j \in Keys : NewestIn(w, IdsOf(w), j) = NewestIn(s, IdsOf(s), j)
  BY <1>1, <1>4 DEF NewestIn
<1>7. /\ w.memtable[k] = e /\ \A j \in Keys : j # k => w.memtable[j] = s.memtable[j]
  BY <1>1, LsmFields DEF GoodLsm, Tables
<1>8. e # Missing
  BY VectorAssumption
<1> QED  BY <1>5, <1>6, <1>7, <1>8 DEF Latest, Newest

\* A table with an id above the others takes precedence over them.
LEMMA TableAdded ==
    ASSUME NEW s \in LsmStates, NEW f \in LsmStates, NEW n \in Ids, NEW k \in Keys,
           NEW old \in SUBSET Ids, NEW ids \in SUBSET Ids, ids \subseteq old \cup {n},
           \A i \in old : i < n, \A i \in old : f.tables[i] = s.tables[i],
           \A i \in (old \cup {n}) \ ids : f.tables[i][k] = Missing
    PROVE  NewestIn(f, ids, k) = IF f.tables[n][k] # Missing THEN f.tables[n][k]
                                 ELSE NewestIn(s, old, k)
<1>0. \A i \in Ids : i \in Nat
  BY DEF Ids
<1>1. CASE f.tables[n][k] # Missing
  <2>1. n \in ids /\ \A i \in ids : i <= n
    BY <1>0, <1>1
  <2> QED  BY <1>1, <2>1, NewestInDetermined
<1>2. CASE f.tables[n][k] = Missing
  <2>1. CASE \E m \in old : /\ NewestIn(s, old, k) = s.tables[m][k] /\ s.tables[m][k] # Missing
                            /\ \A i \in old : s.tables[i][k] # Missing => i <= m
    <3>1. PICK m \in old : /\ NewestIn(s, old, k) = s.tables[m][k] /\ s.tables[m][k] # Missing
                           /\ \A i \in old : s.tables[i][k] # Missing => i <= m
      BY <2>1
    <3>2. m \in ids /\ f.tables[m][k] = s.tables[m][k]
      BY <3>1
    <3>3. \A i \in ids : f.tables[i][k] # Missing => i <= m
      BY <1>2, <3>1
    <3>4. NewestIn(f, ids, k) = f.tables[m][k]
      BY <3>1, <3>2, <3>3, NewestInDetermined
    <3> QED  BY <1>2, <3>1, <3>2, <3>4
  <2>2. CASE NewestIn(s, old, k) = Missing /\ \A i \in old : s.tables[i][k] = Missing
    <3>1. \A i \in ids : f.tables[i][k] = Missing
      BY <1>2, <2>2
    <3>2. NewestIn(f, ids, k) = Missing
      BY <3>1, NewestInIs
    <3> QED  BY <1>2, <2>2, <3>2
  <2> QED  BY <2>1, <2>2, NewestInIs
<1> QED  BY <1>1, <1>2

\* A flush moves the memtable to a table above the others: what get finds
\* stays, also if the memtable is not emptied because of an error.
LEMMA FlushKeeps ==
    ASSUME NEW n \in Nat, NEW s, GoodLsm(s, n + 1)
    PROVE  /\ GoodLsm(flush_inner(s), n)
           /\ GoodLsm([flush_inner(s) EXCEPT !.memtable = s.memtable], n)
           /\ \A k \in Keys : /\ Latest(flush_inner(s), k) = Latest(s, k)
                              /\ Latest([flush_inner(s) EXCEPT !.memtable = s.memtable], k) = Latest(s, k)
<1>0. /\ s \in LsmStates /\ IdsBelow(s) /\ s.next_sst_id \in Ids /\ s.next_sst_id + 1 \in SnapIds
      /\ s.next_sst_id + 1 + n <= MaxId + 1 /\ s.next_sst_id + n <= MaxId + 1
      /\ s.next_sst_id + 1 > s.next_sst_id
  BY LsmFields DEF GoodLsm, Ids, SnapIds
<1>1. CASE s.memtable = NoTable
  <2>1. flush_inner(s) = s /\ [flush_inner(s) EXCEPT !.memtable = s.memtable] = s
    BY <1>0, <1>1 DEF flush_inner, LsmStates
  <2> QED  BY <1>0, <2>1 DEF GoodLsm
<1>2. CASE s.memtable # NoTable
  <2> DEFINE f == flush_inner(s)
             g == [f EXCEPT !.memtable = s.memtable]
             id == s.next_sst_id
  <2>1. f = [s EXCEPT !.tables[s.next_sst_id] = s.memtable,
                      !.next_sst_id = s.next_sst_id + 1, !.memtable = NoTable]
    BY <1>2 DEF flush_inner
  <2>2. /\ f.memtable = NoTable /\ f.tables = [s.tables EXCEPT ![id] = s.memtable]
        /\ f.l1 = s.l1 /\ f.next_sst_id = id + 1
        /\ g.memtable = s.memtable /\ g.tables = f.tables
        /\ g.l1 = s.l1 /\ g.next_sst_id = id + 1
    BY <1>0, <2>1 DEF LsmStates
  <2>3. NoTable \in Tables
    BY DEF NoTable, Tables
  <2>4. f.tables \in [Ids -> Tables]
    BY <1>0, <2>2, LsmFields
  <2>5. f \in LsmStates /\ g \in LsmStates
    <3>1. f = [memtable |-> NoTable, tables |-> f.tables, l1 |-> s.l1, next_sst_id |-> id + 1]
      BY <1>0, <2>1, <2>2 DEF LsmStates
    <3>2. g = [memtable |-> s.memtable, tables |-> f.tables, l1 |-> s.l1, next_sst_id |-> id + 1]
      BY <3>1
    <3> HIDE DEF f, g
    <3> QED  BY <1>0, <2>3, <2>4, <3>1, <3>2, LsmFields DEF LsmStates
  <2> HIDE DEF f, g
  <2>6. IdsOf(f) \subseteq IdsOf(s) \cup {id} /\ IdsOf(g) = IdsOf(f)
        /\ IdsOf(f) \in SUBSET Ids /\ IdsOf(s) \in SUBSET Ids
    BY <1>0, <2>2, LsmFields DEF IdsOf
  <2>7. GoodLsm(f, n) /\ GoodLsm(g, n)
    <3>1. \A i \in IdsOf(f) : i < id + 1
      BY <1>0, <2>6, LsmFields DEF IdsBelow
    <3> QED  BY <1>0, <2>2, <2>5, <2>6, <3>1 DEF GoodLsm, IdsBelow
  <2>8. ASSUME NEW k \in Keys PROVE Latest(f, k) = Latest(s, k) /\ Latest(g, k) = Latest(s, k)
    <3>1. /\ \A i \in IdsOf(s) : i < id /\ f.tables[i] = s.tables[i]
          /\ f.tables[id] = s.memtable
      BY <1>0, <2>2, <2>6, LsmFields DEF IdsBelow
    <3>2. \A i \in (IdsOf(s) \cup {id}) \ IdsOf(f) : f.tables[i][k] = Missing
      BY <1>0, <2>6 DEF IdsOf, NoTable
    <3>3. NewestIn(f, IdsOf(f), k) = IF f.tables[id][k] # Missing THEN f.tables[id][k]
                                     ELSE NewestIn(s, IdsOf(s), k)
      <4>1. s \in LsmStates /\ f \in LsmStates /\ id \in Ids
            /\ IdsOf(s) \in SUBSET Ids /\ IdsOf(f) \in SUBSET Ids /\ IdsOf(f) \subseteq IdsOf(s) \cup {id}
        BY <1>0, <2>5, <2>6
      <4>2. (\A i \in IdsOf(s) : i < id) /\ (\A i \in IdsOf(s) : f.tables[i] = s.tables[i])
        BY <3>1
      <4> HIDE DEF id
      <4> QED  BY <3>2, <4>1, <4>2, TableAdded
    <3>4. NewestIn(g, IdsOf(g), k) = NewestIn(f, IdsOf(f), k)
      BY <2>2, <2>6 DEF NewestIn
    <3>5. NoTable[k] = Missing
      BY DEF NoTable
    <3> QED  BY <2>2, <3>1, <3>3, <3>4, <3>5 DEF Latest, Newest
  <2> QED  BY <2>7, <2>8 DEF f, g
<1> QED  BY <1>1, <1>2

\* Compaction merges all tables into one above them, and only drops
\* tombstones.
LEMMA CompactKeeps ==
    ASSUME NEW n \in Nat, NEW s, GoodLsm(s, n + 1)
    PROVE  /\ GoodLsm(compact_l0_l1(s), n)
           /\ \A k \in Keys : SameEntry(Latest(compact_l0_l1(s), k), Latest(s, k))
<1>0. /\ s \in LsmStates /\ IdsBelow(s) /\ s.next_sst_id \in Ids /\ s.next_sst_id + 1 \in SnapIds
      /\ s.next_sst_id + 1 + n <= MaxId + 1 /\ IdsOf(s) \in SUBSET Ids /\ s.next_sst_id \in Nat
  BY LsmFields DEF GoodLsm, Ids, SnapIds
<1> DEFINE id == s.next_sst_id
           cell(k) == NewestIn(s, IdsOf(s), k)
           output == [k \in Keys |-> IF cell(k) = Tombstone THEN Missing ELSE cell(k)]
           c == compact_l0_l1(s)
<1>1. output \in Tables /\ NoTable \in Tables
  <2>1. \A k \in Keys : cell(k) \in Entries \cup {Missing}
    BY <1>0, NewestInType
  <2> QED  BY <2>1 DEF Tables, NoTable
<1>2. c = [s EXCEPT !.tables = [i \in Ids |-> IF i = id THEN output ELSE NoTable],
                    !.l1 = IF output = NoTable THEN {} ELSE {id}, !.next_sst_id = id + 1]
  BY DEF compact_l0_l1
<1> HIDE DEF output, c
<1>3. c = [memtable |-> s.memtable, tables |-> [i \in Ids |-> IF i = id THEN output ELSE NoTable],
           l1 |-> IF output = NoTable THEN {} ELSE {id}, next_sst_id |-> id + 1]
  BY <1>0, <1>2 DEF LsmStates
<1>4. c \in LsmStates
  BY <1>0, <1>1, <1>3, LsmFields DEF LsmStates
<1>5. IdsOf(c) \subseteq {id}
  BY <1>3 DEF IdsOf
<1>6. GoodLsm(c, n)
  BY <1>0, <1>3, <1>4, <1>5 DEF GoodLsm, IdsBelow
<1>7. ASSUME NEW k \in Keys PROVE SameEntry(Latest(c, k), Latest(s, k))
  <2>1. c.tables[id] = output /\ c.memtable = s.memtable
    BY <1>0, <1>3
  <2>2. NewestIn(c, IdsOf(c), k) = output[k]
    <3>1. CASE output[k] # Missing
      <4>1. id \in IdsOf(c)
        BY <1>0, <2>1, <3>1 DEF IdsOf, NoTable
      <4>2. \A i \in IdsOf(c) : i <= id
        BY <1>0, <1>5
      <4>3. IdsOf(c) \in SUBSET Ids
        BY <1>0, <1>5
      <4> QED  BY <1>4, <2>1, <3>1, <4>1, <4>2, <4>3, NewestInDetermined
    <3>2. CASE output[k] = Missing
      <4>1. \A i \in IdsOf(c) : c.tables[i][k] = Missing
        BY <1>5, <2>1, <3>2
      <4>2. IdsOf(c) \in SUBSET Ids
        BY <1>0, <1>5
      <4> QED  BY <1>4, <3>2, <4>1, <4>2, NewestInIs
    <3> QED  BY <3>1, <3>2
  <2>3. output[k] = IF cell(k) = Tombstone THEN Missing ELSE cell(k)
    BY DEF output
  <2> QED  BY <2>1, <2>2, <2>3 DEF Latest, Newest, SameEntry
<1> QED  BY <1>6, <1>7 DEF c

\* A call's flush, when the memtable is full.
LEMMA AutoFlushKeeps ==
    ASSUME NEW n \in Nat, NEW s, GoodLsm(s, n + 1)
    PROVE  /\ GoodLsm(maybe_auto_flush(s), n)
           /\ GoodLsm([maybe_auto_flush(s) EXCEPT !.memtable = s.memtable], n)
           /\ \A k \in Keys : /\ Latest(maybe_auto_flush(s), k) = Latest(s, k)
                              /\ Latest([maybe_auto_flush(s) EXCEPT !.memtable = s.memtable], k) = Latest(s, k)
<1>1. CASE maybe_auto_flush(s) = flush_inner(s)
  BY <1>1, FlushKeeps
<1>2. CASE maybe_auto_flush(s) = s
  <2>1. s \in LsmStates /\ s.next_sst_id \in Nat /\ MaxId \in Nat
    BY LsmFields DEF GoodLsm
  <2>2. [s EXCEPT !.memtable = s.memtable] = s
    BY <2>1 DEF LsmStates
  <2>3. GoodLsm(s, n)
    BY <2>1 DEF GoodLsm
  <2> QED  BY <1>2, <2>2, <2>3
<1> QED  BY <1>1, <1>2 DEF maybe_auto_flush

\* A call's compaction, when level 0 is full.
LEMMA MaybeCompactKeeps ==
    ASSUME NEW n \in Nat, NEW s, GoodLsm(s, n + 1)
    PROVE  /\ GoodLsm(maybe_compact(s), n)
           /\ \A k \in Keys : SameEntry(Latest(maybe_compact(s), k), Latest(s, k))
<1>1. CASE maybe_compact(s) = compact_l0_l1(s)
  BY <1>1, CompactKeeps
<1>2. CASE maybe_compact(s) = s
  <2>1. s \in LsmStates /\ s.next_sst_id \in Nat /\ MaxId \in Nat
    BY LsmFields DEF GoodLsm
  <2>2. GoodLsm(s, n)
    BY <2>1 DEF GoodLsm
  <2> QED  BY <1>2, <2>2 DEF SameEntry
<1> QED  BY <1>1, <1>2 DEF maybe_compact

\* The LSM s becomes x: nothing changes for the keys in K.
LsmKeeps(x, s, K) == GoodLsm(x, 0) /\ \A k \in K : SameEntry(Latest(x, k), Latest(s, k))

\* The LSM part of put, delete and put_indexed: the write is the latest entry
\* of its key, whether or not a flush and a compaction follow.
LEMMA WriteLsmKeeps ==
    ASSUME GoodLsm(lsm, 2), NEW k \in Keys, NEW e \in Entries
    PROVE  LsmKeeps(WriteLsm(k, e), lsm, Keys \ {k}) /\ SameEntry(Latest(WriteLsm(k, e), k), e)
<1> DEFINE w == Written(lsm, k, e)
           f == maybe_auto_flush(w)
           c == maybe_compact(f)
<1>1. GoodLsm(w, 2) /\ Latest(w, k) = e /\ \A j \in Keys : j # k => Latest(w, j) = Latest(lsm, j)
  BY WrittenKeeps
<1> HIDE DEF w
<1>2. GoodLsm(f, 1) /\ \A j \in Keys : Latest(f, j) = Latest(w, j)
  <2>1. GoodLsm(w, 1 + 1)
    BY <1>1
  <2> QED  BY <2>1, AutoFlushKeeps
<1> HIDE DEF f
<1>3. GoodLsm(c, 0) /\ \A j \in Keys : SameEntry(Latest(c, j), Latest(f, j))
  <2>1. GoodLsm(f, 0 + 1)
    BY <1>2
  <2> QED  BY <2>1, MaybeCompactKeeps
<1>4. WriteLsm(k, e) = c
  BY DEF WriteLsm, c, f, w
<1> QED  BY <1>1, <1>2, <1>3, <1>4 DEF LsmKeeps

\* ... and if one of them fails.
LEMMA WriteErrorKeeps ==
    ASSUME GoodLsm(lsm, 2), NEW k \in Keys, NEW e \in Entries,
           NEW x \in AfterError(Written(lsm, k, e), maybe_auto_flush(Written(lsm, k, e)))
    PROVE  LsmKeeps(x, lsm, Keys \ {k})
<1> DEFINE w == Written(lsm, k, e)
           f == maybe_auto_flush(w)
<1>1. GoodLsm(w, 2) /\ \A j \in Keys : j # k => Latest(w, j) = Latest(lsm, j)
  BY WrittenKeeps
<1> HIDE DEF w
<1>2. /\ GoodLsm(f, 1) /\ GoodLsm([f EXCEPT !.memtable = w.memtable], 1)
      /\ \A j \in Keys : /\ Latest(f, j) = Latest(w, j)
                         /\ Latest([f EXCEPT !.memtable = w.memtable], j) = Latest(w, j)
  <2>1. GoodLsm(w, 1 + 1)
    BY <1>1
  <2> QED  BY <2>1, AutoFlushKeeps
<1> HIDE DEF f
<1>3. x \in {w, f, [f EXCEPT !.memtable = w.memtable]}
  BY DEF AfterError, f, w
<1>4. \A y : GoodLsm(y, 1) \/ GoodLsm(y, 2) => GoodLsm(y, 0)
  BY LsmFields DEF GoodLsm
<1> QED  BY <1>1, <1>2, <1>3, <1>4 DEF LsmKeeps, SameEntry

\* The LSM part of flush, and its errors.
LEMMA FlushPartKeeps ==
    ASSUME GoodLsm(lsm, 2), NEW x \in {maybe_compact(flush_inner(lsm))} \cup AfterError(lsm, flush_inner(lsm))
    PROVE  LsmKeeps(x, lsm, Keys)
<1> DEFINE f == flush_inner(lsm)
<1>1. /\ GoodLsm(f, 1) /\ GoodLsm([f EXCEPT !.memtable = lsm.memtable], 1)
      /\ \A j \in Keys : /\ Latest(f, j) = Latest(lsm, j)
                         /\ Latest([f EXCEPT !.memtable = lsm.memtable], j) = Latest(lsm, j)
  <2>1. GoodLsm(lsm, 1 + 1)
    OBVIOUS
  <2> QED  BY <2>1, FlushKeeps
<1> HIDE DEF f
<1>2. GoodLsm(maybe_compact(f), 0) /\ \A j \in Keys : SameEntry(Latest(maybe_compact(f), j), Latest(f, j))
  <2>1. GoodLsm(f, 0 + 1)
    BY <1>1
  <2> QED  BY <2>1, MaybeCompactKeeps
<1>3. x \in {maybe_compact(f), lsm, f, [f EXCEPT !.memtable = lsm.memtable]}
  BY DEF AfterError, f
<1>4. \A y : GoodLsm(y, 1) \/ GoodLsm(y, 2) => GoodLsm(y, 0)
  BY LsmFields DEF GoodLsm
<1> QED  BY <1>1, <1>2, <1>3, <1>4 DEF LsmKeeps, SameEntry

\* Reopening hands out ids above every table found and changes no entry.
LEMMA ReopenKeeps ==
    ASSUME GoodLsm(lsm, 0)
    PROVE  GoodLsm(Reopened(lsm), 0) /\ \A k \in Keys : Latest(Reopened(lsm), k) = Latest(lsm, k)
<1> DEFINE n == IF IdsOf(lsm) = {} THEN 0 ELSE Max(IdsOf(lsm)) + 1
           x == Reopened(lsm)
<1>0. lsm \in LsmStates /\ MaxId \in Nat /\ IdsOf(lsm) \in SUBSET (0 .. MaxId)
  BY LsmFields DEF GoodLsm, Ids
<1>1. n \in SnapIds /\ n <= MaxId + 1 /\ \A i \in IdsOf(lsm) : i < n
  <2>1. CASE IdsOf(lsm) = {}
    BY <1>0, <2>1 DEF SnapIds
  <2>2. CASE IdsOf(lsm) # {}
    <3>1. Max(IdsOf(lsm)) \in IdsOf(lsm) /\ \A i \in IdsOf(lsm) : i <= Max(IdsOf(lsm))
      BY <1>0, <2>2, MaxOfNats
    <3> DEFINE m == Max(IdsOf(lsm))
    <3>2. m \in 0 .. MaxId /\ n = m + 1 /\ \A i \in IdsOf(lsm) : i <= m /\ i \in 0 .. MaxId
      BY <1>0, <2>2, <3>1
    <3> HIDE DEF m, n
    <3> QED  BY <1>0, <3>2 DEF SnapIds
  <2> QED  BY <2>1, <2>2
<1>2. x = [memtable |-> lsm.memtable, tables |-> lsm.tables, l1 |-> lsm.l1, next_sst_id |-> n]
  BY <1>0 DEF Reopened, LsmStates
<1> HIDE DEF n, x
<1>3. x \in LsmStates
  BY <1>0, <1>1, <1>2, LsmFields DEF LsmStates
<1>4. IdsOf(x) = IdsOf(lsm)
  BY <1>2 DEF IdsOf
<1>5. GoodLsm(x, 0)
  BY <1>0, <1>1, <1>2, <1>3, <1>4 DEF GoodLsm, IdsBelow, SnapIds
<1>6. \A k \in Keys : Latest(x, k) = Latest(lsm, k)
  BY <1>2, <1>4 DEF Latest, Newest, NewestIn
<1> QED  BY <1>5, <1>6 DEF x

-----------------------------------------------------------------------------
(* Types                                                                   *)

\* A call in progress: put_indexed writes a vector, delete a tombstone.
Request(c) == \/ c.op = "put_indexed" /\ c.entry \in Vectors
              \/ c.op = "delete" /\ c.entry = Tombstone

\* What a thread knows at each part of its call.
CallInv == \A t \in Threads :
    /\ pc[t] \in {"Lsm", "Index"} => call[t].key \in Uses[t] /\ Request(call[t])
    /\ pc[t] \in {"Encode", "Publish", "Cleanup"} => next_id_after[t] # {}

TInv == TypeOK /\ IdsBelow(lsm) /\ CallInv

\* A step of one thread.
LEMMA ThreadKeeps ==
    ASSUME CallInv, pc \in [Threads -> Labels], NEW t \in Threads, NEW l \in Labels,
           pc' = [pc EXCEPT ![t] = l],
           \A u \in Threads : u # t => call'[u] = call[u] /\ next_id_after'[u] = next_id_after[u],
           l \in {"Lsm", "Index"} => call'[t].key \in Uses[t] /\ Request(call'[t]),
           l \in {"Encode", "Publish", "Cleanup"} => next_id_after'[t] # {}
    PROVE  CallInv' /\ pc' \in [Threads -> Labels]
<1>1. \A u \in Threads : pc'[u] = IF u = t THEN l ELSE pc[u]
  OBVIOUS
<1>2. ASSUME NEW u \in Threads
      PROVE  /\ pc'[u] \in {"Lsm", "Index"} => call'[u].key \in Uses[u] /\ Request(call'[u])
             /\ pc'[u] \in {"Encode", "Publish", "Cleanup"} => next_id_after'[u] # {}
  <2>1. CASE u = t
    BY <1>1, <2>1
  <2>2. CASE u # t
    BY <1>1, <2>2 DEF CallInv
  <2> QED  BY <2>1, <2>2
<1>3. CallInv'
  BY <1>2 DEF CallInv, Request
<1> QED  BY <1>3

\* The entries of requests.
LEMMA RequestTypes ==
    ASSUME TInv, NEW t \in Threads
    PROVE  /\ Uses[t] \in SUBSET Keys /\ NoCall \in CallRecords
           /\ pc[t] \in {"Lsm", "Index"} =>
                 call[t].key \in Keys /\ call[t].entry \in Entries /\ Request(call[t])
           /\ \A k \in Keys, v \in Vectors :
                 [op |-> "put_indexed", key |-> k, entry |-> v] \in CallRecords
           /\ \A k \in Keys : [op |-> "delete", key |-> k, entry |-> Tombstone] \in CallRecords
<1>1. Uses[t] \in SUBSET Keys
  BY VectorAssumption
<1>2. pc[t] \in {"Lsm", "Index"} => call[t].key \in Keys /\ call[t].entry \in Entries /\ Request(call[t])
  BY <1>1 DEF TInv, CallInv, Request, Entries
<1> QED  BY <1>1, <1>2 DEF CallRecords, Entries

\* Room for the LSM part.
LEMMA RoomForTwo == ASSUME TInv PROVE GoodLsm(lsm, 0) /\ (HasRoom => GoodLsm(lsm, 2))
<1>1. lsm \in LsmStates /\ IdsBelow(lsm)
  BY DEF TInv, TypeOK, LsmStates
<1>2. lsm.next_sst_id \in Nat /\ MaxId \in Nat /\ lsm.next_sst_id <= MaxId + 1
  BY <1>1, LsmFields DEF SnapIds
<1> QED  BY <1>1, <1>2 DEF GoodLsm, HasRoom

\* Updates of the index.
LEMMA IndexUpdates ==
    ASSUME NEW x \in Indexes, NEW k \in Keys, NEW v \in Vectors
    PROVE  /\ Removed(x, k) = [vec |-> [x.vec EXCEPT ![k] = Missing], dim |-> x.dim]
           /\ Inserted(Removed(x, k), k, v) = [vec |-> [x.vec EXCEPT ![k] = v], dim |-> Dim[v]]
           /\ [Removed(x, k) EXCEPT !.dim = Dim[v]] = [vec |-> [x.vec EXCEPT ![k] = Missing], dim |-> Dim[v]]
<1>1. x.vec \in [Keys -> Vectors \cup {Missing}] /\ x = [vec |-> x.vec, dim |-> x.dim]
  BY DEF Indexes
<1>2. Removed(x, k) = [vec |-> [x.vec EXCEPT ![k] = Missing], dim |-> x.dim]
  BY <1>1 DEF Removed
<1>3. [[x.vec EXCEPT ![k] = Missing] EXCEPT ![k] = v] = [x.vec EXCEPT ![k] = v]
  BY <1>1
<1>4. Inserted(Removed(x, k), k, v) = [vec |-> [x.vec EXCEPT ![k] = v], dim |-> Dim[v]]
  <2> DEFINE y == Removed(x, k)
  <2>1. y.vec = [x.vec EXCEPT ![k] = Missing] /\ y = [vec |-> y.vec, dim |-> y.dim]
    BY <1>2
  <2> HIDE DEF y
  <2>2. [y EXCEPT !.vec[k] = v] = [vec |-> [y.vec EXCEPT ![k] = v], dim |-> y.dim]
    BY <2>1
  <2>3. Inserted(y, k, v) = [[y EXCEPT !.vec[k] = v] EXCEPT !.dim = Dim[v]]
    BY DEF Inserted
  <2>4. Inserted(y, k, v) = [vec |-> [y.vec EXCEPT ![k] = v], dim |-> Dim[v]]
    BY <2>2, <2>3
  <2> QED  BY <1>3, <2>1, <2>4 DEF y
<1>5. [Removed(x, k) EXCEPT !.dim = Dim[v]] = [vec |-> [x.vec EXCEPT ![k] = Missing], dim |-> Dim[v]]
  BY <1>2
<1> QED  BY <1>2, <1>4, <1>5

LEMMA IndexTypes ==
    ASSUME NEW x \in Indexes, NEW k \in Keys, NEW v \in Vectors
    PROVE  /\ Removed(x, k) \in Indexes /\ Inserted(Removed(x, k), k, v) \in Indexes
           /\ [Removed(x, k) EXCEPT !.dim = Dim[v]] \in Indexes
<1>1. Dim[v] \in Dims /\ x.dim \in Dims \cup {0}
  BY DEF Dims, Indexes
<1>2. /\ [x.vec EXCEPT ![k] = Missing] \in [Keys -> Vectors \cup {Missing}]
      /\ [x.vec EXCEPT ![k] = v] \in [Keys -> Vectors \cup {Missing}]
  BY DEF Indexes
<1>3. \A f \in [Keys -> Vectors \cup {Missing}], d \in Dims \cup {0} : [vec |-> f, dim |-> d] \in Indexes
  BY DEF Indexes
<1>4. /\ Removed(x, k) = [vec |-> [x.vec EXCEPT ![k] = Missing], dim |-> x.dim]
      /\ Inserted(Removed(x, k), k, v) = [vec |-> [x.vec EXCEPT ![k] = v], dim |-> Dim[v]]
      /\ [Removed(x, k) EXCEPT !.dim = Dim[v]] = [vec |-> [x.vec EXCEPT ![k] = Missing], dim |-> Dim[v]]
  BY IndexUpdates
<1>5. /\ [vec |-> [x.vec EXCEPT ![k] = Missing], dim |-> x.dim] \in Indexes
      /\ [vec |-> [x.vec EXCEPT ![k] = v], dim |-> Dim[v]] \in Indexes
      /\ [vec |-> [x.vec EXCEPT ![k] = Missing], dim |-> Dim[v]] \in Indexes
  BY <1>1, <1>2, <1>3
<1> QED  BY <1>4, <1>5
\* The snapshot that recovery uses is one on disk, with the highest id.
LEMMA LatestOnDisk ==
    ASSUME TInv, snaps # {}
    PROVE  LatestSnapshot \in snaps
<1>1. snaps \subseteq [id : SnapIds, index : Indexes] /\ MaxId + 1 \in Nat
  BY VectorAssumption DEF TInv, TypeOK
<1> DEFINE ids == {x.id : x \in snaps}
<1>2. ids \in SUBSET (0 .. MaxId + 1) /\ ids # {}
  BY <1>1 DEF SnapIds
<1>3. Max(ids) \in ids /\ \A y \in ids : y <= Max(ids)
  BY <1>1, <1>2, MaxOfNats
<1>4. \E x \in snaps : \A y \in snaps : y.id <= x.id
  BY <1>3
<1> QED  BY <1>4 DEF LatestSnapshot

\* What recovery builds is an index.
LEMMA RecoveryTypes ==
    ASSUME TInv
    PROVE  /\ full_rebuild(lsm) \in Indexes
           /\ snaps # {} => apply_delta(lsm, LatestSnapshot) \in Indexes
<1>0. lsm \in LsmStates
  BY RoomForTwo DEF GoodLsm
<1>1. \A vs \in SUBSET Vectors, d \in Dims \cup {0} : DimAfter(vs, d) \in Dims \cup {0}
  BY DEF DimAfter, Dims
<1>2. \A f \in [Keys -> Vectors \cup {Missing}], d \in Dims \cup {0} : [vec |-> f, dim |-> d] \in Indexes
  BY DEF Indexes
<1>3. full_rebuild(lsm) \in Indexes
  <2>1. \A k \in Keys : LsmVector(lsm, k) \in Vectors \cup {Missing}
    BY DEF LsmVector
  <2>2. LsmVectors(lsm) \in SUBSET Vectors
    BY <2>1 DEF LsmVectors
  <2> QED  BY <1>1, <1>2, <2>1, <2>2 DEF full_rebuild
<1>4. ASSUME snaps # {} PROVE apply_delta(lsm, LatestSnapshot) \in Indexes
  <2> DEFINE x == LatestSnapshot
  <2>1. x.index.vec \in [Keys -> Vectors \cup {Missing}] /\ x.index.dim \in Dims \cup {0}
    BY <1>4, LatestOnDisk DEF TInv, TypeOK, Indexes
  <2> HIDE DEF x
  <2>2. \A k \in Keys : ApplyEntry(x.index.vec[k], DeltaEntry(lsm, x, k)) \in Vectors \cup {Missing}
    <3> SUFFICES ASSUME NEW k \in Keys, NEW e, NEW old \in Vectors \cup {Missing}
                 PROVE  ApplyEntry(old, e) \in Vectors \cup {Missing}
      BY <2>1
    <3>1. CASE e = Missing \/ e \notin Vectors
      BY <3>1, Zenon DEF ApplyEntry
    <3>2. CASE e # Missing /\ e \in Vectors
      BY <3>2, Zenon DEF ApplyEntry
    <3> QED  BY <3>1, <3>2
  <2>3. DeltaVectors(lsm, x) \in SUBSET Vectors
    BY DEF DeltaVectors
  <2>4. apply_delta(lsm, x) \in Indexes
    BY <1>1, <1>2, <2>1, <2>2, <2>3 DEF apply_delta
  <2> QED  BY <2>4 DEF x
<1> QED  BY <1>3, <1>4

\* The LSM part of a call, and a failed one, keep the types.
LEMMA LsmPartTypes ==
    ASSUME TInv, NEW t \in Threads, NEW s, GoodLsm(s, 0), NEW indexes \in BOOLEAN,
           LsmPart(t, s, indexes), ops' \in Nat, behind' \subseteq Keys,
           call' \in [Threads -> CallRecords], \A u \in Threads : u # t => call'[u] = call[u],
           indexes => call'[t].key \in Uses[t] /\ Request(call'[t])
    PROVE  TInv'
<1>1. lsm' = s /\ s \in LsmStates /\ IdsBelow(s)
  BY DEF LsmPart, GoodLsm
<1>2. s.next_sst_id \in SnapIds
  BY <1>1, LsmFields
<1> DEFINE n == IF s.next_sst_id # lsm.next_sst_id THEN {s.next_sst_id} ELSE {}
           l == IF indexes THEN "Index" ELSE SnapshotLabel(s)
<1>3. /\ next_id_after' = [next_id_after EXCEPT ![t] = n] /\ pc' = [pc EXCEPT ![t] = l]
      /\ l \in Labels /\ (l \in {"Encode", "Publish", "Cleanup"} => n # {}) /\ (l = "Index" => indexes)
      /\ l # "Lsm" /\ n \in {{}} \cup {{i} : i \in SnapIds}
  BY <1>2 DEF LsmPart, Goto, SnapshotLabel, Labels
<1> HIDE DEF n, l
<1>4. /\ next_id_after' \in [Threads -> {{}} \cup {{i} : i \in SnapIds}]
      /\ next_id_after'[t] = n /\ \A u \in Threads : u # t => next_id_after'[u] = next_id_after[u]
  BY <1>3 DEF TInv, TypeOK
<1>5. CallInv' /\ pc' \in [Threads -> Labels]
  <2>1. CallInv /\ pc \in [Threads -> Labels]
    BY DEF TInv, TypeOK
  <2> QED  BY <1>3, <1>4, <2>1, ThreadKeeps
<1>6. lsm' \in LsmStates /\ IdsBelow(lsm)'
  BY <1>1 DEF IdsBelow, IdsOf
<1>7. UNCHANGED <<status, closed, index, snaps, bytes, crashes, fails>>
  BY DEF LsmPart
<1>8. TypeOK'
  BY <1>4, <1>5, <1>6, <1>7 DEF TInv, TypeOK, LsmStates
<1> QED  BY <1>5, <1>6, <1>8 DEF TInv

LEMMA LsmErrorTypes ==
    ASSUME TInv, NEW t \in Threads, NEW s, NEW f, LsmError(t, s, f), GoodLsm(lsm', 0),
           ops' \in Nat, behind' \subseteq Keys
    PROVE  TInv'
<1>1. /\ call' = [call EXCEPT ![t] = NoCall] /\ pc' = [pc EXCEPT ![t] = "Idle"]
      /\ UNCHANGED <<status, closed, index, snaps, next_id_after, bytes, crashes>> /\ fails' \in Nat
  BY DEF LsmError, Ends, Goto, Fails, TInv, TypeOK
<1>2. /\ call' \in [Threads -> CallRecords] /\ \A u \in Threads : u # t => call'[u] = call[u]
  BY <1>1, RequestTypes DEF TInv, TypeOK
<1>3. CallInv' /\ pc' \in [Threads -> Labels]
  <2>1. CallInv /\ pc \in [Threads -> Labels] /\ "Idle" \in Labels
    BY DEF TInv, TypeOK, Labels
  <2> QED  BY <1>1, <1>2, <2>1, ThreadKeeps
<1>4. lsm' \in LsmStates /\ IdsBelow(lsm)'
  BY DEF GoodLsm, IdsBelow, IdsOf
<1>5. TypeOK'
  BY <1>1, <1>2, <1>3, <1>4 DEF TInv, TypeOK, LsmStates
<1> QED  BY <1>3, <1>4, <1>5 DEF TInv

\* A step that leaves the LSM alone keeps the order of ids.
LEMMA IdsBelowKept == ASSUME IdsBelow(lsm), UNCHANGED lsm PROVE IdsBelow(lsm)'
BY DEF IdsBelow, IdsOf

\* Every step keeps the types.
LEMMA NextTInv == TInv /\ [Next]_vars => TInv'
<1> SUFFICES ASSUME TInv, [Next]_vars PROVE TInv'
  OBVIOUS
<1>0. /\ TypeOK /\ IdsBelow(lsm) /\ CallInv /\ pc \in [Threads -> Labels]
      /\ GoodLsm(lsm, 0) /\ (HasRoom => GoodLsm(lsm, 2))
      /\ Plain \in Entries /\ Tombstone \in Entries /\ behind \subseteq Keys /\ ops \in Nat
  BY RoomForTwo DEF TInv, TypeOK, Entries
<1>1. ASSUME NEW t \in Threads, put(t) PROVE TInv'
  <2>1. PICK k \in Uses[t] :
           /\ Start(t, "put")
           /\ \/ LsmPart(t, WriteLsm(k, Plain), FALSE) /\ behind' = behind \ {k} /\ UNCHANGED call
              \/ WriteError(t, k, Plain)
    BY <1>1 DEF put
  <2>2. k \in Keys /\ ops' \in Nat /\ HasRoom
    BY <1>0, <2>1, RequestTypes DEF Start
  <2>3. CASE LsmPart(t, WriteLsm(k, Plain), FALSE) /\ behind' = behind \ {k} /\ UNCHANGED call
    <3>1. GoodLsm(WriteLsm(k, Plain), 0)
      BY <1>0, <2>2, WriteLsmKeeps DEF LsmKeeps
    <3>2. behind' \subseteq Keys /\ call' \in [Threads -> CallRecords]
          /\ \A u \in Threads : u # t => call'[u] = call[u]
      BY <1>0, <2>3 DEF TypeOK
    <3> QED  BY <2>2, <2>3, <3>1, <3>2, LsmPartTypes
  <2>4. CASE WriteError(t, k, Plain)
    <3> DEFINE s == Written(lsm, k, Plain)
               f == maybe_auto_flush(Written(lsm, k, Plain))
    <3>1. LsmError(t, s, f) /\ behind' \subseteq Keys /\ lsm' \in AfterError(s, f)
      BY <1>0, <2>2, <2>4 DEF WriteError, LsmError
    <3>2. GoodLsm(lsm', 0)
      BY <1>0, <2>2, <3>1, WriteErrorKeeps DEF LsmKeeps
    <3> QED  BY <2>2, <3>1, <3>2, LsmErrorTypes
  <2> QED  BY <2>1, <2>3, <2>4
<1>2. ASSUME NEW t \in Threads, delete(t) PROVE TInv'
  <2>1. PICK k \in Uses[t] :
           /\ Start(t, "delete")
           /\ \/ /\ LsmPart(t, WriteLsm(k, Tombstone), TRUE)
                 /\ Requests(t, "delete", k, Tombstone) /\ UNCHANGED behind
              \/ WriteError(t, k, Tombstone)
    BY <1>2 DEF delete
  <2>2. k \in Keys /\ ops' \in Nat /\ HasRoom
    BY <1>0, <2>1, RequestTypes DEF Start
  <2>3. CASE /\ LsmPart(t, WriteLsm(k, Tombstone), TRUE)
             /\ Requests(t, "delete", k, Tombstone) /\ UNCHANGED behind
    <3>1. GoodLsm(WriteLsm(k, Tombstone), 0)
      BY <1>0, <2>2, WriteLsmKeeps DEF LsmKeeps
    <3> DEFINE c == [op |-> "delete", key |-> k, entry |-> Tombstone]
    <3>2. c \in CallRecords /\ Request(c) /\ c.key \in Uses[t] /\ call' = [call EXCEPT ![t] = c]
      BY <2>2, <2>3, RequestTypes DEF Request, Requests
    <3> HIDE DEF c
    <3>3. /\ call' \in [Threads -> CallRecords] /\ call'[t] = c
          /\ \A u \in Threads : u # t => call'[u] = call[u]
      BY <1>0, <3>2 DEF TypeOK
    <3>4. behind' \subseteq Keys
      BY <1>0, <2>3
    <3> QED  BY <2>2, <2>3, <3>1, <3>2, <3>3, <3>4, LsmPartTypes
  <2>4. CASE WriteError(t, k, Tombstone)
    <3> DEFINE s == Written(lsm, k, Tombstone)
               f == maybe_auto_flush(Written(lsm, k, Tombstone))
    <3>1. LsmError(t, s, f) /\ behind' \subseteq Keys /\ lsm' \in AfterError(s, f)
      BY <1>0, <2>2, <2>4 DEF WriteError, LsmError
    <3>2. GoodLsm(lsm', 0)
      BY <1>0, <2>2, <3>1, WriteErrorKeeps DEF LsmKeeps
    <3> QED  BY <2>2, <3>1, <3>2, LsmErrorTypes
  <2> QED  BY <2>1, <2>3, <2>4
<1>3. ASSUME NEW t \in Threads, flush(t) PROVE TInv'
  <2>1. ops' \in Nat /\ HasRoom /\ behind' \subseteq Keys
    BY <1>0, <1>3 DEF flush, Start
  <2>2. CASE LsmPart(t, maybe_compact(flush_inner(lsm)), FALSE) /\ UNCHANGED call
    <3>1. GoodLsm(maybe_compact(flush_inner(lsm)), 0)
      BY <1>0, <2>1, FlushPartKeeps DEF LsmKeeps
    <3>2. call' \in [Threads -> CallRecords] /\ \A u \in Threads : u # t => call'[u] = call[u]
      BY <1>0, <2>2 DEF TypeOK
    <3> QED  BY <2>1, <2>2, <3>1, <3>2, LsmPartTypes
  <2>3. CASE LsmError(t, lsm, flush_inner(lsm))
    <3>1. GoodLsm(lsm', 0)
      BY <1>0, <2>1, <2>3, FlushPartKeeps DEF LsmKeeps, LsmError
    <3> QED  BY <2>1, <2>3, <3>1, LsmErrorTypes
  <2> QED  BY <1>3, <2>2, <2>3 DEF flush
<1>4. ASSUME NEW t \in Threads, close(t) PROVE TInv'
  <2>1. /\ UNCHANGED <<status, lsm, index, snaps, pc, call, next_id_after, bytes, behind, crashes, fails>>
        /\ closed' = TRUE /\ ops' \in Nat
    BY <1>0, <1>4 DEF close, Start, threadVars
  <2>2. TypeOK' /\ CallInv'
    BY <1>0, <2>1 DEF TypeOK, CallInv
  <2> QED  BY <1>0, <2>1, <2>2, IdsBelowKept DEF TInv
<1>5. ASSUME NEW t \in Threads, put_indexed(t) PROVE TInv'
  <2>1. PICK k \in Uses[t], v \in Vectors :
           /\ Start(t, "put_indexed") /\ Requests(t, "put_indexed", k, v) /\ Goto(t, "Lsm")
           /\ UNCHANGED <<status, lsm, closed, index, snaps, next_id_after, bytes, behind, crashes, fails>>
    BY <1>5 DEF put_indexed
  <2> DEFINE c == [op |-> "put_indexed", key |-> k, entry |-> v]
  <2>2. c \in CallRecords /\ Request(c) /\ c.key \in Uses[t] /\ call' = [call EXCEPT ![t] = c]
    BY <2>1, RequestTypes DEF Request, Requests
  <2> HIDE DEF c
  <2>3. /\ call' \in [Threads -> CallRecords] /\ call'[t] = c
        /\ \A u \in Threads : u # t => call'[u] = call[u]
    BY <1>0, <2>2 DEF TypeOK
  <2>4. CallInv' /\ pc' \in [Threads -> Labels]
    BY <1>0, <2>1, <2>2, <2>3, ThreadKeeps DEF Goto, Labels
  <2>5. TypeOK'
    BY <1>0, <2>1, <2>3, <2>4 DEF TypeOK, Start
  <2> QED  BY <1>0, <2>1, <2>4, <2>5, IdsBelowKept DEF TInv
<1>6. ASSUME NEW t \in Threads, PutIndexedLsm(t) PROVE TInv'
  <2>0. /\ call[t].key \in Keys /\ call[t].entry \in Entries /\ Request(call[t]) /\ call[t].key \in Uses[t]
        /\ UNCHANGED ops
    BY <1>0, <1>6, RequestTypes DEF PutIndexedLsm, CallInv
  <2>1. CASE /\ HasRoom /\ LsmPart(t, WriteLsm(call[t].key, call[t].entry), TRUE)
             /\ UNCHANGED <<call, behind>>
    <3>1. GoodLsm(WriteLsm(call[t].key, call[t].entry), 0)
      BY <1>0, <2>0, <2>1, WriteLsmKeeps DEF LsmKeeps
    <3>2. /\ call' \in [Threads -> CallRecords] /\ call' = call /\ behind' \subseteq Keys /\ ops' \in Nat
      BY <1>0, <2>0, <2>1 DEF TypeOK
    <3> QED  BY <2>0, <2>1, <3>1, <3>2, LsmPartTypes
  <2>2. CASE HasRoom /\ WriteError(t, call[t].key, call[t].entry)
    <3> DEFINE s == Written(lsm, call[t].key, call[t].entry)
               f == maybe_auto_flush(Written(lsm, call[t].key, call[t].entry))
    <3>1. LsmError(t, s, f) /\ behind' \subseteq Keys /\ lsm' \in AfterError(s, f)
      BY <1>0, <2>0, <2>2 DEF WriteError, LsmError
    <3>2. GoodLsm(lsm', 0)
      BY <1>0, <2>0, <2>2, <3>1, WriteErrorKeeps DEF LsmKeeps
    <3>3. ops' \in Nat
      BY <1>0, <2>0
    <3> QED  BY <3>1, <3>2, <3>3, LsmErrorTypes
  <2>3. CASE /\ Goto(t, "Idle") /\ Ends(t)
             /\ UNCHANGED <<status, lsm, closed, index, snaps, next_id_after, bytes, behind, crashes, fails>>
    <3>1. /\ call' \in [Threads -> CallRecords] /\ \A u \in Threads : u # t => call'[u] = call[u]
      BY <1>0, <2>3, RequestTypes DEF TypeOK, Ends
    <3>2. CallInv' /\ pc' \in [Threads -> Labels]
      BY <1>0, <2>3, <3>1, ThreadKeeps DEF Goto, Labels
    <3>3. TypeOK'
      BY <1>0, <2>0, <2>3, <3>1, <3>2 DEF TypeOK
    <3> QED  BY <1>0, <2>3, <3>2, <3>3, IdsBelowKept DEF TInv
  <2> QED  BY <1>6, <2>1, <2>2, <2>3 DEF PutIndexedLsm
<1>7. ASSUME NEW t \in Threads, IndexPart(t) PROVE TInv'
  <2>0. /\ call[t].key \in Keys /\ Request(call[t]) /\ pc[t] = "Index" /\ index \in Indexes
        /\ Ends(t) /\ UNCHANGED <<status, lsm, closed, snaps, bytes, ops, crashes, fails>>
    BY <1>0, <1>7, RequestTypes DEF IndexPart, TypeOK
  <2>1. index' \in Indexes
    <3>1. CASE call[t].op = "delete"
      <4>1. index' = Removed(index, call[t].key)
        BY <1>7, <3>1 DEF IndexPart
      <4>2. Removed(index, call[t].key) \in Indexes
        BY <2>0 DEF Removed, Indexes
      <4> QED  BY <4>1, <4>2
    <3>2. CASE call[t].op = "put_indexed"
      <4>1. call[t].entry \in Vectors
        BY <2>0, <3>2 DEF Request
      <4>2. index' \in {Inserted(Removed(index, call[t].key), call[t].key, call[t].entry),
                        [Removed(index, call[t].key) EXCEPT !.dim = Dim[call[t].entry]], index}
        BY <1>7, <3>2 DEF IndexPart
      <4>3. /\ Inserted(Removed(index, call[t].key), call[t].key, call[t].entry) \in Indexes
            /\ [Removed(index, call[t].key) EXCEPT !.dim = Dim[call[t].entry]] \in Indexes
        <5> DEFINE k == call[t].key
                   v == call[t].entry
        <5>1. index \in Indexes /\ k \in Keys /\ v \in Vectors
          BY <2>0, <4>1
        <5> HIDE DEF k, v
        <5>2. Inserted(Removed(index, k), k, v) \in Indexes /\ [Removed(index, k) EXCEPT !.dim = Dim[v]] \in Indexes
          BY <5>1, IndexTypes
        <5> QED  BY <5>2 DEF k, v
      <4> QED  BY <2>0, <4>2, <4>3
    <3> QED  BY <2>0, <3>1, <3>2 DEF Request
  <2>2. PICK l \in {"Idle", "Encode"} :
           /\ pc' = [pc EXCEPT ![t] = l]
           /\ l = "Encode" => next_id_after' = next_id_after /\ next_id_after[t] # {}
           /\ l = "Idle" => \/ next_id_after' = next_id_after
                            \/ next_id_after' = [next_id_after EXCEPT ![t] = {}]
           /\ behind' \subseteq Keys
    BY <1>0, <1>7, <2>0 DEF IndexPart, AfterIndex, FailsIndex, Goto
  <2>3. /\ next_id_after' \in [Threads -> {{}} \cup {{i} : i \in SnapIds}]
        /\ \A u \in Threads : u # t => next_id_after'[u] = next_id_after[u]
        /\ l = "Encode" => next_id_after'[t] # {}
    BY <1>0, <2>2 DEF TypeOK
  <2>4. /\ call' \in [Threads -> CallRecords] /\ \A u \in Threads : u # t => call'[u] = call[u]
    BY <1>0, <2>0, RequestTypes DEF TypeOK, Ends
  <2>5. CallInv' /\ pc' \in [Threads -> Labels]
    BY <1>0, <2>2, <2>3, <2>4, ThreadKeeps DEF Labels
  <2>6. TypeOK'
    BY <1>0, <2>0, <2>1, <2>2, <2>3, <2>4, <2>5 DEF TypeOK
  <2> QED  BY <1>0, <2>0, <2>5, <2>6, IdsBelowKept DEF TInv
<1>8. ASSUME NEW t \in Threads, Encode(t) PROVE TInv'
  <2>1. /\ pc[t] = "Encode" /\ bytes' = [bytes EXCEPT ![t] = index] /\ pc' = [pc EXCEPT ![t] = "Publish"]
        /\ UNCHANGED <<status, lsm, closed, index, snaps, call, next_id_after, behind, ops, crashes, fails>>
    BY <1>8 DEF Encode, Goto
  <2>2. CallInv' /\ pc' \in [Threads -> Labels]
    <3>1. next_id_after'[t] # {} /\ "Publish" \in Labels
      BY <1>0, <2>1 DEF CallInv, Labels
    <3> QED  BY <1>0, <2>1, <3>1, ThreadKeeps
  <2>3. TypeOK'
    BY <1>0, <2>1, <2>2 DEF TypeOK
  <2> QED  BY <1>0, <2>1, <2>2, <2>3, IdsBelowKept DEF TInv
<1>9. ASSUME NEW t \in Threads, Publish(t) \/ Cleanup(t) PROVE TInv'
  <2>0. /\ pc[t] \in {"Publish", "Cleanup"} /\ next_id_after[t] # {}
        /\ UNCHANGED <<status, lsm, closed, index, call, behind, ops, crashes>>
    BY <1>0, <1>9 DEF Publish, Cleanup, CallInv
  <2>1. PICK i \in SnapIds : next_id_after[t] = {i}
    BY <1>0, <2>0 DEF TypeOK
  <2>2. /\ snaps' \subseteq [id : SnapIds, index : Indexes] /\ fails' \in Nat
    <3>1. (CHOOSE j \in next_id_after[t] : TRUE) = i
      BY <2>1
    <3>2. [id |-> i, index |-> bytes[t]] \in [id : SnapIds, index : Indexes]
      BY <1>0 DEF TypeOK
    <3>3. snaps \subseteq [id : SnapIds, index : Indexes] /\ fails \in Nat
      BY <1>0 DEF TypeOK
    <3>4. fails' \in Nat
      BY <1>9, <3>3 DEF Publish, Cleanup, Fails
    <3>5. CASE Publish(t)
      <4> DEFINE published == {x \in snaps : x.id # i} \cup {[id |-> i, index |-> bytes[t]]}
      <4>1. snaps' \in {snaps, published}
        BY <3>1, <3>5 DEF Publish
      <4>2. published \subseteq [id : SnapIds, index : Indexes]
        BY <3>2, <3>3
      <4> QED  BY <3>3, <3>4, <4>1, <4>2
    <3>6. CASE Cleanup(t)
      <4>1. snaps' \subseteq snaps
        BY <3>6 DEF Cleanup
      <4> QED  BY <3>3, <3>4, <4>1
    <3> QED  BY <1>9, <3>5, <3>6
  <2>3. \/ /\ pc[t] = "Publish" /\ pc' = [pc EXCEPT ![t] = "Cleanup"]
           /\ UNCHANGED <<next_id_after, bytes>>
        \/ SnapshotEnds(t)
    BY <1>9 DEF Publish, Cleanup, Goto
  <2>4. CASE pc' = [pc EXCEPT ![t] = "Cleanup"] /\ UNCHANGED <<next_id_after, bytes>>
    <3>1. CallInv' /\ pc' \in [Threads -> Labels]
      <4>1. next_id_after'[t] # {} /\ "Cleanup" \in Labels
        BY <2>0, <2>4 DEF Labels
      <4> QED  BY <1>0, <2>0, <2>4, <4>1, ThreadKeeps
    <3>2. TypeOK'
      BY <1>0, <2>0, <2>2, <2>4, <3>1 DEF TypeOK
    <3> QED  BY <1>0, <2>0, <3>1, <3>2, IdsBelowKept DEF TInv
  <2>5. CASE SnapshotEnds(t)
    <3>0. /\ next_id_after' = [next_id_after EXCEPT ![t] = {}] /\ bytes' = [bytes EXCEPT ![t] = EmptyIndex]
          /\ pc' = [pc EXCEPT ![t] = "Idle"] /\ EmptyIndex \in Indexes
      BY <2>5 DEF SnapshotEnds, Goto, EmptyIndex, NoTable, Indexes
    <3>1. /\ next_id_after' \in [Threads -> {{}} \cup {{j} : j \in SnapIds}]
          /\ bytes' \in [Threads -> Indexes]
          /\ \A u \in Threads : u # t => next_id_after'[u] = next_id_after[u]
      BY <1>0, <3>0 DEF TypeOK
    <3>2. CallInv' /\ pc' \in [Threads -> Labels]
      <4>1. "Idle" \in Labels
        BY DEF Labels
      <4> QED  BY <1>0, <2>0, <3>0, <3>1, <4>1, ThreadKeeps
    <3>3. TypeOK'
      BY <1>0, <2>0, <2>2, <3>1, <3>2 DEF TypeOK
    <3> QED  BY <1>0, <2>0, <3>2, <3>3, IdsBelowKept DEF TInv
  <2> QED  BY <2>3, <2>4, <2>5
<1>10. CASE Crash
  <2>1. EmptyIndex \in Indexes /\ "Idle" \in Labels /\ NoCall \in CallRecords
    BY DEF EmptyIndex, NoTable, Indexes, Labels, CallRecords
  <2>2. TypeOK' /\ CallInv' /\ UNCHANGED lsm
    BY <1>0, <1>10, <2>1 DEF Crash, NoThreads, TypeOK, CallInv
  <2> QED  BY <1>0, <2>2, IdsBelowKept DEF TInv
<1>11. CASE Open
  <2>1. lsm' = Reopened(lsm) /\ GoodLsm(Reopened(lsm), 0)
    BY <1>0, <1>11, ReopenKeeps DEF Open
  <2>2. lsm' \in LsmStates /\ IdsBelow(lsm)'
    BY <2>1 DEF GoodLsm, IdsBelow, IdsOf
  <2>3. index' \in Indexes
    BY <1>0, <1>11, RecoveryTypes DEF Open, UsableSnapshot, TypeOK
  <2>4. snaps' \subseteq snaps
    BY <1>11, LatestOnDisk DEF Open
  <2>5. CallInv'
    BY <1>0, <1>11 DEF Open, threadVars, CallInv
  <2>6. TypeOK'
    BY <1>0, <1>11, <2>2, <2>3, <2>4 DEF Open, threadVars, TypeOK, LsmStates
  <2> QED  BY <2>2, <2>5, <2>6 DEF TInv
<1>12. CASE UNCHANGED vars
  <2>1. TypeOK' /\ CallInv' /\ UNCHANGED lsm
    BY <1>0, <1>12 DEF vars, threadVars, TypeOK, CallInv
  <2> QED  BY <1>0, <2>1, IdsBelowKept DEF TInv
<1> QED
  BY <1>1, <1>2, <1>3, <1>4, <1>5, <1>6, <1>7, <1>8, <1>9, <1>10, <1>11, <1>12 DEF Next, ThreadStep

LEMMA InitTInv == Init => TInv
<1> SUFFICES ASSUME Init PROVE TInv
  OBVIOUS
<1>1. NoTable \in Tables /\ EmptyIndex \in Indexes /\ NoCall \in CallRecords /\ "Idle" \in Labels
      /\ 0 \in SnapIds
  BY VectorAssumption DEF NoTable, Tables, EmptyIndex, Indexes, CallRecords, Labels, SnapIds
<1>2. TypeOK
  BY <1>1 DEF Init, TypeOK
<1>3. IdsOf(lsm) = {}
  BY DEF Init, IdsOf
<1>4. CallInv
  BY DEF Init, CallInv
<1> QED  BY <1>2, <1>3, <1>4 DEF TInv, IdsBelow

\* Every variable keeps its type: the index and the snapshots only ever hold
\* vectors, whichever entries put, delete, put_indexed, a snapshot and its
\* delta or a rebuild from the LSM bring to them.
THEOREM VectorTypeCorrect == Spec => []TypeOK
<1>1. TInv /\ [Next]_vars => TInv'
  BY NextTInv
<1>2. TInv => TypeOK
  BY DEF TInv
<1> QED  BY <1>1, <1>2, InitTInv, PTL DEF Spec

-----------------------------------------------------------------------------
(* One dimension                                                           *)

\* Every vector of an index, in memory, encoded or on disk, has the index's
\* dimension.  An index of dimension 0 therefore holds none.
Uniform(x) == \A k \in Keys : x.vec[k] # Missing => Dim[x.vec[k]] = x.dim
UniformInv == /\ Uniform(index) /\ \A x \in snaps : Uniform(x.index)
              /\ \A t \in Threads : Uniform(bytes[t])
UInv == TInv /\ UniformInv

\* The index part of a call: the check made before the insertion admits only
\* vectors of the dimension that is established, or the first one.
LEMMA UniformUpdates ==
    ASSUME NEW x \in Indexes, Uniform(x), NEW k \in Keys
    PROVE  /\ Uniform(Removed(x, k)) /\ Uniform(EmptyIndex)
           /\ \A v \in Vectors : x.dim \in {0, Dim[v]} =>
                 /\ Uniform(Inserted(Removed(x, k), k, v))
                 /\ Uniform([Removed(x, k) EXCEPT !.dim = Dim[v]])
<1>0. /\ x.vec \in [Keys -> Vectors \cup {Missing}] /\ x = [vec |-> x.vec, dim |-> x.dim]
      /\ \A v \in Vectors : Dim[v] # 0
  BY VectorAssumption DEF Indexes
<1>1. Uniform(Removed(x, k))
  <2>1. Removed(x, k) = [vec |-> [x.vec EXCEPT ![k] = Missing], dim |-> x.dim]
    BY <1>0 DEF Removed
  <2> QED  BY <1>0, <2>1 DEF Uniform
<1>2. Uniform(EmptyIndex)
  BY DEF Uniform, EmptyIndex, NoTable
<1>3. ASSUME NEW v \in Vectors, x.dim \in {0, Dim[v]}
      PROVE  Uniform(Inserted(Removed(x, k), k, v)) /\ Uniform([Removed(x, k) EXCEPT !.dim = Dim[v]])
  <2> DEFINE i == Inserted(Removed(x, k), k, v)
             d == [Removed(x, k) EXCEPT !.dim = Dim[v]]
  <2>1. /\ i.vec = [x.vec EXCEPT ![k] = v] /\ i.dim = Dim[v]
        /\ d.vec = [x.vec EXCEPT ![k] = Missing] /\ d.dim = Dim[v]
    <3>1. /\ i = [vec |-> [x.vec EXCEPT ![k] = v], dim |-> Dim[v]]
          /\ d = [vec |-> [x.vec EXCEPT ![k] = Missing], dim |-> Dim[v]]
      BY IndexUpdates
    <3> HIDE DEF i, d
    <3> QED  BY <3>1
  <2>2. \A j \in Keys : x.vec[j] # Missing => Dim[x.vec[j]] = Dim[v]
    BY <1>0, <1>3 DEF Uniform
  <2> HIDE DEF i, d
  <2>3. Uniform(i) /\ Uniform(d)
    BY <1>0, <2>1, <2>2 DEF Uniform
  <2> QED  BY <2>3 DEF i, d
<1> QED  BY <1>1, <1>2, <1>3

\* Recovery: vectors vs inserted over an index.
LEMMA UniformRecovery ==
    ASSUME NEW x \in Indexes, Uniform(x), NEW vs \in SUBSET Vectors, Insertable(vs, x.dim),
           NEW f \in [Keys -> Vectors \cup {Missing}],
           \A k \in Keys : f[k] \in vs \/ f[k] = x.vec[k] \/ f[k] = Missing
    PROVE  Uniform([vec |-> f, dim |-> DimAfter(vs, x.dim)])
<1>0. \A v \in Vectors : Dim[v] # 0
  BY VectorAssumption
<1>1. CASE vs = {}
  BY <1>1 DEF Uniform, DimAfter
<1>2. CASE vs # {}
  <2>1. PICK w \in vs : DimAfter(vs, x.dim) = Dim[w]
    BY <1>2 DEF DimAfter
  <2>2. /\ \A v \in vs : Dim[v] = Dim[w]
        /\ x.dim \in {0, Dim[w]}
    BY <2>1 DEF Insertable
  <2>3. \A k \in Keys : x.vec[k] # Missing => Dim[x.vec[k]] = Dim[w]
    <3>1. \A k \in Keys : x.vec[k] # Missing => x.vec[k] \in Vectors
      BY DEF Indexes
    <3> QED  BY <1>0, <2>2, <3>1 DEF Uniform
  <2> QED  BY <2>1, <2>2, <2>3 DEF Uniform
<1> QED  BY <1>1, <1>2

LEMMA ApplyEntryCases ==
    ASSUME NEW old, NEW e
    PROVE  /\ e = Missing => ApplyEntry(old, e) = old
           /\ e \in Vectors => ApplyEntry(old, e) = e
           /\ e \notin Vectors /\ e # Missing => ApplyEntry(old, e) = Missing
<1>1. Missing \notin Vectors
  BY VectorAssumption DEF Entries
<1>2. CASE e = Missing
  BY <1>1, <1>2, Zenon DEF ApplyEntry
<1>3. CASE e # Missing /\ e \in Vectors
  BY <1>3, Zenon DEF ApplyEntry
<1>4. CASE e # Missing /\ e \notin Vectors
  BY <1>4, Zenon DEF ApplyEntry
<1> QED  BY <1>1, <1>2, <1>3, <1>4

LEMMA OpenUniform ==
    ASSUME UInv, Open
    PROVE  Uniform(index')
<1>0. index \in Indexes /\ Uniform(index) /\ EmptyIndex \in Indexes /\ Uniform(EmptyIndex)
  BY DEF UInv, TInv, TypeOK, UniformInv, EmptyIndex, NoTable, Indexes, Uniform
<1>1. CASE UsableSnapshot(lsm) /\ index' = apply_delta(lsm, LatestSnapshot)
  <2> DEFINE x == LatestSnapshot
             vs == DeltaVectors(lsm, x)
             f == [k \in Keys |-> ApplyEntry(x.index.vec[k], DeltaEntry(lsm, x, k))]
  <2>1. x.index \in Indexes /\ Uniform(x.index) /\ vs \in SUBSET Vectors /\ Insertable(vs, x.index.dim)
    BY <1>1, LatestOnDisk DEF UInv, TInv, TypeOK, UniformInv, UsableSnapshot, DeltaVectors
  <2>2. index' = [vec |-> f, dim |-> DimAfter(vs, x.index.dim)]
    BY <1>1 DEF apply_delta
  <2>3. \A k \in Keys : f[k] \in vs \/ f[k] = x.index.vec[k] \/ f[k] = Missing
    <3> SUFFICES ASSUME NEW k \in Keys PROVE f[k] \in vs \/ f[k] = x.index.vec[k] \/ f[k] = Missing
      OBVIOUS
    <3> DEFINE e == DeltaEntry(lsm, x, k)
    <3>1. e \in Vectors => e \in vs
      BY DEF DeltaVectors
    <3>2. f[k] = ApplyEntry(x.index.vec[k], e)
      OBVIOUS
    <3> HIDE DEF e, x, vs, f
    <3> QED  BY <3>1, <3>2, ApplyEntryCases
  <2>4. f \in [Keys -> Vectors \cup {Missing}]
    BY <2>1, <2>3 DEF Indexes
  <2> HIDE DEF f, vs, x
  <2>5. Uniform([vec |-> f, dim |-> DimAfter(vs, x.index.dim)])
    BY <2>1, <2>3, <2>4, UniformRecovery
  <2> QED  BY <2>2, <2>5
<1>2. CASE Insertable(LsmVectors(lsm), 0) /\ index' = full_rebuild(lsm)
  <2> DEFINE vs == LsmVectors(lsm)
             f == [k \in Keys |-> LsmVector(lsm, k)]
  <2>1. \A k \in Keys : LsmVector(lsm, k) \in Vectors \cup {Missing}
    BY DEF LsmVector
  <2>2. vs \in SUBSET Vectors /\ f \in [Keys -> Vectors \cup {Missing}] /\ EmptyIndex.dim = 0
    BY <2>1 DEF LsmVectors, EmptyIndex
  <2>3. \A k \in Keys : f[k] \in vs \/ f[k] = EmptyIndex.vec[k] \/ f[k] = Missing
    BY <2>1 DEF LsmVectors
  <2>4. index' = [vec |-> f, dim |-> DimAfter(vs, EmptyIndex.dim)] /\ Insertable(vs, EmptyIndex.dim)
    BY <1>2, <2>2 DEF full_rebuild
  <2> HIDE DEF f, vs
  <2>5. Uniform([vec |-> f, dim |-> DimAfter(vs, EmptyIndex.dim)])
    BY <1>0, <2>2, <2>3, <2>4, UniformRecovery
  <2> QED  BY <2>4, <2>5
<1>3. CASE index' = index
  BY <1>0, <1>3
<1> QED  BY <1>1, <1>2, <1>3 DEF Open

LEMMA NextUInv == UInv /\ [Next]_vars => UInv'
<1> SUFFICES ASSUME UInv, [Next]_vars PROVE UniformInv'
  BY NextTInv DEF UInv
<1>0. /\ TInv /\ Uniform(index) /\ (\A x \in snaps : Uniform(x.index)) /\ index \in Indexes
      /\ (\A t \in Threads : Uniform(bytes[t])) /\ bytes \in [Threads -> Indexes] /\ Uniform(EmptyIndex)
  BY DEF UInv, UniformInv, TInv, TypeOK, Uniform, EmptyIndex, NoTable
<1>a. SUFFICES /\ Uniform(index') /\ \A x \in snaps' : Uniform(x.index)
               /\ \A t \in Threads : Uniform(bytes'[t])
  BY DEF UniformInv, Uniform
<1>1. CASE UNCHANGED <<index, snaps, bytes>>
  BY <1>0, <1>1
<1>2. ASSUME NEW t \in Threads, IndexPart(t)
      PROVE  Uniform(index') /\ UNCHANGED <<snaps, bytes>>
  <2>1. call[t].key \in Keys /\ Request(call[t])
    BY <1>0, <1>2, RequestTypes DEF IndexPart
  <2> DEFINE k == call[t].key
             v == call[t].entry
  <2>2. \/ index' = Removed(index, k)
        \/ /\ call[t].op = "put_indexed" /\ PassesDimCheck(v)
           /\ index' \in {Inserted(Removed(index, k), k, v), [Removed(index, k) EXCEPT !.dim = Dim[v]]}
        \/ index' = index
    BY <1>2 DEF IndexPart
  <2>3. call[t].op = "put_indexed" => v \in Vectors
    BY <2>1 DEF Request
  <2>4. k \in Keys
    BY <2>1
  <2> HIDE DEF k, v
  <2>5. Uniform(index')
    <3>1. CASE index' = Removed(index, k)
      BY <1>0, <2>4, <3>1, UniformUpdates
    <3>2. CASE /\ v \in Vectors /\ index.dim \in {0, Dim[v]}
               /\ index' \in {Inserted(Removed(index, k), k, v), [Removed(index, k) EXCEPT !.dim = Dim[v]]}
      <4>1. Uniform(Inserted(Removed(index, k), k, v)) /\ Uniform([Removed(index, k) EXCEPT !.dim = Dim[v]])
        BY <1>0, <2>4, <3>2, UniformUpdates
      <4> QED  BY <3>2, <4>1
    <3> QED  BY <1>0, <2>2, <2>3, <3>1, <3>2 DEF PassesDimCheck
  <2> QED  BY <1>2, <2>5 DEF IndexPart
<1>3. ASSUME NEW t \in Threads, Encode(t) \/ Publish(t) \/ Cleanup(t)
      PROVE  /\ UNCHANGED index /\ \A x \in snaps' : Uniform(x.index)
             /\ \A u \in Threads : Uniform(bytes'[u])
  <2>1. \A u \in Threads : bytes'[u] \in {bytes[u], index, EmptyIndex}
    BY <1>0, <1>3 DEF Encode, Publish, Cleanup, SnapshotEnds
  <2>2. \A x \in snaps' : x \in snaps \/ x.index = bytes[t]
    BY <1>3 DEF Encode, Publish, Cleanup
  <2>3. UNCHANGED index
    BY <1>3 DEF Encode, Publish, Cleanup
  <2> QED  BY <1>0, <2>1, <2>2, <2>3
<1>4. CASE Crash
  BY <1>0, <1>4 DEF Crash, NoThreads
<1>5. CASE Open
  <2>1. Uniform(index') /\ UNCHANGED bytes
    BY <1>5, OpenUniform DEF Open, threadVars
  <2>2. snaps' \subseteq snaps
    BY <1>0, <1>5, LatestOnDisk DEF Open
  <2> QED  BY <1>0, <2>1, <2>2
<1>6. ASSUME NEW t \in Threads, put(t) \/ delete(t) \/ put_indexed(t) \/ flush(t) \/ close(t) \/ PutIndexedLsm(t)
      PROVE  UNCHANGED <<index, snaps, bytes>>
  BY <1>6 DEF put, delete, put_indexed, flush, close, PutIndexedLsm, LsmPart, WriteError, LsmError, threadVars
<1>7. CASE UNCHANGED vars
  BY <1>1, <1>7 DEF vars, threadVars
<1> QED  BY <1>0, <1>1, <1>2, <1>3, <1>4, <1>5, <1>6, <1>7 DEF Next, ThreadStep

\* The graph never mixes dimensions: whichever put_indexed wins the race to
\* establish the dimension between its early check and its insertion, and
\* whatever a snapshot with its delta or a rebuild brings back after a crash.
THEOREM DimensionsAgree == Spec => []IndexUniform
<1>1. Init => UInv
  BY InitTInv DEF Init, UInv, UniformInv, Uniform, EmptyIndex, NoTable
<1>2. UInv /\ [Next]_vars => UInv'
  BY NextUInv
<1>3. UInv => IndexUniform
  BY DEF UInv, UniformInv, Uniform, IndexUniform
<1> QED  BY <1>1, <1>2, <1>3, PTL DEF Spec

-----------------------------------------------------------------------------
(* The index follows the LSM                                               *)

\* What the index must hold for a key whose latest entry is e.
Follows(v, e) == /\ e \in {Tombstone, Missing} => v = Missing
                 /\ e \in Vectors => v = e

\* A key k, with p and c the label and the call of its only thread, b the
\* keys left behind by errors, x the index and s the LSM.  Between the LSM
\* part and the index part of a call on k the index is out of date and the
\* call carries the latest entry; at any other time the index has it.
Writes(k, p, c) == p = "Index" /\ c.key = k
Tracks(k, p, c, b, x, s) ==
    /\ Writes(k, p, c) => SameEntry(Latest(s, k), c.entry)
    /\ ~Writes(k, p, c) /\ k \notin b => Follows(x.vec[k], Latest(s, k))

CurrentInv == Up /\ crashes = 0 =>
    \A k \in Keys, t \in Threads : Owners(k) = {t} => Tracks(k, pc[t], call[t], behind, index, lsm)

\* Before the first open the engine is empty, and no thread runs while it is
\* down.
DownInv == status = "Down" =>
    /\ \A t \in Threads : pc[t] = "Idle"
    /\ crashes = 0 => snaps = {} /\ \A k \in Keys : Latest(lsm, k) = Missing

KInv == TInv /\ DownInv /\ CurrentInv

LEMMA SameFollows ==
    ASSUME NEW a, NEW b, NEW v, SameEntry(a, b), Follows(v, b)
    PROVE  Follows(v, a)
BY VectorAssumption DEF SameEntry, Follows, Entries

\* A step that is about another key.
LEMMA TracksKept ==
    ASSUME NEW k, NEW p, NEW c, NEW b, NEW x, NEW s, NEW q, NEW d, NEW e, NEW y, NEW r,
           Tracks(k, p, c, b, x, s),
           SameEntry(Latest(r, k), Latest(s, k)), y.vec[k] = x.vec[k], k \in b => k \in e,
           Writes(k, q, d) <=> Writes(k, p, c), Writes(k, q, d) => d.entry = c.entry
    PROVE  Tracks(k, q, d, e, y, r)
<1>1. CASE Writes(k, q, d)
  <2>1. SameEntry(Latest(s, k), d.entry)
    BY <1>1 DEF Tracks
  <2>2. SameEntry(Latest(r, k), d.entry)
    BY <2>1 DEF SameEntry
  <2> QED  BY <1>1, <2>2 DEF Tracks
<1>2. CASE ~Writes(k, q, d)
  <2>1. k \notin e => Follows(x.vec[k], Latest(s, k))
    BY <1>2 DEF Tracks
  <2>2. k \notin e => Follows(y.vec[k], Latest(r, k))
    BY <2>1, SameFollows
  <2> QED  BY <1>2, <2>2 DEF Tracks
<1> QED  BY <1>1, <1>2

\* A step of thread u about key j, in which the index is left alone: Lsm
\* part and errors.
LEMMA LsmTracks ==
    ASSUME KInv, Up, crashes = 0, NEW u \in Threads, NEW j \in Uses[u], NEW l \in Labels,
           pc[u] # "Index", pc' = [pc EXCEPT ![u] = l], index' = index,
           \A t \in Threads : t # u => call'[t] = call[t], l = "Index" => call'[u].key = j,
           \A k \in Keys : k # j => (k \in behind => k \in behind'),
           \A k \in Keys \ {j} : SameEntry(Latest(lsm', k), Latest(lsm, k)),
           Tracks(j, l, call'[u], behind', index, lsm'),
           NEW k \in Keys, NEW t \in Threads, Owners(k) = {t}
    PROVE  Tracks(k, pc'[t], call'[t], behind', index', lsm')
<1>0. Tracks(k, pc[t], call[t], behind, index, lsm) /\ pc \in [Threads -> Labels]
  BY DEF KInv, CurrentInv, TInv, TypeOK
<1>1. CASE k = j
  <2>1. t = u
    BY <1>1 DEF Owners
  <2> QED  BY <1>0, <1>1, <2>1
<1>2. CASE k # j
  <2>1. Writes(k, pc'[t], call'[t]) <=> Writes(k, pc[t], call[t])
    BY <1>0, <1>2 DEF Writes
  <2>2. Writes(k, pc'[t], call'[t]) => call'[t].entry = call[t].entry
    BY <1>0, <1>2 DEF Writes
  <2>3. SameEntry(Latest(lsm', k), Latest(lsm, k)) /\ (k \in behind => k \in behind')
    BY <1>2
  <2> QED  BY <1>0, <2>1, <2>2, <2>3, TracksKept
<1> QED  BY <1>1, <1>2

\* A step that changes neither the index nor, in the sense of SameEntry, the
\* LSM, and neither begins nor ends the window of a call.
LEMMA QuietTracks ==
    ASSUME KInv, Up, crashes = 0, NEW u \in Threads, NEW l \in Labels \ {"Index"},
           pc[u] # "Index", pc' = [pc EXCEPT ![u] = l], index' = index, behind' = behind,
           \A t \in Threads : t # u => call'[t] = call[t],
           \A k \in Keys : SameEntry(Latest(lsm', k), Latest(lsm, k)),
           NEW k \in Keys, NEW t \in Threads, Owners(k) = {t}
    PROVE  Tracks(k, pc'[t], call'[t], behind', index', lsm')
<1>0. Tracks(k, pc[t], call[t], behind, index, lsm) /\ pc \in [Threads -> Labels]
  BY DEF KInv, CurrentInv, TInv, TypeOK
<1>1. Writes(k, pc'[t], call'[t]) <=> Writes(k, pc[t], call[t])
  BY <1>0 DEF Writes
<1>2. Writes(k, pc'[t], call'[t]) => call'[t].entry = call[t].entry
  BY <1>0 DEF Writes
<1> QED  BY <1>0, <1>1, <1>2, TracksKept

\* The index part of a call closes its window, by following the LSM or by
\* returning an error.
LEMMA IndexTracks ==
    ASSUME KInv, Up, crashes = 0, NEW u \in Threads, IndexPart(u),
           NEW k \in Keys, NEW t \in Threads, Owners(k) = {t}
    PROVE  Tracks(k, pc'[t], call'[t], behind', index', lsm')
<1> DEFINE j == call[u].key
           v == call[u].entry
<1>0. /\ Tracks(k, pc[t], call[t], behind, index, lsm) /\ pc \in [Threads -> Labels]
      /\ index \in Indexes /\ index.vec \in [Keys -> Vectors \cup {Missing}]
  BY DEF KInv, CurrentInv, TInv, TypeOK, Indexes
<1>1. /\ j \in Keys /\ j \in Uses[u] /\ Request(call[u]) /\ pc[u] = "Index"
      /\ call' = [call EXCEPT ![u] = NoCall] /\ call \in [Threads -> CallRecords] /\ lsm' = lsm
  BY RequestTypes DEF KInv, TInv, TypeOK, CallInv, IndexPart, Ends
<1>2. PICK l \in {"Idle", "Encode"} : pc' = [pc EXCEPT ![u] = l]
  BY DEF IndexPart, AfterIndex, FailsIndex, Goto
<1>3. pc'[u] = l /\ \A w \in Threads : w # u => pc'[w] = pc[w] /\ call'[w] = call[w]
  BY <1>0, <1>1, <1>2
<1>4. \/ /\ call[u].op = "delete" /\ index' = Removed(index, j) /\ behind' = behind \ {j}
      \/ /\ call[u].op = "put_indexed" /\ index' = Inserted(Removed(index, j), j, v) /\ behind' = behind \ {j}
      \/ /\ call[u].op = "put_indexed" /\ index' = [Removed(index, j) EXCEPT !.dim = Dim[v]]
         /\ behind' = behind \cup {j}
      \/ index' = index /\ behind' = behind \cup {j}
  BY DEF IndexPart, AfterIndex, FailsIndex
<1>5. call[u].op = "put_indexed" => v \in Vectors
  BY <1>1 DEF Request
<1>6. call[u].op = "delete" => v = Tombstone
  BY <1>1 DEF Request
<1>7. /\ call[u].op = "delete" => index'.vec = [index.vec EXCEPT ![j] = Missing]
      /\ call[u].op = "put_indexed" =>
            \/ index'.vec = [index.vec EXCEPT ![j] = v] /\ behind' = behind \ {j}
            \/ index'.vec = [index.vec EXCEPT ![j] = Missing] /\ behind' = behind \cup {j}
            \/ index' = index /\ behind' = behind \cup {j}
  <2>1. CASE call[u].op = "delete"
    <3>1. index' = Removed(index, j)
      BY <2>1 DEF IndexPart
    <3>2. Removed(index, j) = [vec |-> [index.vec EXCEPT ![j] = Missing], dim |-> index.dim]
      <4>1. index = [vec |-> index.vec, dim |-> index.dim]
        BY <1>0 DEF Indexes
      <4> QED  BY <4>1 DEF Removed
    <3> QED  BY <2>1, <3>1, <3>2
  <2>2. CASE call[u].op = "put_indexed"
    <3>0. index \in Indexes /\ j \in Keys /\ v \in Vectors
      BY <1>0, <1>1, <1>5, <2>2
    <3> HIDE DEF j, v
    <3>1. /\ Inserted(Removed(index, j), j, v) = [vec |-> [index.vec EXCEPT ![j] = v], dim |-> Dim[v]]
          /\ [Removed(index, j) EXCEPT !.dim = Dim[v]] = [vec |-> [index.vec EXCEPT ![j] = Missing], dim |-> Dim[v]]
      BY <3>0, IndexUpdates
    <3>2. CASE index' = Inserted(Removed(index, j), j, v) /\ behind' = behind \ {j}
      BY <2>2, <3>1, <3>2
    <3>3. CASE index' = [Removed(index, j) EXCEPT !.dim = Dim[v]] /\ behind' = behind \cup {j}
      BY <2>2, <3>1, <3>3
    <3>4. CASE index' = index /\ behind' = behind \cup {j}
      BY <2>2, <3>4
    <3> QED  BY <1>4, <2>2, <3>2, <3>3, <3>4
  <2> QED  BY <2>1, <2>2
<1>8. CASE k = j
  <2>1. t = u
    BY <1>1, <1>8 DEF Owners
  <2>2. ~Writes(k, pc'[t], call'[t])
    BY <1>3, <2>1 DEF Writes
  <2>3. SameEntry(Latest(lsm, k), v)
    BY <1>0, <1>1, <1>8, <2>1 DEF Tracks, Writes
  <2>4. k \notin behind' => Follows(index'.vec[k], Latest(lsm', k))
    <3>1. CASE call[u].op = "delete"
      <4>1. index'.vec[k] = Missing /\ v = Tombstone
        BY <1>0, <1>6, <1>7, <1>8, <3>1
      <4> QED  BY <1>1, <2>3, <4>1, VectorAssumption DEF SameEntry, Follows, Entries
    <3>2. CASE call[u].op = "put_indexed" /\ k \notin behind'
      <4>1. index'.vec[k] = v /\ v \in Vectors
        BY <1>0, <1>5, <1>7, <1>8, <3>2
      <4>2. Latest(lsm, k) = v
        BY <2>3, <4>1, VectorAssumption DEF SameEntry, Entries
      <4> QED  BY <1>1, <4>1, <4>2, VectorAssumption DEF Follows, Entries
    <3> QED  BY <1>1, <3>1, <3>2 DEF Request
  <2> QED  BY <2>2, <2>4 DEF Tracks
<1>9. CASE k # j
  <2>1. index'.vec[k] = index.vec[k]
    BY <1>0, <1>1, <1>7, <1>9 DEF Request
  <2>2. k \in behind => k \in behind'
    BY <1>4, <1>9
  <2>3. Writes(k, pc'[t], call'[t]) <=> Writes(k, pc[t], call[t])
    BY <1>1, <1>3, <1>9 DEF Writes
  <2>4. Writes(k, pc'[t], call'[t]) => call'[t].entry = call[t].entry
    BY <1>3 DEF Writes
  <2>5. SameEntry(Latest(lsm', k), Latest(lsm, k))
    BY <1>1 DEF SameEntry
  <2> QED  BY <1>0, <2>1, <2>2, <2>3, <2>4, <2>5, TracksKept
<1> QED  BY <1>8, <1>9

\* The first open finds nothing, so the index it builds is empty.
LEMMA OpenTracks ==
    ASSUME KInv, Open, status' = "Up", crashes = 0, NEW k \in Keys, NEW t \in Threads
    PROVE  Tracks(k, pc'[t], call'[t], behind', index', lsm')
<1>1. snaps = {} /\ (\A j \in Keys : Latest(lsm, j) = Missing) /\ pc[t] = "Idle"
  BY DEF Open, KInv, DownInv
<1>2. index' = full_rebuild(lsm)
  BY <1>1 DEF Open, UsableSnapshot
<1>3. index'.vec[k] = Missing
  BY <1>1, <1>2, VectorAssumption DEF full_rebuild, LsmVector, Latest
<1>4. Latest(lsm', k) = Missing
  BY <1>1, RoomForTwo, ReopenKeeps DEF Open, KInv
<1>5. pc'[t] = "Idle"
  BY <1>1 DEF Open, threadVars
<1> QED  BY <1>3, <1>4, <1>5, VectorAssumption DEF Tracks, Writes, Follows, Entries

LEMMA NextKInv == KInv /\ [Next]_vars => KInv'
<1> SUFFICES ASSUME KInv, [Next]_vars PROVE DownInv' /\ CurrentInv'
  BY NextTInv DEF KInv
<1>0. /\ TInv /\ TypeOK /\ CallInv /\ pc \in [Threads -> Labels] /\ call \in [Threads -> CallRecords]
      /\ crashes \in Nat /\ GoodLsm(lsm, 0) /\ (HasRoom => GoodLsm(lsm, 2))
      /\ Plain \in Entries /\ Tombstone \in Entries
      /\ \A t \in Threads : Uses[t] \in SUBSET Keys
  BY RoomForTwo, RequestTypes DEF KInv, TInv, TypeOK, Entries
<1>a. SUFFICES /\ status' = "Down" =>
                     /\ \A t \in Threads : pc'[t] = "Idle"
                     /\ crashes' = 0 => snaps' = {} /\ \A k \in Keys : Latest(lsm', k) = Missing
               /\ status' = "Up" /\ crashes' = 0 =>
                     \A k \in Keys, t \in Threads : Owners(k) = {t} =>
                        Tracks(k, pc'[t], call'[t], behind', index', lsm')
  <2>1. DownInv'
    BY DEF DownInv, Latest, Newest, NewestIn, IdsOf
  <2>2. CurrentInv'
    BY DEF CurrentInv, Up, Owners, Tracks, Writes, Follows, SameEntry, Latest, Newest, NewestIn, IdsOf
  <2> QED  BY <2>1, <2>2
<1> DEFINE Kept == \A k \in Keys, t \in Threads : Owners(k) = {t} =>
                      Tracks(k, pc'[t], call'[t], behind', index', lsm')
<1> HIDE DEF Kept
<1>1. ASSUME NEW u \in Threads, put(u), crashes = 0 PROVE Kept
  <2>1. PICK j \in Uses[u] :
           /\ Start(u, "put")
           /\ \/ LsmPart(u, WriteLsm(j, Plain), FALSE) /\ behind' = behind \ {j} /\ UNCHANGED call
              \/ WriteError(u, j, Plain)
    BY <1>1 DEF put
  <2>2. /\ j \in Keys /\ GoodLsm(lsm, 2) /\ Up /\ pc[u] = "Idle" /\ index' = index
    BY <1>0, <2>1 DEF Start, LsmPart, WriteError, LsmError
  <2>3. CASE LsmPart(u, WriteLsm(j, Plain), FALSE) /\ behind' = behind \ {j} /\ UNCHANGED call
    <3> DEFINE l == SnapshotLabel(WriteLsm(j, Plain))
    <3>1. pc' = [pc EXCEPT ![u] = l] /\ l \in Labels /\ l # "Index" /\ lsm' = WriteLsm(j, Plain)
      BY <2>3 DEF LsmPart, Goto, SnapshotLabel, Labels
    <3>2. /\ \A k \in Keys \ {j} : SameEntry(Latest(lsm', k), Latest(lsm, k))
          /\ SameEntry(Latest(lsm', j), Plain)
      BY <1>0, <2>2, <3>1, WriteLsmKeeps DEF LsmKeeps
    <3> HIDE DEF l
    <3>3. Tracks(j, l, call'[u], behind', index, lsm')
      BY <3>1, <3>2, VectorAssumption DEF Tracks, Writes, SameEntry, Follows, Entries
    <3> QED  BY <1>1, <2>2, <2>3, <3>1, <3>2, <3>3, LsmTracks DEF Kept
  <2>4. CASE WriteError(u, j, Plain)
    <3>1. /\ pc' = [pc EXCEPT ![u] = "Idle"] /\ "Idle" \in Labels /\ behind' = behind \cup {j}
          /\ \A t \in Threads : t # u => call'[t] = call[t]
      BY <1>0, <2>4 DEF WriteError, LsmError, Goto, Ends, Labels
    <3>2. \A k \in Keys \ {j} : SameEntry(Latest(lsm', k), Latest(lsm, k))
      BY <1>0, <2>2, <2>4, WriteErrorKeeps DEF LsmKeeps, WriteError, LsmError
    <3>3. Tracks(j, "Idle", call'[u], behind', index, lsm')
      BY <3>1 DEF Tracks, Writes
    <3> QED  BY <1>1, <2>2, <3>1, <3>2, <3>3, LsmTracks DEF Kept
  <2> QED  BY <2>1, <2>3, <2>4
<1>2. ASSUME NEW u \in Threads, NEW j \in Uses[u], NEW e \in Entries, NEW c \in CallRecords,
             Up, pc[u] # "Index", HasRoom, crashes = 0, c.key = j, c.entry = e,
             \/ /\ LsmPart(u, WriteLsm(j, e), TRUE) /\ behind' = behind
                /\ call' = [call EXCEPT ![u] = c]
             \/ WriteError(u, j, e)
      PROVE  Kept
  <2>2. /\ j \in Keys /\ GoodLsm(lsm, 2) /\ index' = index
    BY <1>0, <1>2 DEF LsmPart, WriteError, LsmError
  <2>3. CASE LsmPart(u, WriteLsm(j, e), TRUE) /\ behind' = behind /\ call' = [call EXCEPT ![u] = c]
    <3>1. /\ pc' = [pc EXCEPT ![u] = "Index"] /\ "Index" \in Labels /\ lsm' = WriteLsm(j, e)
          /\ call'[u] = c /\ \A t \in Threads : t # u => call'[t] = call[t]
      BY <1>0, <2>3 DEF LsmPart, Goto, Labels
    <3>2. /\ \A k \in Keys \ {j} : SameEntry(Latest(lsm', k), Latest(lsm, k))
          /\ SameEntry(Latest(lsm', j), e)
      BY <1>0, <2>2, <3>1, WriteLsmKeeps DEF LsmKeeps
    <3>3. Tracks(j, "Index", call'[u], behind', index, lsm')
      BY <1>2, <3>1, <3>2 DEF Tracks, Writes
    <3> QED  BY <1>2, <2>2, <2>3, <3>1, <3>2, <3>3, LsmTracks DEF Kept
  <2>4. CASE WriteError(u, j, e)
    <3>1. /\ pc' = [pc EXCEPT ![u] = "Idle"] /\ "Idle" \in Labels /\ behind' = behind \cup {j}
          /\ \A t \in Threads : t # u => call'[t] = call[t]
      BY <1>0, <2>4 DEF WriteError, LsmError, Goto, Ends, Labels
    <3>2. \A k \in Keys \ {j} : SameEntry(Latest(lsm', k), Latest(lsm, k))
      BY <1>0, <2>2, <2>4, WriteErrorKeeps DEF LsmKeeps, WriteError, LsmError
    <3>3. Tracks(j, "Idle", call'[u], behind', index, lsm')
      BY <3>1 DEF Tracks, Writes
    <3> QED  BY <1>2, <2>2, <3>1, <3>2, <3>3, LsmTracks DEF Kept
  <2> QED  BY <1>2, <2>3, <2>4
<1>3. ASSUME NEW u \in Threads, delete(u), crashes = 0 PROVE Kept
  <2>1. PICK j \in Uses[u] :
           /\ Start(u, "delete")
           /\ \/ /\ LsmPart(u, WriteLsm(j, Tombstone), TRUE)
                 /\ Requests(u, "delete", j, Tombstone) /\ UNCHANGED behind
              \/ WriteError(u, j, Tombstone)
    BY <1>3 DEF delete
  <2> DEFINE c == [op |-> "delete", key |-> j, entry |-> Tombstone]
  <2>2. c \in CallRecords /\ c.key = j /\ c.entry = Tombstone
        /\ Up /\ pc[u] # "Index" /\ HasRoom
    BY <1>0, <2>1, RequestTypes DEF Start
  <2>3. \/ /\ LsmPart(u, WriteLsm(j, Tombstone), TRUE) /\ behind' = behind
           /\ call' = [call EXCEPT ![u] = c]
        \/ WriteError(u, j, Tombstone)
    BY <2>1 DEF Requests
  <2> HIDE DEF c
  <2> QED  BY <1>0, <1>2, <1>3, <2>2, <2>3
<1>4. ASSUME NEW u \in Threads, PutIndexedLsm(u), crashes = 0 PROVE Kept
  <2>1. /\ call[u].key \in Uses[u] /\ call[u].entry \in Entries /\ call[u] \in CallRecords
        /\ Up /\ pc[u] = "Lsm" /\ call = [call EXCEPT ![u] = call[u]]
    BY <1>0, <1>4, RequestTypes DEF PutIndexedLsm, CallInv
  <2>2. CASE /\ HasRoom
             /\ \/ /\ LsmPart(u, WriteLsm(call[u].key, call[u].entry), TRUE) /\ behind' = behind
                   /\ call' = [call EXCEPT ![u] = call[u]]
                \/ WriteError(u, call[u].key, call[u].entry)
    BY <1>2, <1>4, <2>1, <2>2
  <2>3. CASE /\ pc' = [pc EXCEPT ![u] = "Idle"] /\ call' = [call EXCEPT ![u] = NoCall]
             /\ UNCHANGED <<index, behind, lsm>>
    <3>1. /\ "Idle" \in Labels \ {"Index"} /\ \A t \in Threads : t # u => call'[t] = call[t]
      BY <1>0, <2>3 DEF Labels
    <3>2. \A k \in Keys : SameEntry(Latest(lsm', k), Latest(lsm, k))
      BY <2>3 DEF SameEntry
    <3> QED  BY <1>4, <2>1, <2>3, <3>1, <3>2, QuietTracks DEF Kept
  <2> QED  BY <1>4, <2>1, <2>2, <2>3 DEF PutIndexedLsm, Goto, Ends
<1>5. ASSUME NEW u \in Threads, flush(u), crashes = 0 PROVE Kept
  <2>1. /\ Up /\ pc[u] # "Index" /\ GoodLsm(lsm, 2) /\ index' = index /\ behind' = behind
        /\ lsm' \in {maybe_compact(flush_inner(lsm))} \cup AfterError(lsm, flush_inner(lsm))
    BY <1>0, <1>5 DEF flush, Start, LsmPart, LsmError
  <2>2. PICK l \in Labels \ {"Index"} : pc' = [pc EXCEPT ![u] = l]
    BY <1>5 DEF flush, LsmPart, LsmError, Goto, SnapshotLabel, Labels
  <2>3. \A t \in Threads : t # u => call'[t] = call[t]
    BY <1>0, <1>5 DEF flush, LsmError, Ends
  <2>4. \A k \in Keys : SameEntry(Latest(lsm', k), Latest(lsm, k))
    BY <2>1, FlushPartKeeps DEF LsmKeeps
  <2> QED  BY <1>5, <2>1, <2>2, <2>3, <2>4, QuietTracks DEF Kept
<1>6. ASSUME NEW u \in Threads, put_indexed(u) \/ Encode(u) \/ Publish(u) \/ Cleanup(u), crashes = 0
      PROVE  Kept
  <2>1. /\ Up /\ pc[u] # "Index" /\ UNCHANGED <<index, behind, lsm>>
    BY <1>6 DEF put_indexed, Start, Encode, Publish, Cleanup
  <2>2. PICK l \in Labels \ {"Index"} : pc' = [pc EXCEPT ![u] = l]
    BY <1>6 DEF put_indexed, Encode, Publish, Cleanup, SnapshotEnds, Goto, Labels
  <2>3. \A t \in Threads : t # u => call'[t] = call[t]
    BY <1>0, <1>6 DEF put_indexed, Requests, Encode, Publish, Cleanup
  <2>4. \A k \in Keys : SameEntry(Latest(lsm', k), Latest(lsm, k))
    BY <2>1 DEF SameEntry
  <2> QED  BY <1>6, <2>1, <2>2, <2>3, <2>4, QuietTracks DEF Kept
<1>7. ASSUME NEW u \in Threads, close(u), crashes = 0 PROVE Kept
  BY <1>7 DEF close, Start, threadVars, Kept, KInv, CurrentInv
<1>8. ASSUME NEW u \in Threads, IndexPart(u), crashes = 0 PROVE Kept
  <2>1. Up
    BY <1>8 DEF IndexPart
  <2> QED  BY <1>8, <2>1, IndexTracks DEF Kept
<1>9. ASSUME NEW u \in Threads, \/ put(u) \/ delete(u) \/ put_indexed(u) \/ flush(u) \/ close(u)
                                \/ ThreadStep(u)
      PROVE  status' = "Up" /\ crashes' = crashes /\ (crashes = 0 => Kept)
  <2>1. status' = "Up" /\ crashes' = crashes
    BY <1>9 DEF put, delete, put_indexed, flush, close, ThreadStep, Start, Up, LsmPart, WriteError, LsmError,
                PutIndexedLsm, IndexPart, Encode, Publish, Cleanup
  <2> QED  BY <1>1, <1>3, <1>4, <1>5, <1>6, <1>7, <1>8, <1>9, <2>1 DEF ThreadStep
<1>10. CASE Crash
  BY <1>0, <1>10 DEF Crash, NoThreads
<1>11. CASE Open
  <2>1. status' # "Down" /\ crashes' = crashes
    BY <1>11 DEF Open
  <2> QED  BY <1>11, <2>1, OpenTracks
<1>12. CASE UNCHANGED vars
  <2>1. UNCHANGED <<status, lsm, index, snaps, pc, call, behind, crashes>>
    BY <1>12 DEF vars, threadVars
  <2> QED  BY <2>1 DEF KInv, DownInv, CurrentInv, Up
<1> QED  BY <1>9, <1>10, <1>11, <1>12 DEF Next, Kept

LEMMA InitKInv == Init => KInv
<1> SUFFICES ASSUME Init PROVE KInv
  OBVIOUS
<1>1. IdsOf(lsm) = {} /\ \A k \in Keys : lsm.memtable[k] = Missing
  BY DEF Init, IdsOf, NoTable
<1>2. \A k \in Keys : Latest(lsm, k) = Missing
  BY <1>1 DEF Latest, Newest, NewestIn
<1>3. DownInv
  BY <1>2 DEF Init, DownInv
<1>4. CurrentInv
  BY DEF Init, CurrentInv, Up
<1> QED  BY <1>3, <1>4, InitTInv DEF KInv

\* Without a crash the index follows the LSM: when the threads are idle, a key
\* that only one thread works on is indexed with the vector written last, or
\* not at all if it was deleted last, whatever the other threads did between
\* the LSM part, the index part and the snapshot of its calls, and unless the
\* last call on it returned an error.
THEOREM IndexFollowsLsm == Spec => []IndexCurrent
<1>1. KInv /\ [Next]_vars => KInv'
  BY NextKInv
<1>2. KInv => IndexCurrent
  <2> SUFFICES ASSUME KInv, Quiet, crashes = 0, NEW k \in Keys \ behind, Cardinality(Owners(k)) = 1
               PROVE  Follows(index.vec[k], Latest(lsm, k))
    BY DEF IndexCurrent, Follows, Latest
  <2>1. IsFiniteSet(Owners(k))
    BY VectorAssumption, FS_Subset DEF Owners
  <2>2. PICK t : Owners(k) = {t}
    BY <2>1, FS_Singleton
  <2>3. t \in Threads
    BY <2>2 DEF Owners
  <2>4. Tracks(k, pc[t], call[t], behind, index, lsm) /\ pc[t] = "Idle"
    BY <2>2, <2>3 DEF KInv, CurrentInv, Quiet
  <2> QED  BY <2>4 DEF Tracks, Writes
<1> QED  BY <1>1, <1>2, InitKInv, PTL DEF Spec

-----------------------------------------------------------------------------
(* Snapshots of the index and its recovery after a crash                   *)

\* One thread whose level 0 is never full, and what else is left out because
\* the code does not keep the property there: a second thread (run
\* VecSnapshotRace), plain put over an indexed key, a compaction that drops a
\* tombstone the last snapshot needs, vectors the graph refuses, an error of
\* the LSM part.
SoloModel ==
    /\ \E t : Threads = {t}
    /\ Rejected = {} /\ \A v, w \in Vectors : Dim[v] = Dim[w]
    /\ "put" \notin Calls /\ "Lsm" \notin FailAt
    /\ Trigger > MaxId + 1

VectorMaps == [Keys -> Vectors \cup {Missing}]
VectorOf(e) == IF e \in Vectors THEN e ELSE Missing

\* The index x holds the vectors of the LSM s.
Holds(x, s) == \A k \in Keys : x.vec[k] = VectorOf(Latest(s, k))

\* Recovery from a snapshot of the vectors vec, taken when id was the next
\* table id, gives the vectors of the LSM s.
Delta(s, id) == {i \in IdsOf(s) : i >= id}
SoundAt(s, id, vec) == \A k \in Keys :
    ApplyEntry(vec[k], Newest(s, Delta(s, id), k)) = VectorOf(Latest(s, k))

\* No id was skipped, so reopening hands out the same ids.
Contiguous(s) == \A i \in Ids : i \in IdsOf(s) <=> i < s.next_sst_id

\* The LSM s becomes x: snapshots stay sound.
Advances(x, s) ==
    /\ Contiguous(x) /\ s.next_sst_id <= x.next_sst_id
    /\ \A id \in SnapIds, vec \in VectorMaps :
          id <= s.next_sst_id /\ SoundAt(s, id, vec) => SoundAt(x, id, vec)

-----------------------------------------------------------------------------
(* The LSM                                                                 *)

LEMMA WrittenAdvances ==
    ASSUME NEW n \in Nat, NEW s, GoodLsm(s, n), Contiguous(s), NEW k \in Keys, NEW e \in Entries
    PROVE  Advances(Written(s, k, e), s)
<1> DEFINE w == Written(s, k, e)
<1>0. s \in LsmStates /\ s.next_sst_id \in Nat
  BY LsmFields DEF GoodLsm
<1>1. /\ w.memtable = [s.memtable EXCEPT ![k] = e] /\ w.tables = s.tables
      /\ w.next_sst_id = s.next_sst_id
  BY <1>0 DEF Written, LsmStates
<1> HIDE DEF w
<1>2. IdsOf(w) = IdsOf(s)
  BY <1>1 DEF IdsOf
<1>3. /\ w.memtable[k] = e /\ e # Missing
      /\ \A j \in Keys : j # k => w.memtable[j] = s.memtable[j]
  BY <1>0, <1>1, LsmFields, VectorAssumption DEF Tables
<1>4. \A ids, j : NewestIn(w, ids, j) = NewestIn(s, ids, j)
  BY <1>1 DEF NewestIn
<1>5. \A ids : Newest(w, ids, k) = e /\ \A j \in Keys : j # k => Newest(w, ids, j) = Newest(s, ids, j)
  BY <1>3, <1>4 DEF Newest
<1>6. ASSUME NEW id \in SnapIds, NEW vec \in VectorMaps, SoundAt(s, id, vec), NEW j \in Keys
      PROVE  ApplyEntry(vec[j], Newest(w, Delta(w, id), j)) = VectorOf(Latest(w, j))
  <2>0. Delta(w, id) = Delta(s, id)
    BY <1>2 DEF Delta
  <2>1. CASE j = k
    <3>1. Newest(w, Delta(w, id), j) = e /\ Latest(w, j) = e
      BY <1>5, <2>1 DEF Latest
    <3>2. ApplyEntry(vec[j], e) = VectorOf(e)
      BY <1>3, ApplyEntryCases DEF VectorOf
    <3> QED  BY <3>1, <3>2
  <2>2. CASE j # k
    <3>1. Newest(w, Delta(w, id), j) = Newest(s, Delta(s, id), j) /\ Latest(w, j) = Latest(s, j)
      BY <1>2, <1>5, <2>0, <2>2 DEF Latest
    <3> QED  BY <1>6, <3>1 DEF SoundAt
  <2> QED  BY <2>1, <2>2
<1>7. Contiguous(w) /\ s.next_sst_id <= w.next_sst_id
  BY <1>0, <1>1, <1>2 DEF Contiguous
<1>8. Advances(w, s)
  BY <1>6, <1>7 DEF Advances, SoundAt
<1> QED  BY <1>8 DEF w

\* A flush moves the memtable to a table that is part of every delta.
LEMMA FlushAdvances ==
    ASSUME NEW n \in Nat, NEW s, GoodLsm(s, n + 1), Contiguous(s)
    PROVE  Advances(flush_inner(s), s)
<1> DEFINE f == flush_inner(s)
           new == s.next_sst_id
<1>a. /\ s \in LsmStates /\ IdsBelow(s) /\ new \in Ids /\ new \in Nat /\ IdsOf(s) \in SUBSET Ids
  BY LsmFields DEF GoodLsm, Ids, SnapIds
<1>b. GoodLsm(f, n) /\ (\A k \in Keys : Latest(f, k) = Latest(s, k))
  BY FlushKeeps
<1>0. /\ s \in LsmStates /\ IdsBelow(s) /\ new \in Ids /\ new \in Nat /\ IdsOf(s) \in SUBSET Ids
      /\ GoodLsm(f, n) /\ (\A k \in Keys : Latest(f, k) = Latest(s, k))
  BY <1>a, <1>b
<1>1. CASE s.memtable = NoTable
  <2>1. f = s
    BY <1>1 DEF flush_inner
  <2> QED  BY <1>0, <2>1 DEF Advances
<1>2. CASE s.memtable # NoTable
  <2>1. /\ f.memtable = NoTable /\ f.tables = [s.tables EXCEPT ![new] = s.memtable]
        /\ f.next_sst_id = new + 1 /\ f \in LsmStates /\ IdsOf(f) \in SUBSET Ids
    BY <1>0, <1>2, LsmFields DEF flush_inner, LsmStates, GoodLsm
  <2> HIDE DEF f
  <2>2. f.tables[new] = s.memtable /\ \A i \in Ids : i # new => f.tables[i] = s.tables[i]
    BY <1>0, <2>1, LsmFields
  <2>3. \A i \in Ids : i \in IdsOf(f) <=> i \in IdsOf(s) \/ i = new
    BY <1>0, <1>2, <2>2 DEF IdsOf
  <2>4. Contiguous(f) /\ new <= f.next_sst_id
    <3>1. \A i \in Ids : i < new + 1 <=> i < new \/ i = new
      BY <1>0 DEF Ids
    <3> QED  BY <1>0, <2>1, <2>3, <3>1 DEF Contiguous
  <2>5. ASSUME NEW id \in SnapIds, id <= new, NEW k \in Keys
        PROVE  Newest(f, Delta(f, id), k) = Newest(s, Delta(s, id), k)
    <3> DEFINE old == Delta(s, id)
               ids == Delta(f, id)
    <3>1. /\ old \in SUBSET Ids /\ ids \in SUBSET Ids /\ ids \subseteq old \cup {new}
          /\ (old \cup {new}) \ ids = {} /\ \A i \in old : i < new
      BY <1>0, <2>1, <2>3, <2>5 DEF Delta, IdsBelow
    <3>2. \A i \in old : f.tables[i] = s.tables[i]
      BY <1>0, <2>2, <3>1
    <3>3. \A i \in (old \cup {new}) \ ids : f.tables[i][k] = Missing
      BY <3>1
    <3>a. \A i \in old : i < new
      BY <3>1
    <3>b. /\ s \in LsmStates /\ f \in LsmStates /\ new \in Ids /\ old \in SUBSET Ids
          /\ ids \in SUBSET Ids /\ ids \subseteq old \cup {new}
      BY <1>0, <2>1, <3>1
    <3> HIDE DEF old, ids, new
    <3>4. NewestIn(f, ids, k) = IF f.tables[new][k] # Missing THEN f.tables[new][k] ELSE NewestIn(s, old, k)
      BY <3>a, <3>b, <3>2, <3>3, TableAdded
    <3>5. f.memtable[k] = Missing
      BY <2>1 DEF NoTable
    <3> QED  BY <2>2, <3>4, <3>5 DEF Newest, old, ids
  <2>6. \A id \in SnapIds, vec \in VectorMaps : id <= new /\ SoundAt(s, id, vec) => SoundAt(f, id, vec)
    BY <1>0, <2>5 DEF SoundAt, f
  <2>7. Advances(f, s)
    BY <2>4, <2>6 DEF Advances
  <2> QED  BY <2>7 DEF f
<1> QED  BY <1>1, <1>2

\* Level 0 never reaches the trigger.
LEMMA NoCompaction ==
    ASSUME SoloModel, NEW s \in LsmStates
    PROVE  maybe_compact(s) = s
<1>1. IsFiniteSet(0 .. MaxId) /\ Cardinality(0 .. MaxId) = MaxId + 1 /\ MaxId \in Nat
  <2>1. MaxId \in Nat
    BY VectorAssumption
  <2>2. IsFiniteSet(0 .. MaxId) /\ Cardinality(0 .. MaxId) = IF 0 > MaxId THEN 0 ELSE MaxId - 0 + 1
    BY <2>1, FS_Interval
  <2> QED  BY <2>1, <2>2
<1> DEFINE ids == IdsOf(s) \ s.l1
<1>2. ids \subseteq 0 .. MaxId
  BY DEF IdsOf, Ids
<1>3. IsFiniteSet(ids) /\ Cardinality(ids) <= MaxId + 1
  BY <1>1, <1>2, FS_Subset
<1>4. Cardinality(ids) \in Nat
  BY <1>3, FS_CardinalityType
<1>5. Trigger \in Nat /\ Trigger > MaxId + 1
  BY VectorAssumption DEF SoloModel
<1> HIDE DEF ids
<1>6. Cardinality(ids) < Trigger
  BY <1>1, <1>3, <1>4, <1>5
<1> QED  BY <1>6 DEF maybe_compact, ids

\* The LSM part of delete and put_indexed, and of flush.
LEMMA WriteAdvances ==
    ASSUME SoloModel, GoodLsm(lsm, 2), Contiguous(lsm), NEW k \in Keys, NEW e \in Entries
    PROVE  /\ Advances(WriteLsm(k, e), lsm) /\ Latest(WriteLsm(k, e), k) = e
           /\ \A j \in Keys : j # k => Latest(WriteLsm(k, e), j) = Latest(lsm, j)
<1> DEFINE w == Written(lsm, k, e)
           f == maybe_auto_flush(w)
<1>1. /\ GoodLsm(w, 1 + 1) /\ Advances(w, lsm) /\ Latest(w, k) = e
      /\ \A j \in Keys : j # k => Latest(w, j) = Latest(lsm, j)
  BY WrittenKeeps, WrittenAdvances
<1> HIDE DEF w
<1>2. GoodLsm(f, 1) /\ \A j \in Keys : Latest(f, j) = Latest(w, j)
  BY <1>1, AutoFlushKeeps
<1>3. Advances(f, lsm)
  <2>1. CASE f = w
    BY <1>1, <2>1
  <2>2. CASE f = flush_inner(w)
    <3>1. Advances(f, w)
      BY <1>1, <2>2, FlushAdvances DEF Advances
    <3>2. w.next_sst_id \in Nat /\ lsm.next_sst_id \in Nat /\ f.next_sst_id \in Nat
      BY <1>1, <1>2, LsmFields DEF GoodLsm
    <3> HIDE DEF f
    <3>3. lsm.next_sst_id <= w.next_sst_id /\ w.next_sst_id <= f.next_sst_id /\ Contiguous(f)
      BY <1>1, <3>1 DEF Advances
    <3>4. ASSUME NEW id \in SnapIds, NEW vec \in VectorMaps, id <= lsm.next_sst_id, SoundAt(lsm, id, vec)
          PROVE  SoundAt(f, id, vec)
      <4>1. SoundAt(w, id, vec)
        BY <1>1, <3>4 DEF Advances
      <4>2. id <= w.next_sst_id
        BY <3>2, <3>3, <3>4, VectorAssumption DEF SnapIds
      <4> QED  BY <3>1, <4>1, <4>2 DEF Advances
    <3> QED  BY <3>2, <3>3, <3>4 DEF Advances
  <2> QED  BY <2>1, <2>2 DEF f, maybe_auto_flush
<1> HIDE DEF f
<1>4. WriteLsm(k, e) = f
  BY <1>2, NoCompaction DEF WriteLsm, f, w, GoodLsm
<1> QED  BY <1>1, <1>2, <1>3, <1>4

LEMMA FlushPartAdvances ==
    ASSUME SoloModel, GoodLsm(lsm, 2), Contiguous(lsm)
    PROVE  /\ Advances(maybe_compact(flush_inner(lsm)), lsm)
           /\ \A j \in Keys : Latest(maybe_compact(flush_inner(lsm)), j) = Latest(lsm, j)
<1>1. GoodLsm(lsm, 1 + 1)
  OBVIOUS
<1>2. Advances(flush_inner(lsm), lsm)
  BY <1>1, FlushAdvances
<1>3. GoodLsm(flush_inner(lsm), 1) /\ \A j \in Keys : Latest(flush_inner(lsm), j) = Latest(lsm, j)
  BY <1>1, FlushKeeps
<1>4. maybe_compact(flush_inner(lsm)) = flush_inner(lsm)
  BY <1>3, NoCompaction DEF GoodLsm
<1> QED  BY <1>2, <1>3, <1>4

\* The entry a delta has for a key is the latest one.
LEMMA DeltaIsLatest ==
    ASSUME NEW s \in LsmStates, NEW id \in SnapIds, NEW k \in Keys,
           Newest(s, Delta(s, id), k) # Missing
    PROVE  Newest(s, Delta(s, id), k) = Latest(s, k)
<1>0. Delta(s, id) \in SUBSET Ids /\ IdsOf(s) \in SUBSET Ids /\ id \in Nat /\ \A i \in Ids : i \in Nat
  BY DEF Delta, IdsOf, SnapIds, Ids
<1>1. CASE s.memtable[k] # Missing
  BY <1>1 DEF Newest, Latest
<1>2. CASE s.memtable[k] = Missing
  <2>1. NewestIn(s, Delta(s, id), k) # Missing
    BY <1>2 DEF Newest
  <2>2. PICK m \in Delta(s, id) : /\ NewestIn(s, Delta(s, id), k) = s.tables[m][k]
                                  /\ s.tables[m][k] # Missing
                                  /\ \A i \in Delta(s, id) : s.tables[i][k] # Missing => i <= m
    BY <1>0, <2>1, NewestInIs
  <2>3. m \in IdsOf(s) /\ m >= id /\ m \in Nat
    BY <1>0 DEF Delta
  <2>4. \A i \in IdsOf(s) : s.tables[i][k] # Missing => i <= m
    <3> SUFFICES ASSUME NEW i \in IdsOf(s), s.tables[i][k] # Missing PROVE i <= m
      OBVIOUS
    <3>1. CASE i >= id
      BY <2>2, <3>1 DEF Delta
    <3>2. CASE ~(i >= id)
      BY <1>0, <2>3, <3>2
    <3> QED  BY <3>1, <3>2
  <2>5. NewestIn(s, IdsOf(s), k) = s.tables[m][k]
    BY <1>0, <2>2, <2>3, <2>4, NewestInDetermined
  <2> QED  BY <1>2, <2>2, <2>5 DEF Newest, Latest
<1> QED  BY <1>1, <1>2

\* A snapshot of an index that agrees with the LSM is sound at once.
LEMMA HoldsSound ==
    ASSUME NEW s \in LsmStates, NEW x, Holds(x, s), NEW id \in SnapIds
    PROVE  SoundAt(s, id, x.vec)
<1> SUFFICES ASSUME NEW k \in Keys
             PROVE  ApplyEntry(x.vec[k], Newest(s, Delta(s, id), k)) = VectorOf(Latest(s, k))
  BY DEF SoundAt
<1>1. x.vec[k] = VectorOf(Latest(s, k))
  BY DEF Holds
<1>2. CASE Newest(s, Delta(s, id), k) = Missing
  BY <1>1, <1>2, ApplyEntryCases
<1>3. CASE Newest(s, Delta(s, id), k) # Missing
  <2>1. Newest(s, Delta(s, id), k) = Latest(s, k)
    BY <1>3, DeltaIsLatest
  <2> QED  BY <1>3, <2>1, ApplyEntryCases DEF VectorOf
<1> QED  BY <1>2, <1>3

-----------------------------------------------------------------------------
(* The invariant                                                           *)

SnapInv ==
    /\ Contiguous(lsm)
    /\ \A x \in snaps : x.id <= lsm.next_sst_id /\ SoundAt(lsm, x.id, x.index.vec)

\* The thread, at label p of call c with next_id_after n and encoded bytes b:
\* the index x lags behind the LSM s only between the two parts of a call,
\* and then only for the key of the call.
Serves(s, x, n, p, c, b) ==
    /\ n \subseteq {s.next_sst_id}
    /\ p = "Publish" => Holds(b, s)
    /\ p # "Index" => Holds(x, s)
    /\ p = "Index" => /\ VectorOf(Latest(s, c.key)) = VectorOf(c.entry)
                      /\ \A k \in Keys \ {c.key} : x.vec[k] = VectorOf(Latest(s, k))

ServeInv == Up => \A t \in Threads : Serves(lsm, index, next_id_after[t], pc[t], call[t], bytes[t])
NoIdDown == status = "Down" => \A t \in Threads : next_id_after[t] = {}

SInv == KInv /\ SnapInv /\ ServeInv /\ NoIdDown

\* The snapshots stay sound when the LSM advances.
LEMMA SnapshotsKept ==
    ASSUME SInv, Advances(lsm', lsm), snaps' \subseteq snaps, lsm' \in LsmStates
    PROVE  Contiguous(lsm') /\ \A x \in snaps' : x.id <= lsm'.next_sst_id /\ SoundAt(lsm', x.id, x.index.vec)
<1>1. \A x \in snaps : x.id \in SnapIds /\ x.index.vec \in VectorMaps
  BY DEF SInv, KInv, TInv, TypeOK, Indexes, VectorMaps
<1>2. lsm.next_sst_id \in Nat /\ lsm'.next_sst_id \in Nat /\ lsm.next_sst_id <= lsm'.next_sst_id
  <2>1. lsm \in LsmStates
    BY DEF SInv, KInv, TInv, TypeOK, LsmStates
  <2> QED  BY <2>1, LsmFields DEF Advances
<1>3. \A i \in SnapIds : i \in Nat
  BY DEF SnapIds
<1> QED  BY <1>1, <1>2, <1>3 DEF SInv, SnapInv, Advances

\* Reopening after a run without compaction changes nothing.
LEMMA ReopenedSame ==
    ASSUME TInv, Contiguous(lsm)
    PROVE  Reopened(lsm) = lsm
<1> DEFINE n == lsm.next_sst_id
<1>1. lsm \in LsmStates /\ MaxId \in Nat /\ n \in 0 .. MaxId + 1 /\ IdsOf(lsm) \in SUBSET (0 .. MaxId)
  BY RoomForTwo, LsmFields DEF GoodLsm, SnapIds, Ids
<1>2. (IF IdsOf(lsm) = {} THEN 0 ELSE Max(IdsOf(lsm)) + 1) = n
  <2>1. CASE n = 0
    BY <1>1, <2>1 DEF Contiguous, Ids
  <2>2. CASE n # 0
    <3>1. n - 1 \in Ids /\ n - 1 < n
      BY <1>1, <2>2 DEF Ids
    <3>2. n - 1 \in IdsOf(lsm) /\ \A i \in IdsOf(lsm) : i < n
      BY <1>1, <3>1 DEF Contiguous, Ids
    <3>3. Max(IdsOf(lsm)) \in IdsOf(lsm) /\ \A i \in IdsOf(lsm) : i <= Max(IdsOf(lsm))
      BY <1>1, <3>2, MaxOfNats
    <3> DEFINE m == Max(IdsOf(lsm))
    <3>4. m \in 0 .. MaxId /\ m < n /\ n - 1 <= m
      BY <1>1, <3>2, <3>3
    <3> HIDE DEF m
    <3>5. m + 1 = n
      BY <1>1, <3>4
    <3> QED  BY <3>2, <3>5 DEF m
  <2> QED  BY <2>1, <2>2
<1>3. Reopened(lsm) = [lsm EXCEPT !.next_sst_id = n]
  BY <1>2 DEF Reopened
<1> QED  BY <1>1, <1>3 DEF LsmStates

\* Recovery, from a snapshot or from the LSM, gives the vectors of the LSM.
LEMMA OpenHolds ==
    ASSUME SInv, Open, status' = "Up"
    PROVE  Holds(index', lsm)
<1>0. \A k \in Keys : LsmVector(lsm, k) = VectorOf(Latest(lsm, k))
  BY DEF LsmVector, VectorOf, Latest
<1>1. CASE UsableSnapshot(lsm) /\ index' = apply_delta(lsm, LatestSnapshot)
  <2> DEFINE x == LatestSnapshot
  <2>1. x \in snaps
    BY <1>1, LatestOnDisk DEF UsableSnapshot, SInv, KInv
  <2> HIDE DEF x
  <2>2. SoundAt(lsm, x.id, x.index.vec)
    BY <2>1 DEF SInv, SnapInv
  <2>3. index'.vec = [k \in Keys |-> ApplyEntry(x.index.vec[k], DeltaEntry(lsm, x, k))]
    BY <1>1 DEF apply_delta, x
  <2>4. \A k \in Keys : DeltaEntry(lsm, x, k) = Newest(lsm, Delta(lsm, x.id), k)
    BY DEF DeltaEntry, DeltaIds, Delta
  <2> QED  BY <2>2, <2>3, <2>4 DEF SoundAt, Holds
<1>2. CASE index' = full_rebuild(lsm)
  BY <1>0, <1>2 DEF full_rebuild, Holds
<1> QED  BY <1>1, <1>2 DEF Open

\* The index part of a call brings its key up to date: no vector is refused.
LEMMA IndexPartHolds ==
    ASSUME SoloModel, SInv, NEW t \in Threads, IndexPart(t)
    PROVE  Holds(index', lsm)
<1> DEFINE k == call[t].key
           v == call[t].entry
<1>1. /\ k \in Keys /\ Request(call[t]) /\ index \in Indexes /\ pc[t] = "Index"
      /\ index.vec \in [Keys -> Vectors \cup {Missing}] /\ index = [vec |-> index.vec, dim |-> index.dim]
  BY RequestTypes DEF IndexPart, SInv, KInv, TInv, TypeOK, Indexes
<1>2. Serves(lsm, index, next_id_after[t], pc[t], call[t], bytes[t])
  BY DEF SInv, ServeInv, IndexPart
<1>3. /\ VectorOf(Latest(lsm, k)) = VectorOf(v)
      /\ \A j \in Keys \ {k} : index.vec[j] = VectorOf(Latest(lsm, j))
  BY <1>1, <1>2 DEF Serves
<1>4. CASE call[t].op = "delete"
  <2>1. index' = Removed(index, k) /\ v = Tombstone
    BY <1>1, <1>4 DEF IndexPart, Request
  <2>2. Removed(index, k) = [vec |-> [index.vec EXCEPT ![k] = Missing], dim |-> index.dim]
    BY <1>1 DEF Removed
  <2>3. VectorOf(v) = Missing
    BY <2>1, VectorAssumption DEF VectorOf
  <2> QED  BY <1>1, <1>3, <2>1, <2>2, <2>3 DEF Holds
<1>5. CASE call[t].op = "put_indexed"
  <2>1. v \in Vectors /\ v \notin Rejected
    BY <1>1, <1>5 DEF Request, SoloModel
  <2>2. PassesDimCheck(v)
    <3>1. index.dim \in Dims \cup {0}
      BY <1>1 DEF Indexes
    <3>2. index.dim \in Dims => index.dim = Dim[v]
      BY <2>1 DEF Dims, SoloModel
    <3> QED  BY <3>1, <3>2 DEF PassesDimCheck
  <2>3. index' = Inserted(Removed(index, k), k, v)
    BY <1>5, <2>1, <2>2 DEF IndexPart
  <2>4. Inserted(Removed(index, k), k, v) = [vec |-> [index.vec EXCEPT ![k] = v], dim |-> Dim[v]]
    <3> HIDE DEF k, v
    <3> QED  BY <1>1, <2>1, IndexUpdates
  <2>5. VectorOf(v) = v
    BY <2>1 DEF VectorOf
  <2> QED  BY <1>1, <1>3, <2>3, <2>4, <2>5 DEF Holds
<1> QED  BY <1>1, <1>4, <1>5 DEF Request

\* The LSM part: the index falls behind for the key k that was written.
LEMMA LsmPartServes ==
    ASSUME SInv, Up, NEW t \in Threads, Threads = {t}, pc[t] \in {"Idle", "Lsm"},
           NEW s, NEW indexes \in BOOLEAN, LsmPart(t, s, indexes), NEW K \in SUBSET Keys,
           \A j \in Keys \ K : Latest(s, j) = Latest(lsm, j),
           indexes => K = {call'[t].key} /\ Latest(s, call'[t].key) = call'[t].entry,
           ~indexes => K = {}
    PROVE  \A u \in Threads : Serves(lsm', index', next_id_after'[u], pc'[u], call'[u], bytes'[u])
<1>1. Holds(index, lsm)
  BY DEF SInv, ServeInv, Serves
<1>2. /\ lsm' = s /\ next_id_after'[t] \subseteq {s.next_sst_id} /\ index' = index
      /\ pc'[t] = IF indexes THEN "Index" ELSE SnapshotLabel(s)
  BY DEF LsmPart, Goto, SInv, KInv, TInv, TypeOK
<1>3. SnapshotLabel(s) \in {"Idle", "Encode"}
  BY DEF SnapshotLabel
<1>4. CASE indexes
  <2>1. /\ VectorOf(Latest(s, call'[t].key)) = VectorOf(call'[t].entry)
        /\ \A k \in Keys \ {call'[t].key} : index.vec[k] = VectorOf(Latest(s, k))
    BY <1>1, <1>4 DEF Holds
  <2> QED  BY <1>2, <1>4, <2>1 DEF Serves
<1>5. CASE ~indexes
  <2>1. Holds(index, s)
    BY <1>1, <1>5 DEF Holds
  <2> QED  BY <1>2, <1>3, <1>5, <2>1 DEF Serves
<1> QED  BY <1>4, <1>5

LEMMA NextSInv == ASSUME SoloModel PROVE SInv /\ [Next]_vars => SInv'
<1> SUFFICES ASSUME SInv, [Next]_vars PROVE SnapInv' /\ ServeInv' /\ NoIdDown'
  BY NextKInv DEF SInv
<1>0. /\ KInv /\ TInv /\ TypeOK /\ CallInv /\ Contiguous(lsm) /\ lsm \in LsmStates
      /\ (HasRoom => GoodLsm(lsm, 2)) /\ Tombstone \in Entries /\ MaxId \in Nat
      /\ pc \in [Threads -> Labels] /\ call \in [Threads -> CallRecords]
      /\ (\A x \in snaps : x.id \in SnapIds /\ x.id <= lsm.next_sst_id /\ SoundAt(lsm, x.id, x.index.vec))
      /\ lsm.next_sst_id \in Nat /\ lsm.next_sst_id \in SnapIds
  BY RoomForTwo, LsmFields, VectorAssumption
     DEF SInv, SnapInv, KInv, TInv, TypeOK, Entries, LsmStates
<1>t. PICK t : Threads = {t}
  BY DEF SoloModel
<1>u. t \in Threads
  BY <1>t
<1>k. lsm' \in LsmStates
  BY NextTInv, <1>0 DEF TInv, TypeOK, LsmStates
<1>a. SUFFICES /\ Contiguous(lsm')
               /\ \A x \in snaps' : x.id <= lsm'.next_sst_id /\ SoundAt(lsm', x.id, x.index.vec)
               /\ status' = "Up" => \A u \in Threads :
                     Serves(lsm', index', next_id_after'[u], pc'[u], call'[u], bytes'[u])
               /\ status' = "Down" => \A u \in Threads : next_id_after'[u] = {}
  <2>1. SnapInv'
    BY DEF SnapInv, Contiguous, SoundAt, Delta, Newest, NewestIn, IdsOf, Latest
  <2>2. ServeInv'
    BY DEF ServeInv, Up, Serves, Holds, Latest, Newest, NewestIn, IdsOf
  <2>3. NoIdDown'
    BY DEF NoIdDown
  <2> QED  BY <2>1, <2>2, <2>3
<1>s. ASSUME lsm' = lsm, snaps' \subseteq snaps
      PROVE  /\ Contiguous(lsm')
             /\ \A x \in snaps' : x.id <= lsm'.next_sst_id /\ SoundAt(lsm', x.id, x.index.vec)
  BY <1>0, <1>s
<1>e. \A s, f : ~LsmError(t, s, f)
  BY DEF LsmError, Fails, SoloModel
<1>1. CASE delete(t)
  <2>1. PICK k \in Uses[t] : /\ Start(t, "delete") /\ LsmPart(t, WriteLsm(k, Tombstone), TRUE)
                             /\ Requests(t, "delete", k, Tombstone)
    BY <1>1, <1>e DEF delete, WriteError
  <2>2. k \in Keys /\ GoodLsm(lsm, 2) /\ Up /\ pc[t] = "Idle" /\ status' = "Up"
    BY <1>0, <1>u, <2>1, RequestTypes DEF Start, LsmPart, Up
  <2>3. call'[t] = [op |-> "delete", key |-> k, entry |-> Tombstone]
    BY <1>0, <1>u, <2>1 DEF Requests
  <2>4. /\ Advances(lsm', lsm) /\ Latest(WriteLsm(k, Tombstone), k) = Tombstone
        /\ \A j \in Keys \ {k} : Latest(WriteLsm(k, Tombstone), j) = Latest(lsm, j)
    BY <1>0, <2>1, <2>2, WriteAdvances DEF LsmPart
  <2>5. call'[t].key = k /\ call'[t].entry = Tombstone /\ {k} \in SUBSET Keys
    BY <2>2, <2>3
  <2>6. \A u \in Threads : Serves(lsm', index', next_id_after'[u], pc'[u], call'[u], bytes'[u])
    BY <1>t, <1>u, <2>1, <2>2, <2>4, <2>5, LsmPartServes
  <2>7. snaps' \subseteq snaps
    BY <2>1 DEF LsmPart
  <2> QED  BY <1>k, <2>2, <2>4, <2>6, <2>7, SnapshotsKept
<1>2. CASE PutIndexedLsm(t)
  <2>0. /\ call[t].key \in Keys /\ call[t].entry \in Entries /\ pc[t] = "Lsm" /\ Up
    BY <1>0, <1>2, <1>u, RequestTypes DEF PutIndexedLsm
  <2>1. CASE HasRoom /\ LsmPart(t, WriteLsm(call[t].key, call[t].entry), TRUE) /\ UNCHANGED call
    <3> DEFINE k == call[t].key
               e == call[t].entry
    <3>1. GoodLsm(lsm, 2) /\ status' = "Up" /\ k \in Keys /\ e \in Entries
      BY <1>0, <2>0, <2>1 DEF LsmPart, Up
    <3>2. call'[t].key = k /\ call'[t].entry = e /\ LsmPart(t, WriteLsm(k, e), TRUE)
      BY <2>1
    <3> HIDE DEF k, e
    <3>4. /\ Advances(lsm', lsm) /\ Latest(WriteLsm(k, e), k) = e
          /\ \A j \in Keys \ {k} : Latest(WriteLsm(k, e), j) = Latest(lsm, j)
      BY <1>0, <3>1, <3>2, WriteAdvances DEF LsmPart
    <3>5. {k} \in SUBSET Keys
      BY <3>1
    <3>6. \A u \in Threads : Serves(lsm', index', next_id_after'[u], pc'[u], call'[u], bytes'[u])
      BY <1>t, <1>u, <2>0, <3>2, <3>4, <3>5, LsmPartServes
    <3>7. snaps' \subseteq snaps
      BY <3>2 DEF LsmPart
    <3> QED  BY <1>k, <3>1, <3>4, <3>6, <3>7, SnapshotsKept
  <2>2. CASE /\ Goto(t, "Idle") /\ Ends(t) /\ UNCHANGED <<status, lsm, index, snaps, next_id_after, bytes>>
    <3>1. pc'[t] = "Idle"
      BY <1>0, <1>u, <2>2 DEF Goto
    <3>2. Serves(lsm, index, next_id_after[t], pc[t], call[t], bytes[t])
      BY <1>u, <2>0 DEF SInv, ServeInv
    <3>3. Serves(lsm', index', next_id_after'[t], pc'[t], call'[t], bytes'[t])
      BY <2>0, <2>2, <3>1, <3>2 DEF Serves
    <3> QED  BY <1>s, <1>t, <2>0, <2>2, <3>3 DEF Up
  <2> QED  BY <1>2, <1>e, <2>1, <2>2 DEF PutIndexedLsm, WriteError
<1>3. CASE flush(t)
  <2> DEFINE x == maybe_compact(flush_inner(lsm))
  <2>1. /\ Start(t, "flush") /\ LsmPart(t, x, FALSE)
    BY <1>3, <1>e DEF flush
  <2>2. GoodLsm(lsm, 2) /\ Up /\ pc[t] = "Idle" /\ status' = "Up" /\ snaps' \subseteq snaps /\ lsm' = x
    BY <1>0, <2>1 DEF Start, LsmPart, Up
  <2>3. Advances(lsm', lsm) /\ \A j \in Keys \ {} : Latest(x, j) = Latest(lsm, j)
    BY <1>0, <2>2, FlushPartAdvances
  <2> HIDE DEF x
  <2>4. \A u \in Threads : Serves(lsm', index', next_id_after'[u], pc'[u], call'[u], bytes'[u])
    <3> DEFINE K == {}
               no == FALSE
    <3>1. /\ K \in SUBSET Keys /\ no \in BOOLEAN /\ ~no /\ K = {} /\ LsmPart(t, x, no)
          /\ \A j \in Keys \ K : Latest(x, j) = Latest(lsm, j)
      BY <2>1, <2>3
    <3> HIDE DEF K, no
    <3> QED  BY <1>t, <1>u, <2>2, <3>1, LsmPartServes
  <2> QED  BY <1>k, <2>2, <2>3, <2>4, SnapshotsKept
<1>4. CASE put_indexed(t) \/ close(t)
  <2>1. /\ UNCHANGED <<status, lsm, index, snaps, next_id_after, bytes>> /\ Up
        /\ pc[t] = "Idle" /\ pc'[t] \in {"Idle", "Lsm"}
    BY <1>0, <1>4, <1>u DEF put_indexed, close, Start, Goto, threadVars
  <2>2. Serves(lsm, index, next_id_after[t], pc[t], call[t], bytes[t])
    BY <1>u, <2>1 DEF SInv, ServeInv
  <2>3. Serves(lsm', index', next_id_after'[t], pc'[t], call'[t], bytes'[t])
    BY <2>1, <2>2 DEF Serves
  <2> QED  BY <1>s, <1>t, <2>1, <2>3 DEF Up
<1>5. CASE IndexPart(t)
  <2>1. Holds(index', lsm) /\ UNCHANGED <<status, lsm, snaps>> /\ Up /\ pc'[t] \in {"Idle", "Encode"}
    BY <1>0, <1>5, <1>u, IndexPartHolds DEF IndexPart, AfterIndex, FailsIndex, Goto
  <2>2. Serves(lsm, index, next_id_after[t], pc[t], call[t], bytes[t])
    BY <1>u, <2>1 DEF SInv, ServeInv
  <2>3. next_id_after'[t] \subseteq {lsm.next_sst_id}
    <3>1. next_id_after' = next_id_after \/ next_id_after' = [next_id_after EXCEPT ![t] = {}]
      BY <1>5 DEF IndexPart, AfterIndex, FailsIndex
    <3> QED  BY <1>0, <1>u, <2>2, <3>1 DEF Serves, TypeOK
  <2>4. Serves(lsm', index', next_id_after'[t], pc'[t], call'[t], bytes'[t])
    BY <2>1, <2>3 DEF Serves
  <2> QED  BY <1>s, <1>t, <2>1, <2>4 DEF Up
<1>6. CASE Encode(t)
  <2>1. /\ UNCHANGED <<status, lsm, index, snaps, next_id_after>> /\ Up
        /\ pc[t] = "Encode" /\ pc'[t] = "Publish" /\ bytes'[t] = index
    BY <1>0, <1>6, <1>u DEF Encode, Goto, TypeOK
  <2>2. Serves(lsm, index, next_id_after[t], pc[t], call[t], bytes[t])
    BY <1>u, <2>1 DEF SInv, ServeInv
  <2>3. Serves(lsm', index', next_id_after'[t], pc'[t], call'[t], bytes'[t])
    BY <2>1, <2>2 DEF Serves
  <2> QED  BY <1>s, <1>t, <2>1, <2>3 DEF Up
<1>7. CASE Publish(t)
  <2>0. /\ UNCHANGED <<status, lsm, index>> /\ Up /\ pc[t] = "Publish" /\ pc'[t] \in {"Idle", "Cleanup"}
        /\ next_id_after'[t] \in {next_id_after[t], {}}
    BY <1>0, <1>7, <1>u DEF Publish, SnapshotEnds, Goto, TypeOK
  <2>1. Serves(lsm, index, next_id_after[t], pc[t], call[t], bytes[t])
    BY <1>u, <2>0 DEF SInv, ServeInv
  <2>2. next_id_after[t] = {lsm.next_sst_id} /\ Holds(bytes[t], lsm)
    BY <1>0, <1>u, <2>0, <2>1 DEF Serves, CallInv
  <2>3. SoundAt(lsm, lsm.next_sst_id, bytes[t].vec)
    BY <1>0, <2>2, HoldsSound
  <2>4. \A x \in snaps' : x \in snaps \/ x = [id |-> lsm.next_sst_id, index |-> bytes[t]]
    <3>1. (CHOOSE i \in next_id_after[t] : TRUE) = lsm.next_sst_id
      BY <2>2
    <3> QED  BY <1>7, <3>1 DEF Publish
  <2>5. \A x \in snaps' : x.id <= lsm'.next_sst_id /\ SoundAt(lsm', x.id, x.index.vec)
    BY <1>0, <2>0, <2>3, <2>4
  <2>6. Serves(lsm', index', next_id_after'[t], pc'[t], call'[t], bytes'[t])
    BY <2>0, <2>1 DEF Serves
  <2> QED  BY <1>0, <1>t, <2>0, <2>5, <2>6 DEF Up
<1>8. CASE Cleanup(t)
  <2>1. /\ UNCHANGED <<status, lsm, index>> /\ Up /\ pc[t] = "Cleanup" /\ pc'[t] = "Idle"
        /\ next_id_after'[t] = {} /\ snaps' \subseteq snaps
    BY <1>0, <1>8, <1>u DEF Cleanup, SnapshotEnds, Goto, TypeOK
  <2>2. Serves(lsm, index, next_id_after[t], pc[t], call[t], bytes[t])
    BY <1>u, <2>1 DEF SInv, ServeInv
  <2>3. Serves(lsm', index', next_id_after'[t], pc'[t], call'[t], bytes'[t])
    BY <2>1, <2>2 DEF Serves
  <2> QED  BY <1>s, <1>t, <2>1, <2>3 DEF Up
<1>9. CASE Crash
  <2>1. lsm' = lsm /\ snaps' = snaps /\ status' = "Down" /\ \A u \in Threads : next_id_after'[u] = {}
    BY <1>9 DEF Crash, NoThreads
  <2> QED  BY <1>s, <2>1
<1>10. CASE Open
  <2>1. lsm' = lsm /\ status' # "Down" /\ UNCHANGED <<pc, next_id_after>>
    BY <1>0, <1>10, ReopenedSame DEF Open, threadVars
  <2>2. snaps' \subseteq snaps
    BY <1>0, <1>10, LatestOnDisk DEF Open
  <2>3. pc[t] = "Idle" /\ next_id_after[t] = {}
    BY <1>0, <1>10, <1>u DEF Open, KInv, DownInv, SInv, NoIdDown
  <2>4. ASSUME status' = "Up" PROVE Serves(lsm', index', next_id_after'[t], pc'[t], call'[t], bytes'[t])
    BY <1>10, <2>1, <2>3, <2>4, OpenHolds DEF Serves
  <2> QED  BY <1>s, <1>t, <2>1, <2>2, <2>4
<1>11. CASE UNCHANGED vars
  <2>1. UNCHANGED <<status, lsm, index, snaps, pc, call, next_id_after, bytes>>
    BY <1>11 DEF vars, threadVars
  <2> QED  BY <1>s, <2>1 DEF SInv, ServeInv, NoIdDown, Up
<1>12. ~put(t)
  BY DEF put, Start, SoloModel
<1> QED
  BY <1>t, <1>1, <1>2, <1>3, <1>4, <1>5, <1>6, <1>7, <1>8, <1>9, <1>10, <1>11, <1>12 DEF Next, ThreadStep

LEMMA InitSInv == Init => SInv
<1> SUFFICES ASSUME Init PROVE SInv
  OBVIOUS
<1>1. IdsOf(lsm) = {} /\ lsm.next_sst_id = 0
  BY DEF Init, IdsOf
<1>2. Contiguous(lsm)
  BY <1>1 DEF Contiguous, Ids
<1>3. SnapInv
  BY <1>2 DEF SnapInv, Init
<1>4. ServeInv /\ NoIdDown
  BY DEF Init, ServeInv, Up, NoIdDown
<1> QED  BY <1>3, <1>4, InitKInv DEF SInv

-----------------------------------------------------------------------------
(* Theorems                                                                *)

\* Wherever a crash strikes, open recovers the right index: every snapshot on
\* disk, published, half cleaned up or left behind by an error, gives the
\* vectors of the LSM once the memtable and the tables from its next id on
\* are applied over it (write_snapshot, load_snapshot_and_apply_delta).
THEOREM SnapshotsRecover == ASSUME SoloModel PROVE Spec => []SnapshotsSound
<1>1. SInv /\ [Next]_vars => SInv'
  BY NextSInv
<1>2. SInv => SnapshotsSound
  <2> SUFFICES ASSUME SInv, NEW x \in snaps, NEW k \in Keys
               PROVE  apply_delta(lsm, x).vec[k] = LsmVector(lsm, k)
    BY DEF SnapshotsSound
  <2>1. SoundAt(lsm, x.id, x.index.vec)
    BY DEF SInv, SnapInv
  <2>2. DeltaEntry(lsm, x, k) = Newest(lsm, Delta(lsm, x.id), k)
    BY DEF DeltaEntry, DeltaIds, Delta
  <2>3. apply_delta(lsm, x).vec[k] = ApplyEntry(x.index.vec[k], DeltaEntry(lsm, x, k))
    BY DEF apply_delta
  <2> QED  BY <2>1, <2>2, <2>3 DEF SoundAt, LsmVector, VectorOf, Latest
<1> QED  BY <1>1, <1>2, InitSInv, PTL DEF Spec

\* Between calls, before and after any number of crashes, the index is what a
\* rebuild from the LSM would give (put_indexed, delete, recover_vector_index).
THEOREM IndexMatchesLsm == ASSUME SoloModel PROVE Spec => []IndexExact
<1>1. SInv /\ [Next]_vars => SInv'
  BY NextSInv
<1>2. SInv => IndexExact
  <2> SUFFICES ASSUME SInv, Quiet, NEW k \in Keys PROVE index.vec[k] = LsmVector(lsm, k)
    BY DEF IndexExact
  <2>1. PICK t \in Threads : TRUE
    BY DEF SoloModel
  <2>2. Serves(lsm, index, next_id_after[t], pc[t], call[t], bytes[t]) /\ pc[t] = "Idle"
    BY DEF SInv, ServeInv, Quiet
  <2> QED  BY <2>2 DEF Serves, Holds, LsmVector, VectorOf, Latest
<1> QED  BY <1>1, <1>2, InitSInv, PTL DEF Spec
=============================================================================

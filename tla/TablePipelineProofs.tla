------------------------- MODULE TablePipelineProofs -------------------------
(***************************************************************************)
(* Proofs about TablePipeline, for every value of its constants: the       *)
(* memtable's byte count is exact, every registered table is well formed,  *)
(* the writer and the reader never refuse what flush and merge produce, a  *)
(* merge writes exactly the newest live entries and comes to its end, and  *)
(* a lookup finds the last entry written.                                  *)
(***************************************************************************)
EXTENDS TablePipeline, SsTableProofs

-----------------------------------------------------------------------------
(* The memtable's byte count                                               *)

MemInv == map \in Maps /\ approximate_size = SizeOf(map)

LEMMA MemInserted ==
    ASSUME MemInv, NEW k \in Keys, NEW e \in Entries, Insert(k, e)
    PROVE  MemInv'
<1>1. map \in Maps /\ approximate_size = SizeOf(map) /\ map' = [map EXCEPT ![k] = e]
      /\ approximate_size' = Accounted(k, e)
  BY DEF MemInv, Insert
<1> DEFINE m2 == [map EXCEPT ![k] = e]
<1>2. /\ m2 \in Maps
      /\ SizeOf(map) \in Nat
      /\ map[k] = NoEntry => SizeOf(m2) = SizeOf(map) + KeyLen[k] + payload_size(e)
      /\ map[k] # NoEntry => /\ payload_size(map[k]) <= SizeOf(map)
                             /\ SizeOf(m2) = (SizeOf(map) - payload_size(map[k])) + payload_size(e)
  BY <1>1, SizeAfter
<1>3. payload_size(map[k]) \in Nat
  BY <1>1, BytesNat, PayloadNat
<1>4. saturating_sub(approximate_size, payload_size(map[k])) =
         IF approximate_size > payload_size(map[k]) THEN approximate_size - payload_size(map[k]) ELSE 0
  BY DEF saturating_sub
<1> HIDE DEF m2
<1>5. Accounted(k, e) = SizeOf(m2)
  BY <1>1, <1>2, <1>3, <1>4 DEF Accounted
<1>6. map' = m2
  BY <1>1 DEF m2
<1> QED  BY <1>1, <1>2, <1>5, <1>6 DEF MemInv

LEMMA MemEmptied == map' = EmptyMap /\ approximate_size' = 0 => MemInv'
BY EmptySize DEF MemInv

LEMMA MemKept == MemInv /\ UNCHANGED memtable => MemInv'
BY DEF MemInv, memtable

\* The calls put, put_indexed and delete insert the entry they are given.
LEMMA WriteInserts ==
    ASSUME NEW k, NEW e \in Writes, Write(k, e)
    PROVE  Insert(k, e) /\ e \in Entries
<1>1. e \in Entries
  BY PipelineAssumption
<1>2. CASE e.kind = "Put"
  <2>1. e = Put(e.value)
    BY <1>1, <1>2 DEF Entries, Put, Vector, Tombstone
  <2>2. put(k, e.value)
    BY <1>2, Zenon DEF Write
  <2> QED  BY <1>1, <2>1, <2>2 DEF put
<1>3. CASE e.kind = "Vector"
  <2>1. e = Vector(e.value)
    BY <1>1, <1>3 DEF Entries, Put, Vector, Tombstone
  <2>2. put_vector(k, e.value)
    <3>1. e.kind # "Put"
      BY <1>3
    <3> QED  BY <1>3, <3>1, Zenon DEF Write
  <2> QED  BY <1>1, <2>1, <2>2 DEF put_vector
<1>4. CASE e.kind # "Put" /\ e.kind # "Vector"
  <2>1. e = Tombstone
    BY <1>1, <1>4 DEF Entries, Put, Vector, Tombstone
  <2>2. delete(k)
    BY <1>4, Zenon DEF Write
  <2> QED  BY <1>1, <2>1, <2>2 DEF delete
<1> QED  BY <1>2, <1>3, <1>4

LEMMA MemStep == MemInv /\ [Next]_vars => MemInv'
<1> SUFFICES ASSUME MemInv, [Next]_vars PROVE MemInv'
  OBVIOUS
<1>1. CASE \E k \in Keys, e \in Writes : Write(k, e)
  BY <1>1, WriteInserts, MemInserted
<1>2. CASE Flush
  BY <1>2, MemKept DEF Flush
<1>3. CASE FlushAdd
  BY <1>3, MemKept DEF FlushAdd
<1>4. CASE FlushFinish
  BY <1>4, MemKept, MemEmptied DEF FlushFinish, Reset
<1>5. CASE Compact \/ NextItem \/ Drain \/ Emit \/ Finish
  BY <1>5, MemKept DEF Compact, NextItem, Drain, Emit, Finish
<1>6. CASE Damage
  BY <1>6, MemKept DEF Damage
<1>7. CASE UNCHANGED vars
  BY <1>7, MemKept DEF vars
<1> QED  BY <1>1, <1>2, <1>3, <1>4, <1>5, <1>6, <1>7 DEF Next, Step

LEMMA MemInvariant == Spec => []MemInv
<1>1. Init => MemInv
  BY EmptySize DEF Init, MemtableInit, MemInv
<1> QED  BY <1>1, MemStep, PTL DEF Spec

\* The byte count that decides when to flush is the size of what the memtable
\* holds, after any sequence of writes, overwrites and deletes: the saturating
\* subtraction of Memtable::put never saturates.
THEOREM SizeStaysExact == Spec => []SizeExact
<1>1. MemInv => SizeExact
  BY DEF MemInv, SizeExact, SizeOf
<1> QED  BY <1>1, MemInvariant, PTL

-----------------------------------------------------------------------------
(* The registered tables                                                   *)

TableRec == [id : Nat, reader : Reader, holds : Maps]
GoodTable(t) == t \in TableRec /\ TableOK(t.reader) /\ TableHolds(t.reader, t.holds)

\* Descending ids through L0 and on to L1, all below the next one.
LevelsOK(zero, one, next) ==
    /\ next \in Nat
    /\ zero \in Seq(TableRec) /\ one \in Seq(TableRec) /\ Len(one) <= 1
    /\ \A i \in DOMAIN zero : GoodTable(zero[i]) /\ zero[i].id < next
    /\ \A i \in DOMAIN one : GoodTable(one[i]) /\ one[i].id < next
    /\ \A i, j \in DOMAIN zero : i < j => zero[i].id > zero[j].id
    /\ \A i \in DOMAIN zero, j \in DOMAIN one : zero[i].id > one[j].id

BadCounted(zero, one, count) ==
    /\ count \in Nat
    /\ \A i \in DOMAIN zero : zero[i].reader.file.bad # {} => count > 0
    /\ \A i \in DOMAIN one : one[i].reader.file.bad # {} => count > 0

\* Which table holds what, apart from the files.
Facts(t) == [id |-> t.id, holds |-> t.holds]
Holdings(zero, one) == {Facts(zero[i]) : i \in DOMAIN zero} \cup {Facts(one[i]) : i \in DOMAIN one}

\* The newest of the tables that hold k holds v, and v is no value when none does.
Settled(H, k, v) ==
    \/ \E t \in H : /\ t.holds[k] # NoEntry /\ t.holds[k].value = v
                    /\ \A u \in H : u.holds[k] # NoEntry => u.id <= t.id
    \/ (\A t \in H : t.holds[k] = NoEntry) /\ v = NoValue

LatestFound(m, last, H) ==
    /\ m \in Maps /\ last \in Maps
    /\ \A k \in Keys : IF m[k] # NoEntry THEN last[k] = m[k] ELSE Settled(H, k, last[k].value)

\* A new table in front of L0.
LEMMA LevelsFlushed ==
    ASSUME NEW zero, NEW one, NEW next, LevelsOK(zero, one, next),
           NEW t, GoodTable(t), t.id = next
    PROVE  /\ LevelsOK(<<t>> \o zero, one, next + 1)
           /\ Holdings(<<t>> \o zero, one) = Holdings(zero, one) \cup {Facts(t)}
           /\ \A u \in Holdings(zero, one) : u.id < t.id /\ u.id \in Nat
           /\ \A i \in DOMAIN (<<t>> \o zero) :
                 (<<t>> \o zero)[i] = t \/ \E j \in DOMAIN zero : (<<t>> \o zero)[i] = zero[j]
<1> DEFINE n == Len(zero)
           s == <<t>> \o zero
<1>1. next \in Nat /\ zero \in Seq(TableRec) /\ one \in Seq(TableRec) /\ t \in TableRec
  BY DEF LevelsOK, GoodTable
<1>2. n \in Nat /\ DOMAIN zero = 1 .. n
  BY <1>1, LenProperties
<1>3. <<t>> \in Seq(TableRec) /\ Len(<<t>>) = 1 /\ <<t>>[1] = t
  BY <1>1
<1>4. /\ s \in Seq(TableRec) /\ Len(s) = 1 + n
      /\ \A i \in 1 .. 1 + n : s[i] = IF i <= 1 THEN t ELSE zero[i - 1]
  <2> DEFINE u == <<t>>
  <2>1. u \in Seq(TableRec) /\ Len(u) = 1 /\ u[1] = t
    BY <1>3
  <2> HIDE DEF u
  <2>2. u \o zero \in Seq(TableRec) /\ Len(u \o zero) = Len(u) + Len(zero)
        /\ \A i \in 1 .. Len(u) + Len(zero) : (u \o zero)[i] = IF i <= Len(u) THEN u[i] ELSE zero[i - Len(u)]
    BY <1>1, <2>1, ConcatProperties
  <2>3. \A i \in 1 .. 1 + n : (u \o zero)[i] = IF i <= 1 THEN t ELSE zero[i - 1]
    <3> SUFFICES ASSUME NEW i \in 1 .. 1 + n PROVE (u \o zero)[i] = IF i <= 1 THEN t ELSE zero[i - 1]
      OBVIOUS
    <3>1. i <= 1 => i = 1
      BY <1>2
    <3> QED  BY <2>1, <2>2, <3>1
  <2> QED  BY <2>1, <2>2, <2>3 DEF u
<1> HIDE DEF s
<1>5. DOMAIN s = 1 .. 1 + n
  BY <1>4, LenProperties
<1>6. s[1] = t /\ 1 \in DOMAIN s /\ \A j \in 1 .. n : j + 1 \in DOMAIN s /\ s[j + 1] = zero[j]
  <2>1. 1 \in 1 .. 1 + n
    BY <1>2
  <2>2. ASSUME NEW j \in 1 .. n PROVE j + 1 \in 1 .. 1 + n /\ s[j + 1] = zero[j]
    <3>1. j + 1 \in 1 .. 1 + n /\ ~(j + 1 <= 1) /\ (j + 1) - 1 = j
      BY <1>2
    <3> QED  BY <1>4, <3>1
  <2> QED  BY <1>4, <1>5, <2>1, <2>2
<1>7. \A i \in DOMAIN s : (i = 1 /\ s[i] = t) \/ (i > 1 /\ i - 1 \in 1 .. n /\ s[i] = zero[i - 1])
  <2> SUFFICES ASSUME NEW i \in 1 .. 1 + n
               PROVE  (i = 1 /\ s[i] = t) \/ (i > 1 /\ i - 1 \in 1 .. n /\ s[i] = zero[i - 1])
    BY <1>5
  <2>1. CASE i = 1
    BY <1>6, <2>1
  <2>2. CASE i # 1
    <3>1. i > 1 /\ i - 1 \in 1 .. n /\ ~(i <= 1)
      BY <1>2, <2>2
    <3> QED  BY <1>4, <3>1
  <2> QED  BY <2>1, <2>2
<1>8. \A j \in 1 .. n : GoodTable(zero[j]) /\ zero[j].id < next /\ zero[j].id \in Nat
  <2>1. \A j \in 1 .. n : zero[j] \in TableRec
    BY <1>1, ElementOfSeq
  <2> QED  BY <1>2, <2>1 DEF LevelsOK, TableRec
<1>9. \A j \in DOMAIN one : GoodTable(one[j]) /\ one[j].id < next /\ one[j].id \in Nat
  <2>1. DOMAIN one = 1 .. Len(one)
    BY <1>1, LenProperties
  <2>2. \A j \in 1 .. Len(one) : one[j] \in TableRec
    BY <1>1, ElementOfSeq
  <2> QED  BY <2>1, <2>2 DEF LevelsOK, TableRec
<1>10. LevelsOK(s, one, next + 1)
  <2>1. \A i \in DOMAIN s : GoodTable(s[i]) /\ s[i].id < next + 1
    <3> SUFFICES ASSUME NEW i \in DOMAIN s PROVE GoodTable(s[i]) /\ s[i].id < next + 1
      OBVIOUS
    <3>1. CASE i = 1 /\ s[i] = t
      BY <1>1, <3>1
    <3>2. CASE i > 1 /\ i - 1 \in 1 .. n /\ s[i] = zero[i - 1]
      <4>1. GoodTable(zero[i - 1]) /\ zero[i - 1].id < next /\ zero[i - 1].id \in Nat
        BY <1>8, <3>2
      <4> QED  BY <1>1, <3>2, <4>1
    <3> QED  BY <1>7, <3>1, <3>2
  <2>2. \A i \in DOMAIN one : GoodTable(one[i]) /\ one[i].id < next + 1
    BY <1>1, <1>9
  <2>3. ASSUME NEW i \in DOMAIN s, NEW j \in DOMAIN s, i < j PROVE s[i].id > s[j].id
    <3>1. j > 1 /\ j - 1 \in 1 .. n /\ s[j] = zero[j - 1]
      <4>1. j # 1
        BY <1>5, <1>2, <2>3
      <4> QED  BY <1>7, <4>1
    <3>2. CASE i = 1 /\ s[i] = t
      BY <1>8, <3>1, <3>2
    <3>3. CASE i > 1 /\ i - 1 \in 1 .. n /\ s[i] = zero[i - 1]
      <4>1. i - 1 < j - 1
        BY <1>2, <1>5, <2>3
      <4> QED  BY <1>2, <3>1, <3>3, <4>1 DEF LevelsOK
    <3> QED  BY <1>7, <3>2, <3>3
  <2>4. ASSUME NEW i \in DOMAIN s, NEW j \in DOMAIN one PROVE s[i].id > one[j].id
    <3>1. CASE i = 1 /\ s[i] = t
      BY <1>9, <1>1, <3>1
    <3>2. CASE i > 1 /\ i - 1 \in 1 .. n /\ s[i] = zero[i - 1]
      BY <1>2, <3>2 DEF LevelsOK
    <3> QED  BY <1>7, <3>1, <3>2
  <2>5. next + 1 \in Nat /\ Len(one) <= 1
    BY <1>1 DEF LevelsOK
  <2> QED  BY <1>1, <1>4, <2>1, <2>2, <2>3, <2>4, <2>5 DEF LevelsOK
<1>11. Holdings(s, one) = Holdings(zero, one) \cup {Facts(t)}
  <2>1. \A i \in DOMAIN s : Facts(s[i]) \in {Facts(zero[j]) : j \in DOMAIN zero} \cup {Facts(t)}
    BY <1>2, <1>7
  <2>2. \A j \in DOMAIN zero : Facts(zero[j]) \in {Facts(s[i]) : i \in DOMAIN s}
    BY <1>2, <1>6
  <2>3. Facts(t) \in {Facts(s[i]) : i \in DOMAIN s}
    BY <1>6
  <2> QED  BY <2>1, <2>2, <2>3 DEF Holdings
<1>12. ASSUME NEW u \in Holdings(zero, one) PROVE u.id < t.id /\ u.id \in Nat
  <2>1. CASE \E i \in DOMAIN zero : u = Facts(zero[i])
    BY <1>2, <1>8, <2>1 DEF Facts
  <2>2. CASE \E i \in DOMAIN one : u = Facts(one[i])
    BY <1>9, <2>2 DEF Facts
  <2> QED  BY <1>12, <2>1, <2>2 DEF Holdings
<1> QED  BY <1>2, <1>7, <1>10, <1>11, <1>12 DEF s

\* A flush moves the memtable's entries into the newest table.
LEMMA FlushKeepsLatest ==
    ASSUME NEW m, NEW last, NEW H, LatestFound(m, last, H),
           NEW t, t.holds = m, \A u \in H : u.id < t.id /\ u.id \in Nat, t.id \in Nat
    PROVE  LatestFound(EmptyMap, last, H \cup {Facts(t)})
<1>1. EmptyMap \in Maps /\ last \in Maps /\ \A k \in Keys : EmptyMap[k] = NoEntry
  BY EmptySize DEF EmptyMap, LatestFound
<1>2. ASSUME NEW k \in Keys PROVE Settled(H \cup {Facts(t)}, k, last[k].value)
  <2>1. Facts(t).holds = m /\ Facts(t).id = t.id
    BY DEF Facts
  <2>2. CASE m[k] # NoEntry
    <3>1. last[k] = m[k]
      BY <2>2 DEF LatestFound
    <3>2. \A u \in H \cup {Facts(t)} : u.id <= Facts(t).id
      BY <2>1
    <3> QED  BY <2>1, <2>2, <3>1, <3>2 DEF Settled
  <2>3. CASE m[k] = NoEntry
    <3>1. Settled(H, k, last[k].value)
      BY <2>3 DEF LatestFound
    <3> QED  BY <2>1, <2>3, <3>1 DEF Settled
  <2> QED  BY <2>2, <2>3
<1> QED  BY <1>1, <1>2 DEF LatestFound

-----------------------------------------------------------------------------
(* The sources of a merge                                                  *)

SourcesOK(srcs) ==
    /\ srcs \in Seq(TableRec)
    /\ \A i \in DOMAIN srcs : GoodTable(srcs[i])
    /\ \A i, j \in DOMAIN srcs : i # j => srcs[i].id # srcs[j].id

NewestIn(srcs, k) ==
    LET hits == {i \in DOMAIN srcs : srcs[i].holds[k] # NoEntry}
        newest == CHOOSE i \in hits : \A j \in hits : srcs[j].id <= srcs[i].id
    IN  IF hits = {} THEN NoEntry ELSE srcs[newest].holds[k]
LiveIn(srcs, k) == IF Dropped(NewestIn(srcs, k)) THEN NoEntry ELSE NewestIn(srcs, k)

LEMMA SourceParts ==
    ASSUME NEW srcs, SourcesOK(srcs)
    PROVE  /\ Len(srcs) \in Nat /\ DOMAIN srcs = 1 .. Len(srcs)
           /\ \A i \in DOMAIN srcs :
                 /\ srcs[i].id \in Nat /\ srcs[i].reader \in Reader /\ srcs[i].holds \in Maps
                 /\ TableOK(srcs[i].reader) /\ TableHolds(srcs[i].reader, srcs[i].holds)
                 /\ \A k \in Keys : srcs[i].holds[k] \in Entries \cup {NoEntry}
<1>1. Len(srcs) \in Nat /\ DOMAIN srcs = 1 .. Len(srcs) /\ \A i \in 1 .. Len(srcs) : srcs[i] \in TableRec
  BY LenProperties, ElementOfSeq DEF SourcesOK
<1>2. ASSUME NEW i \in DOMAIN srcs
      PROVE  /\ srcs[i].id \in Nat /\ srcs[i].reader \in Reader /\ srcs[i].holds \in Maps
             /\ TableOK(srcs[i].reader) /\ TableHolds(srcs[i].reader, srcs[i].holds)
             /\ \A k \in Keys : srcs[i].holds[k] \in Entries \cup {NoEntry}
  <2>1. srcs[i].id \in Nat /\ srcs[i].reader \in Reader /\ srcs[i].holds \in Maps
    BY <1>1 DEF TableRec
  <2> QED  BY <2>1 DEF SourcesOK, GoodTable, Maps
<1> QED  BY <1>1, <1>2

\* Among finitely many numbered things one has the highest number.
LEMMA HighestExists ==
    ASSUME NEW srcs, SourcesOK(srcs), NEW S \in SUBSET DOMAIN srcs, S # {}
    PROVE  \E i \in S : \A j \in S : srcs[j].id <= srcs[i].id
<1> DEFINE n == Len(srcs)
           best(c) == \E i \in S : \A j \in S : j <= c => srcs[j].id <= srcs[i].id
           bad == {c \in Nat : ~best(c)}
<1>1. n \in Nat /\ S \subseteq 1 .. n /\ \A i \in S : srcs[i].id \in Nat
  BY SourceParts
<1>2. bad = {}
  <2> SUFFICES ASSUME bad # {} PROVE FALSE
    OBVIOUS
  <2>1. PICK c \in bad : \A d \in bad : c <= d
    <3> HIDE DEF bad
    <3>1. bad \in SUBSET Nat
      BY DEF bad
    <3> QED  BY <3>1, MinExists
  <2>2. c \in Nat /\ ~best(c)
    BY <2>1
  <2>3. c # 0
    <3> SUFFICES ASSUME c = 0 PROVE FALSE
      OBVIOUS
    <3>1. \A j \in S : ~(j <= c)
      BY <1>1
    <3>2. best(c)
      BY <3>1
    <3> QED  BY <2>2, <3>2
  <2>4. best(c - 1)
    <3>1. c - 1 \in Nat /\ ~(c <= c - 1)
      BY <2>2, <2>3
    <3>2. c - 1 \notin bad
      BY <2>1, <3>1
    <3> HIDE DEF best
    <3> QED  BY <3>1, <3>2
  <2>5. PICK i \in S : \A j \in S : j <= c - 1 => srcs[j].id <= srcs[i].id
    BY <2>4
  <2>6. \A j \in S : j <= c => j <= c - 1 \/ j = c
    BY <1>1, <2>2
  <2>7. CASE c \in S /\ srcs[c].id > srcs[i].id
    <3>1. ASSUME NEW j \in S, j <= c PROVE srcs[j].id <= srcs[c].id
      <4> HIDE DEF best, bad
      <4>1. srcs[j].id \in Nat /\ srcs[i].id \in Nat /\ srcs[c].id \in Nat
        BY <1>1, <2>7
      <4>2. CASE j <= c - 1
        <5>1. srcs[j].id <= srcs[i].id
          BY <2>5, <4>2
        <5> QED  BY <2>7, <4>1, <5>1
      <4>3. CASE j = c
        BY <4>1, <4>3
      <4> QED  BY <2>6, <3>1, <4>2, <4>3
    <3>2. best(c)
      BY <2>7, <3>1
    <3> QED  BY <2>2, <3>2
  <2>8. CASE ~(c \in S /\ srcs[c].id > srcs[i].id)
    <3>1. ASSUME NEW j \in S, j <= c PROVE srcs[j].id <= srcs[i].id
      <4> HIDE DEF best, bad
      <4>1. srcs[j].id \in Nat /\ srcs[i].id \in Nat
        BY <1>1
      <4>2. CASE j <= c - 1
        BY <2>5, <4>2
      <4>3. CASE j = c
        <5>1. ~(srcs[j].id > srcs[i].id)
          BY <2>8, <4>3
        <5> QED  BY <4>1, <5>1
      <4> QED  BY <2>6, <3>1, <4>2, <4>3
    <3>2. best(c)
      BY <3>1
    <3> QED  BY <2>2, <3>2
  <2> QED  BY <2>7, <2>8
<1>3. best(n)
  <2> HIDE DEF best
  <2> QED  BY <1>1, <1>2
<1>4. \A j \in S : j <= n
  BY <1>1
<1> QED  BY <1>3, <1>4

LEMMA NewestIs ==
    ASSUME NEW srcs, SourcesOK(srcs), NEW k
    PROVE  \/ NewestIn(srcs, k) = NoEntry /\ \A i \in DOMAIN srcs : srcs[i].holds[k] = NoEntry
           \/ \E i \in DOMAIN srcs :
                 /\ srcs[i].holds[k] # NoEntry /\ NewestIn(srcs, k) = srcs[i].holds[k]
                 /\ \A j \in DOMAIN srcs : srcs[j].holds[k] # NoEntry => srcs[j].id <= srcs[i].id
<1> DEFINE hits == {i \in DOMAIN srcs : srcs[i].holds[k] # NoEntry}
           newest == CHOOSE i \in hits : \A j \in hits : srcs[j].id <= srcs[i].id
<1>1. NewestIn(srcs, k) = IF hits = {} THEN NoEntry ELSE srcs[newest].holds[k]
  BY DEF NewestIn
<1>2. CASE hits = {}
  BY <1>1, <1>2
<1>3. CASE hits # {}
  <2>1. \E i \in hits : \A j \in hits : srcs[j].id <= srcs[i].id
    <3>1. hits \in SUBSET DOMAIN srcs
      OBVIOUS
    <3> HIDE DEF hits
    <3> QED  BY <1>3, <3>1, HighestExists
  <2>2. newest \in hits /\ \A j \in hits : srcs[j].id <= srcs[newest].id
    BY <2>1
  <2> HIDE DEF newest
  <2> QED  BY <1>1, <1>3, <2>2
<1> QED  BY <1>2, <1>3

\* The source with the highest number that holds k decides.
LEMMA NewestFrom ==
    ASSUME NEW srcs, SourcesOK(srcs), NEW k, NEW i \in DOMAIN srcs,
           srcs[i].holds[k] # NoEntry,
           \A j \in DOMAIN srcs : srcs[j].holds[k] # NoEntry => srcs[j].id <= srcs[i].id
    PROVE  NewestIn(srcs, k) = srcs[i].holds[k]
<1>1. PICK j \in DOMAIN srcs :
         /\ srcs[j].holds[k] # NoEntry /\ NewestIn(srcs, k) = srcs[j].holds[k]
         /\ \A l \in DOMAIN srcs : srcs[l].holds[k] # NoEntry => srcs[l].id <= srcs[j].id
  BY NewestIs
<1>2. srcs[j].id <= srcs[i].id /\ srcs[i].id <= srcs[j].id
  BY <1>1
<1>3. srcs[i].id \in Nat /\ srcs[j].id \in Nat
  BY SourceParts
<1>4. i = j
  BY <1>2, <1>3 DEF SourcesOK
<1> QED  BY <1>1, <1>4

LEMMA LiveIs ==
    ASSUME NEW srcs, SourcesOK(srcs), NEW k \in Keys
    PROVE  /\ NewestIn(srcs, k) \in Entries \cup {NoEntry}
           /\ LiveIn(srcs, k) \in Entries \cup {NoEntry}
           /\ LiveIn(srcs, k).value = NewestIn(srcs, k).value
           /\ NewestIn(srcs, k) = NoEntry => LiveIn(srcs, k) = NoEntry
<1>1. NewestIn(srcs, k) \in Entries \cup {NoEntry}
  BY NewestIs, SourceParts
<1>2. NoEntry.value = NoValue
  BY DEF NoEntry
<1>3. NewestIn(srcs, k).kind = "Tombstone" => NewestIn(srcs, k).value = NoValue
  BY <1>1 DEF Entries, Put, Vector, Tombstone, NoEntry
<1> QED  BY <1>1, <1>2, <1>3 DEF LiveIn, Dropped

\* compact_l0_l1 merges every registered table.
LEMMA SourcesAre ==
    ASSUME NEW zero, NEW one, NEW next, LevelsOK(zero, one, next)
    PROVE  /\ SourcesOK(one \o zero)
           /\ {Facts((one \o zero)[i]) : i \in DOMAIN (one \o zero)} = Holdings(zero, one)
           /\ \A i \in DOMAIN (one \o zero) : (one \o zero)[i].id < next
<1> DEFINE s == one \o zero
           m == Len(one)
           n == Len(zero)
<1>1. zero \in Seq(TableRec) /\ one \in Seq(TableRec)
  BY DEF LevelsOK
<1>2. m \in Nat /\ DOMAIN one = 1 .. m /\ n \in Nat /\ DOMAIN zero = 1 .. n
  BY <1>1, LenProperties
<1>3. /\ s \in Seq(TableRec) /\ Len(s) = m + n
      /\ \A i \in 1 .. m + n : s[i] = IF i <= m THEN one[i] ELSE zero[i - m]
  BY <1>1, ConcatProperties
<1> HIDE DEF s
<1>4. DOMAIN s = 1 .. m + n
  BY <1>3, LenProperties
<1>5. ASSUME NEW i \in DOMAIN s
      PROVE  \/ i \in 1 .. m /\ s[i] = one[i]
             \/ i > m /\ i - m \in 1 .. n /\ s[i] = zero[i - m]
  <2>1. CASE i <= m
    BY <1>2, <1>3, <1>4, <2>1
  <2>2. CASE ~(i <= m)
    <3>1. i > m /\ i - m \in 1 .. n
      BY <1>2, <1>4, <2>2
    <3> QED  BY <1>3, <1>4, <2>2, <3>1
  <2> QED  BY <2>1, <2>2
<1>6. \A i \in 1 .. m : i \in DOMAIN s /\ s[i] = one[i]
  <2> SUFFICES ASSUME NEW i \in 1 .. m PROVE i \in 1 .. m + n /\ s[i] = one[i]
    BY <1>4
  <2>1. i \in 1 .. m + n /\ i <= m
    BY <1>2
  <2> QED  BY <1>3, <2>1
<1>7. \A i \in 1 .. n : i + m \in DOMAIN s /\ s[i + m] = zero[i]
  <2> SUFFICES ASSUME NEW i \in 1 .. n PROVE i + m \in 1 .. m + n /\ s[i + m] = zero[i]
    BY <1>4
  <2>1. i + m \in 1 .. m + n /\ ~(i + m <= m) /\ (i + m) - m = i
    BY <1>2
  <2> QED  BY <1>3, <2>1
<1>8. \A i \in DOMAIN s : GoodTable(s[i]) /\ s[i].id < next
  BY <1>2, <1>5 DEF LevelsOK
<1>9. ASSUME NEW i \in DOMAIN s, NEW j \in DOMAIN s, i < j PROVE s[i].id # s[j].id
  <2>0. /\ \A a \in 1 .. n : zero[a].id \in Nat
        /\ \A a \in 1 .. m : one[a].id \in Nat
    <3>1. (\A a \in 1 .. n : zero[a] \in TableRec) /\ (\A a \in 1 .. m : one[a] \in TableRec)
      BY <1>1, ElementOfSeq
    <3> QED  BY <3>1 DEF TableRec
  <2>1. CASE i \in 1 .. m /\ s[i] = one[i]
    <3>1. j > m /\ j - m \in 1 .. n /\ s[j] = zero[j - m]
      <4>1. m <= 1
        BY DEF LevelsOK
      <4>2. ~(j \in 1 .. m)
        BY <1>2, <1>9, <2>1, <4>1
      <4> QED  BY <1>5, <4>2
    <3>2. s[j].id > s[i].id
      BY <1>2, <2>1, <3>1 DEF LevelsOK
    <3> QED  BY <2>0, <2>1, <3>1, <3>2
  <2>2. CASE i > m /\ i - m \in 1 .. n /\ s[i] = zero[i - m]
    <3>1. j > m /\ j - m \in 1 .. n /\ s[j] = zero[j - m]
      <4>1. ~(j \in 1 .. m)
        BY <1>2, <1>4, <1>9, <2>2
      <4> QED  BY <1>5, <4>1
    <3>2. i - m < j - m
      BY <1>2, <1>4, <1>9
    <3>3. s[i].id > s[j].id
      BY <1>2, <2>2, <3>1, <3>2 DEF LevelsOK
    <3> QED  BY <2>0, <2>2, <3>1, <3>3
  <2> QED  BY <1>5, <2>1, <2>2
<1>10. \A i, j \in DOMAIN s : i # j => s[i].id # s[j].id
  <2> SUFFICES ASSUME NEW i \in DOMAIN s, NEW j \in DOMAIN s, i # j PROVE s[i].id # s[j].id
    OBVIOUS
  <2>1. i < j \/ j < i
    BY <1>2, <1>4
  <2> QED  BY <1>9, <2>1
<1>11. {Facts(s[i]) : i \in DOMAIN s} = Holdings(zero, one)
  <2>1. \A i \in DOMAIN s : Facts(s[i]) \in Holdings(zero, one)
    BY <1>2, <1>5 DEF Holdings
  <2>2. \A i \in DOMAIN one : Facts(one[i]) \in {Facts(s[j]) : j \in DOMAIN s}
    BY <1>2, <1>6
  <2>3. \A i \in DOMAIN zero : Facts(zero[i]) \in {Facts(s[j]) : j \in DOMAIN s}
    BY <1>2, <1>7
  <2> QED  BY <2>1, <2>2, <2>3 DEF Holdings
<1>12. SourcesOK(s)
  BY <1>3, <1>8, <1>10 DEF SourcesOK
<1> QED  BY <1>8, <1>11, <1>12 DEF s

-----------------------------------------------------------------------------
(* The iterators and the heap of a merge                                   *)

In(srcs, its, i) == IterIn(srcs[i].reader, its[i])
FrontOf(srcs, its, i) == Front(srcs[i].reader, its[i])
EntryOf(srcs, its, i) == HeapEntry(srcs, i, FrontOf(srcs, its, i))

\* Every iterator stands on an item or has come to its end.
ItersOK(srcs, its) ==
    /\ its = [i \in DOMAIN srcs |-> its[i]]
    /\ \A i \in DOMAIN srcs : In(srcs, its, i) \/ IterEnd(srcs[i].reader, its[i])

\* The heap holds the item of every iterator, but for the sources in out.
HeapIs(srcs, its, hp, out) ==
    hp = {EntryOf(srcs, its, i) : i \in {j \in DOMAIN srcs : In(srcs, its, j) /\ j \notin out}}

\* Whatever a source holds is below key or still to come.
NoneSkipped(srcs, its, key) ==
    \A i \in DOMAIN srcs : \A k, e : InTable(srcs[i].reader, k, e) =>
        k <= key \/ (In(srcs, its, i) /\ k >= FrontOf(srcs, its, i).key)

LEMMA InOrEnd ==
    ASSUME NEW r, NEW it, IterEnd(r, it)
    PROVE  ~IterIn(r, it)
<1>1. ~it.loaded
  BY DEF IterEnd
<1>2. IterIn(r, it) => it.loaded
  BY DEF IterIn
<1> QED  BY <1>1, <1>2

LEMMA TableKeys ==
    ASSUME NEW r, TableOK(r), NEW k, NEW e, InTable(r, k, e)
    PROVE  k \in Keys /\ k \in Nat /\ k > 0 /\ e \in Entries
<1>1. PICK i \in BlocksOf(r) : InBlock(TBlk(r, i), k, e)
  BY DEF InTable
<1>2. PICK p \in DOMAIN TBlk(r, i) : TBlk(r, i)[p].key = k /\ TBlk(r, i)[p].entry = e
  BY <1>1 DEF InBlock
<1> QED  BY <1>2, TableParts

LEMMA RealEntries == \A e \in Entries : e # NoEntry /\ e # Corruption
BY DEF Entries, Put, Vector, Tombstone, NoEntry, Corruption

LEMMA FrontParts ==
    ASSUME NEW srcs, SourcesOK(srcs), NEW its, NEW i \in DOMAIN srcs, In(srcs, its, i)
    PROVE  LET g == FrontOf(srcs, its, i)
           IN  /\ g \in Item /\ g.key \in Keys /\ g.key \in Nat /\ g.key > 0 /\ g.entry \in Entries
               /\ g.entry # NoEntry /\ g.entry # Corruption
               /\ srcs[i].holds[g.key] = g.entry
               /\ EntryOf(srcs, its, i) = [key |-> g.key, entry |-> g.entry, source_idx |-> i,
                                           sequence |-> srcs[i].id]
<1> DEFINE r == srcs[i].reader
           it == its[i]
           g == Front(r, it)
<1>1. TableOK(r) /\ TableHolds(r, srcs[i].holds)
  BY SourceParts
<1>2. it.block_idx \in BlocksOf(r) /\ it.pos \in DOMAIN TBlk(r, it.block_idx)
  BY DEF In, IterIn
<1>3. g \in Item /\ g.key \in Keys /\ g.key \in Nat /\ g.key > 0 /\ g.entry \in Entries
  BY <1>1, <1>2, TableParts DEF Front
<1>4. InTable(r, g.key, g.entry)
  BY <1>2 DEF InTable, InBlock, Front
<1>5. srcs[i].holds[g.key] = g.entry
  BY <1>1, <1>3, <1>4 DEF TableHolds
<1>6. g.entry # NoEntry /\ g.entry # Corruption
  BY <1>3, RealEntries
<1>7. FrontOf(srcs, its, i) = g
  BY DEF FrontOf
<1> HIDE DEF g
<1>8. EntryOf(srcs, its, i) = [key |-> g.key, entry |-> g.entry, source_idx |-> i,
                               sequence |-> srcs[i].id]
  BY <1>7 DEF EntryOf, HeapEntry
<1> QED  BY <1>3, <1>5, <1>6, <1>7, <1>8

\* Taking an entry out of the heap leaves out its source.
LEMMA HeapMinus ==
    ASSUME NEW srcs, SourcesOK(srcs), NEW its, NEW hp, NEW out, HeapIs(srcs, its, hp, out),
           NEW i \in DOMAIN srcs, In(srcs, its, i), i \notin out
    PROVE  HeapIs(srcs, its, hp \ {EntryOf(srcs, its, i)}, out \cup {i})
<1>1. \A j \in DOMAIN srcs : In(srcs, its, j) /\ EntryOf(srcs, its, j) = EntryOf(srcs, its, i) => j = i
  <2> SUFFICES ASSUME NEW j \in DOMAIN srcs, In(srcs, its, j), EntryOf(srcs, its, j) = EntryOf(srcs, its, i)
               PROVE  j = i
    OBVIOUS
  <2>1. EntryOf(srcs, its, j).source_idx = j /\ EntryOf(srcs, its, i).source_idx = i
    BY DEF EntryOf, HeapEntry
  <2> QED  BY <2>1
<1> QED  BY <1>1 DEF HeapIs

\* What is on top: a smallest key, and for that key the highest number.
TopOf(hp) == CHOOSE g \in hp : \A h \in hp : Above(g, h)

LEMMA TopIs ==
    ASSUME NEW srcs, SourcesOK(srcs), NEW its, NEW hp, NEW out, HeapIs(srcs, its, hp, out), hp # {}
    PROVE  \E i \in DOMAIN srcs :
              /\ In(srcs, its, i) /\ i \notin out /\ TopOf(hp) = EntryOf(srcs, its, i)
              /\ \A j \in DOMAIN srcs : In(srcs, its, j) /\ j \notin out =>
                    /\ FrontOf(srcs, its, i).key <= FrontOf(srcs, its, j).key
                    /\ FrontOf(srcs, its, i).key = FrontOf(srcs, its, j).key => srcs[j].id <= srcs[i].id
<1> DEFINE S == {j \in DOMAIN srcs : In(srcs, its, j) /\ j \notin out}
           key(j) == FrontOf(srcs, its, j).key
<1>1. hp = {EntryOf(srcs, its, i) : i \in S} /\ S # {}
  BY DEF HeapIs
<1>2. \A i \in S : /\ key(i) \in Nat /\ srcs[i].id \in Nat
                   /\ EntryOf(srcs, its, i).key = key(i) /\ EntryOf(srcs, its, i).sequence = srcs[i].id
  <2> SUFFICES ASSUME NEW i \in S
               PROVE  /\ key(i) \in Nat /\ srcs[i].id \in Nat
                      /\ EntryOf(srcs, its, i).key = key(i) /\ EntryOf(srcs, its, i).sequence = srcs[i].id
    OBVIOUS
  <2>1. key(i) \in Nat
    BY FrontParts
  <2>2. srcs[i].id \in Nat
    BY SourceParts
  <2> QED  BY <2>1, <2>2 DEF EntryOf, HeapEntry
<1>3. S \subseteq DOMAIN srcs
  OBVIOUS
<1> HIDE DEF S, key
<1> DEFINE K == {key(i) : i \in S}
<1>4. PICK m \in K : \A x \in K : m <= x
  <2>1. K \in SUBSET Nat /\ K # {}
    BY <1>1, <1>2
  <2> HIDE DEF K
  <2> QED  BY <2>1, MinExists
<1> DEFINE T == {i \in S : key(i) = m}
<1>5. T # {} /\ T \in SUBSET DOMAIN srcs
  BY <1>3, <1>4
<1>6. PICK i \in T : \A j \in T : srcs[j].id <= srcs[i].id
  <2> HIDE DEF T
  <2> QED  BY <1>5, HighestExists
<1>7. i \in S /\ \A j \in S : key(i) < key(j) \/ (key(i) = key(j) /\ srcs[i].id >= srcs[j].id)
  <2>1. i \in S /\ key(i) = m
    BY <1>6
  <2>2. ASSUME NEW j \in S PROVE key(i) < key(j) \/ (key(i) = key(j) /\ srcs[i].id >= srcs[j].id)
    <3>1. m <= key(j) /\ key(j) \in Nat /\ m \in Nat
      BY <1>2, <1>4
    <3>2. CASE key(j) = m
      <4>1. srcs[j].id <= srcs[i].id /\ srcs[j].id \in Nat /\ srcs[i].id \in Nat
        BY <1>2, <1>6, <2>1, <3>2
      <4> QED  BY <2>1, <3>2, <4>1
    <3>3. CASE key(j) # m
      BY <2>1, <3>1, <3>3
    <3> QED  BY <3>2, <3>3
  <2> QED  BY <2>1, <2>2
<1>8. EntryOf(srcs, its, i) \in hp /\ \A h \in hp : Above(EntryOf(srcs, its, i), h)
  <2>1. ASSUME NEW h \in hp PROVE Above(EntryOf(srcs, its, i), h)
    <3>1. PICK j \in S : h = EntryOf(srcs, its, j)
      BY <1>1
    <3> QED  BY <1>2, <1>7, <3>1 DEF Above
  <2> QED  BY <1>1, <1>7, <2>1
<1>9. TopOf(hp) \in hp /\ \A h \in hp : Above(TopOf(hp), h)
  BY <1>8 DEF TopOf
<1>10. PICK t \in S : TopOf(hp) = EntryOf(srcs, its, t)
  BY <1>1, <1>9
<1>11. \A j \in S : key(t) <= key(j) /\ (key(t) = key(j) => srcs[j].id <= srcs[t].id)
  <2> SUFFICES ASSUME NEW j \in S PROVE key(t) <= key(j) /\ (key(t) = key(j) => srcs[j].id <= srcs[t].id)
    OBVIOUS
  <2>1. Above(EntryOf(srcs, its, t), EntryOf(srcs, its, j))
    BY <1>1, <1>9, <1>10
  <2>2. key(t) < key(j) \/ (key(t) = key(j) /\ srcs[t].id >= srcs[j].id)
    BY <1>2, <2>1 DEF Above
  <2>3. key(t) \in Nat /\ key(j) \in Nat /\ srcs[t].id \in Nat /\ srcs[j].id \in Nat
    BY <1>2
  <2> QED  BY <2>2, <2>3
<1>12. t \in DOMAIN srcs /\ In(srcs, its, t) /\ t \notin out
  BY DEF S
<1>13. \A j \in DOMAIN srcs : In(srcs, its, j) /\ j \notin out => j \in S
  BY DEF S
<1> QED  BY <1>10, <1>11, <1>12, <1>13 DEF key

\* refill: what the iterator of a source yields next, and the heap with it.
NextOf(srcs, its, i) == iter_next(srcs[i].reader, its[i])
Advance(srcs, its, i) == [its EXCEPT ![i] = NextOf(srcs, its, i).it]
Gone(srcs, its, i) == NextOf(srcs, its, i).item \in {EndItem, ErrItem}
Broken(srcs, its, i) == NextOf(srcs, its, i).item = ErrItem
Added(srcs, its, i) == IF Gone(srcs, its, i) THEN {} ELSE {HeapEntry(srcs, i, NextOf(srcs, its, i).item)}

\* The iterators after one of them moved on.
Moved(srcs, its, its2, i) ==
    /\ ItersOK(srcs, its2)
    /\ \A j \in DOMAIN srcs : j # i => its2[j] = its[j]
    /\ In(srcs, its2, i) => FrontOf(srcs, its, i).key < FrontOf(srcs, its2, i).key

LEMMA OthersKept ==
    ASSUME NEW srcs, NEW its, NEW its2, NEW i, NEW j, its2[j] = its[j]
    PROVE  /\ In(srcs, its2, j) <=> In(srcs, its, j)
           /\ FrontOf(srcs, its2, j) = FrontOf(srcs, its, j)
           /\ EntryOf(srcs, its2, j) = EntryOf(srcs, its, j)
BY DEF In, FrontOf, EntryOf

LEMMA SourceAdvances ==
    ASSUME NEW srcs, SourcesOK(srcs), NEW its, ItersOK(srcs, its),
           NEW i \in DOMAIN srcs, In(srcs, its, i)
    PROVE  LET its2 == Advance(srcs, its, i)
           IN  /\ Moved(srcs, its, its2, i)
               /\ Gone(srcs, its, i) => ~In(srcs, its2, i)
               /\ ~Gone(srcs, its, i) => /\ In(srcs, its2, i)
                                        /\ NextOf(srcs, its, i).item = FrontOf(srcs, its2, i)
               /\ ~Broken(srcs, its, i) => \A k, e : InTable(srcs[i].reader, k, e) =>
                     \/ k <= FrontOf(srcs, its, i).key
                     \/ In(srcs, its2, i) /\ k >= FrontOf(srcs, its2, i).key
<1> DEFINE r == srcs[i].reader
           it == its[i]
           res == NextOf(srcs, its, i)
           its2 == Advance(srcs, its, i)
           low == FrontOf(srcs, its, i).key
<1>1. TableOK(r) /\ IterIn(r, it)
  BY SourceParts DEF In
<1>2. Advanced(r, it, res)
  BY <1>1, IterNext DEF NextOf
<1>3. KeyAt(r, it) = low /\ low \in Nat /\ low > 0
  <2>1. it # iter
    <3>1. it.loaded /\ ~iter.loaded
      BY <1>1 DEF IterIn, iter
    <3> QED  BY <3>1
  <2>2. low \in Nat /\ low > 0
    BY FrontParts
  <2> QED  BY <2>1, <2>2 DEF KeyAt, FrontOf
<1>4. its2[i] = res.it /\ \A j \in DOMAIN srcs : j # i => its2[j] = its[j]
  BY DEF Advance, ItersOK
<1>5. its2 = [j \in DOMAIN srcs |-> its2[j]]
  BY DEF Advance, ItersOK
<1> HIDE DEF its2, low, res
<1>6. (In(srcs, its2, i) <=> IterIn(r, res.it)) /\ FrontOf(srcs, its2, i) = Front(r, res.it)
  BY <1>4 DEF In, FrontOf
<1>7. IterIn(r, res.it) \/ IterEnd(r, res.it)
  BY <1>2 DEF Advanced
<1>8. ItersOK(srcs, its2)
  <2>1. ASSUME NEW j \in DOMAIN srcs PROVE In(srcs, its2, j) \/ IterEnd(srcs[j].reader, its2[j])
    BY <1>4, <1>6, <1>7 DEF ItersOK, In
  <2> QED  BY <1>5, <2>1 DEF ItersOK
<1>9. IterIn(r, res.it) => res.item = Front(r, res.it) /\ low < res.item.key
                          /\ NothingUpTo(r, low, res.item.key)
  BY <1>2, <1>3, InOrEnd DEF Advanced
<1>10. EndItem.key = 0 /\ ErrItem.key = 0
  BY DEF EndItem, ErrItem
<1>11. Gone(srcs, its, i) <=> ~IterIn(r, res.it)
  <2>1. Gone(srcs, its, i) <=> res.item \in {EndItem, ErrItem}
    BY DEF Gone, res
  <2>2. IterIn(r, res.it) => ~(res.item \in {EndItem, ErrItem})
    <3> SUFFICES ASSUME IterIn(r, res.it), res.item \in {EndItem, ErrItem} PROVE FALSE
      OBVIOUS
    <3>1. res.item.key = 0
      BY <1>10
    <3> QED  BY <1>3, <1>9, <3>1
  <2>3. ~IterIn(r, res.it) => res.item \in {EndItem, ErrItem}
    BY <1>2 DEF Advanced
  <2> QED  BY <2>1, <2>2, <2>3
<1>12. Moved(srcs, its, its2, i)
  BY <1>4, <1>6, <1>8, <1>9 DEF Moved, low
<1>13. ASSUME ~Broken(srcs, its, i), NEW k, NEW e, InTable(r, k, e)
       PROVE  k <= low \/ (In(srcs, its2, i) /\ k >= FrontOf(srcs, its2, i).key)
  <2>1. res.item # ErrItem
    BY <1>13 DEF Broken, res
  <2>2. CASE IterIn(r, res.it)
    BY <1>6, <1>9, <1>13, <2>2 DEF NothingUpTo
  <2>3. CASE ~IterIn(r, res.it)
    <3>1. NothingBehind(r, low)
      BY <1>2, <1>3, <2>1, <2>3 DEF Advanced
    <3> QED  BY <1>13, <3>1 DEF NothingBehind
  <2> QED  BY <2>2, <2>3
<1>14. ~Gone(srcs, its, i) => In(srcs, its2, i) /\ res.item = FrontOf(srcs, its2, i)
  BY <1>6, <1>9, <1>11
<1> QED  BY <1>6, <1>11, <1>12, <1>13, <1>14 DEF its2, res, low

\* The source that was left out of the heap is in it again, or at its end.
LEMMA HeapRefilled ==
    ASSUME NEW srcs, SourcesOK(srcs), NEW its, ItersOK(srcs, its),
           NEW i \in DOMAIN srcs, In(srcs, its, i), NEW out, i \notin out,
           NEW rest, HeapIs(srcs, its, rest, out \cup {i})
    PROVE  HeapIs(srcs, Advance(srcs, its, i), rest \cup Added(srcs, its, i), out)
<1> DEFINE its2 == Advance(srcs, its, i)
           S == {j \in DOMAIN srcs : In(srcs, its, j) /\ j \notin out \cup {i}}
           T == {j \in DOMAIN srcs : In(srcs, its2, j) /\ j \notin out}
<1>1. rest = {EntryOf(srcs, its, j) : j \in S}
  BY DEF HeapIs
<1>2. /\ Moved(srcs, its, its2, i)
      /\ Gone(srcs, its, i) => ~In(srcs, its2, i)
      /\ ~Gone(srcs, its, i) => /\ In(srcs, its2, i)
                               /\ NextOf(srcs, its, i).item = FrontOf(srcs, its2, i)
  BY SourceAdvances
<1> HIDE DEF its2
<1>3. \A j \in DOMAIN srcs : j # i =>
         /\ In(srcs, its2, j) <=> In(srcs, its, j)
         /\ EntryOf(srcs, its2, j) = EntryOf(srcs, its, j)
  BY <1>2, OthersKept DEF Moved
<1>4. \A j \in DOMAIN srcs : j # i => (j \in S <=> j \in T)
  BY <1>3
<1>5. i \notin S /\ (i \in T <=> ~Gone(srcs, its, i))
  BY <1>2
<1>6. ~Gone(srcs, its, i) => HeapEntry(srcs, i, NextOf(srcs, its, i).item) = EntryOf(srcs, its2, i)
  BY <1>2 DEF EntryOf
<1>7. S \subseteq DOMAIN srcs /\ T \subseteq DOMAIN srcs
  OBVIOUS
<1> HIDE DEF S, T
<1>8. rest \cup Added(srcs, its, i) = {EntryOf(srcs, its2, j) : j \in T}
  <2>1. CASE Gone(srcs, its, i)
    <3>1. Added(srcs, its, i) = {} /\ S = T
      BY <1>4, <1>5, <1>7, <2>1 DEF Added
    <3>2. \A j \in S : EntryOf(srcs, its2, j) = EntryOf(srcs, its, j)
      BY <1>3, <1>5, <1>7
    <3> QED  BY <1>1, <3>1, <3>2
  <2>2. CASE ~Gone(srcs, its, i)
    <3>1. Added(srcs, its, i) = {EntryOf(srcs, its2, i)} /\ T = S \cup {i}
      BY <1>4, <1>5, <1>6, <1>7, <2>2 DEF Added
    <3>2. \A j \in S : EntryOf(srcs, its2, j) = EntryOf(srcs, its, j)
      BY <1>3, <1>5, <1>7
    <3> QED  BY <1>1, <3>1, <3>2
  <2> QED  BY <2>1, <2>2
<1> QED  BY <1>8 DEF HeapIs, its2, T

LEMMA SkipsNothing ==
    ASSUME NEW srcs, SourcesOK(srcs), NEW its, ItersOK(srcs, its),
           NEW i \in DOMAIN srcs, In(srcs, its, i), ~Broken(srcs, its, i),
           NEW key \in Nat, FrontOf(srcs, its, i).key <= key, NoneSkipped(srcs, its, key)
    PROVE  NoneSkipped(srcs, Advance(srcs, its, i), key)
<1> DEFINE its2 == Advance(srcs, its, i)
           low == FrontOf(srcs, its, i).key
<1>1. /\ Moved(srcs, its, its2, i)
      /\ \A k, e : InTable(srcs[i].reader, k, e) =>
            \/ k <= low
            \/ In(srcs, its2, i) /\ k >= FrontOf(srcs, its2, i).key
  BY SourceAdvances
<1>2. low \in Nat
  BY FrontParts
<1> HIDE DEF its2, low
<1> SUFFICES ASSUME NEW j \in DOMAIN srcs, NEW k, NEW e, InTable(srcs[j].reader, k, e)
             PROVE  k <= key \/ (In(srcs, its2, j) /\ k >= FrontOf(srcs, its2, j).key)
  BY DEF NoneSkipped, its2
<1>3. CASE j = i
  <2>1. k \in Nat
    BY SourceParts, TableKeys
  <2>2. low <= key
    BY DEF low
  <2> QED  BY <1>1, <1>2, <1>3, <2>1, <2>2
<1>4. CASE j # i
  <2>1. its2[j] = its[j]
    BY <1>1, <1>4 DEF Moved
  <2>2. k <= key \/ (In(srcs, its, j) /\ k >= FrontOf(srcs, its, j).key)
    BY DEF NoneSkipped
  <2> QED  BY <2>1, <2>2, OthersKept
<1> QED  BY <1>3, <1>4

\* MergingIterator::new when no source fails.
Started(srcs) == [i \in DOMAIN srcs |-> First(srcs, i).it]
StartHeap(srcs) == {HeapEntry(srcs, i, First(srcs, i).item) :
                       i \in {j \in DOMAIN srcs : First(srcs, j).item # EndItem}}

LEMMA MergeStarts ==
    ASSUME NEW srcs, SourcesOK(srcs), ~NewFails(srcs)
    PROVE  LET its == Started(srcs)
           IN  /\ ItersOK(srcs, its) /\ HeapIs(srcs, its, StartHeap(srcs), {})
               /\ NoneSkipped(srcs, its, 0)
               /\ \A i \in DOMAIN srcs : In(srcs, its, i) => FrontOf(srcs, its, i).key > 0
<1> DEFINE its == Started(srcs)
<1>1. ASSUME NEW i \in DOMAIN srcs
      PROVE  /\ its[i] = First(srcs, i).it
             /\ In(srcs, its, i) \/ IterEnd(srcs[i].reader, its[i])
             /\ In(srcs, its, i) <=> First(srcs, i).item # EndItem
             /\ In(srcs, its, i) => /\ First(srcs, i).item = FrontOf(srcs, its, i)
                                    /\ FrontOf(srcs, its, i).key > 0
             /\ \A k, e : InTable(srcs[i].reader, k, e) =>
                   k <= 0 \/ (In(srcs, its, i) /\ k >= FrontOf(srcs, its, i).key)
  <2> DEFINE r == srcs[i].reader
             res == First(srcs, i)
  <2>1. TableOK(r) /\ Advanced(r, iter, res)
    BY SourceParts, IterNext DEF First
  <2>2. res.item # ErrItem
    BY DEF NewFails
  <2>3. its[i] = res.it
    BY DEF Started
  <2>4. KeyAt(r, iter) = 0
    BY DEF KeyAt
  <2> HIDE DEF its, res
  <2>5. (In(srcs, its, i) <=> IterIn(r, res.it)) /\ FrontOf(srcs, its, i) = Front(r, res.it)
    BY <2>3 DEF In, FrontOf
  <2>6. CASE IterIn(r, res.it)
    <3>1. res.item = Front(r, res.it) /\ 0 < res.item.key /\ NothingUpTo(r, 0, res.item.key)
      BY <2>1, <2>4, <2>6, InOrEnd DEF Advanced
    <3>2. res.item # EndItem
      BY <3>1 DEF EndItem
    <3> QED  BY <2>3, <2>5, <2>6, <3>1, <3>2 DEF NothingUpTo, res
  <2>7. CASE ~IterIn(r, res.it)
    <3>1. res.item = EndItem /\ IterEnd(r, res.it) /\ NothingBehind(r, 0)
      BY <2>1, <2>2, <2>4, <2>7 DEF Advanced
    <3> QED  BY <2>3, <2>5, <2>7, <3>1 DEF NothingBehind, res
  <2> QED  BY <2>6, <2>7
<1>2. its = [i \in DOMAIN srcs |-> its[i]]
  BY DEF Started
<1> HIDE DEF its
<1>3. ItersOK(srcs, its)
  BY <1>1, <1>2 DEF ItersOK
<1>4. HeapIs(srcs, its, StartHeap(srcs), {})
  <2> DEFINE S == {j \in DOMAIN srcs : In(srcs, its, j) /\ j \notin {}}
             T == {j \in DOMAIN srcs : First(srcs, j).item # EndItem}
  <2>1. S = T
    BY <1>1
  <2>2. \A i \in S : EntryOf(srcs, its, i) = HeapEntry(srcs, i, First(srcs, i).item)
    BY <1>1 DEF EntryOf
  <2>3. StartHeap(srcs) = {HeapEntry(srcs, i, First(srcs, i).item) : i \in T}
    BY DEF StartHeap
  <2> HIDE DEF S, T
  <2>4. StartHeap(srcs) = {EntryOf(srcs, its, i) : i \in S}
    BY <2>1, <2>2, <2>3
  <2> QED  BY <2>4 DEF HeapIs, S
<1>5. NoneSkipped(srcs, its, 0)
  BY <1>1 DEF NoneSkipped
<1> QED  BY <1>1, <1>3, <1>4, <1>5 DEF its

-----------------------------------------------------------------------------
(* The merge                                                               *)

\* The writer holds what f says of the keys of K, and nothing else.
Written(w, f, K) == \A k, e : Stored(w, k, e) <=> (k \in K /\ e = f[k] /\ e # NoEntry)
LiveMap(srcs) == [k \in Keys |-> LiveIn(srcs, k)]
UpTo(key) == {k \in Keys : k <= key}
Below(key) == {k \in Keys : k < key}

\* Between two calls of next.
Resting(srcs, its, hp, pend, low, w) ==
    /\ HeapIs(srcs, its, hp, {})
    /\ low \in Nat /\ w.last_key <= low /\ Written(w, LiveMap(srcs), UpTo(low))
    /\ ~pend => /\ NoneSkipped(srcs, its, low)
                /\ \A i \in DOMAIN srcs : In(srcs, its, i) => FrontOf(srcs, its, i).key > low

\* In the middle of one: the winner has been taken.
Taken(srcs, its, hp, pend, win, w) ==
    /\ win.source_idx \in DOMAIN srcs /\ In(srcs, its, win.source_idx)
    /\ win = EntryOf(srcs, its, win.source_idx)
    /\ HeapIs(srcs, its, hp, {win.source_idx})
    /\ win.entry = NewestIn(srcs, win.key)
    /\ w.last_key < win.key /\ Written(w, LiveMap(srcs), Below(win.key))
    /\ \A i \in DOMAIN srcs : In(srcs, its, i) => FrontOf(srcs, its, i).key >= win.key
    /\ ~pend => NoneSkipped(srcs, its, win.key)

\* Older entries for the winner's key are gone.
Drained(srcs, its, pend, win) ==
    ~pend => \A i \in DOMAIN srcs : In(srcs, its, i) /\ i # win.source_idx =>
                FrontOf(srcs, its, i).key > win.key

MergeOK(srcs, its, w) == SourcesOK(srcs) /\ ItersOK(srcs, its) /\ WriterOK(w)

LEMMA LiveMapIs ==
    ASSUME NEW srcs, SourcesOK(srcs)
    PROVE  LiveMap(srcs) \in Maps /\ \A k \in Keys : LiveMap(srcs)[k] = LiveIn(srcs, k)
BY LiveIs DEF LiveMap, Maps

LEMMA Unheld ==
    ASSUME NEW srcs, SourcesOK(srcs), NEW k \in Keys,
           \A i \in DOMAIN srcs : \A e : ~InTable(srcs[i].reader, k, e)
    PROVE  LiveMap(srcs)[k] = NoEntry
<1>1. ASSUME NEW i \in DOMAIN srcs PROVE srcs[i].holds[k] = NoEntry
  <2>1. TableHolds(srcs[i].reader, srcs[i].holds)
    BY SourceParts
  <2> QED  BY <2>1 DEF TableHolds
<1>2. NewestIn(srcs, k) = NoEntry
  BY <1>1, NewestIs
<1> QED  BY <1>2, LiveMapIs, LiveIs

\* A writer that was just created.
LEMMA NothingWritten ==
    ASSUME NEW n \in Nat, NEW f, NEW K \in SUBSET Keys, \A k \in K : f[k] = NoEntry
    PROVE  WriterOK(create(n)) /\ create(n).last_key = 0 /\ Written(create(n), f, K)
<1>1. WriterOK(create(n)) /\ create(n).last_key = 0
  BY WriterCreated
<1>2. ASSUME NEW k, NEW e, Stored(create(n), k, e) PROVE FALSE
  <2>1. k \in Nat /\ k > 0 /\ k <= create(n).last_key
    BY <1>1, <1>2, StoredKeys
  <2> QED  BY <1>1, <2>1
<1> QED  BY <1>1, <1>2 DEF Written

LEMMA LastKeyNat ==
    ASSUME NEW w, WriterOK(w)
    PROVE  w.last_key \in Nat
<1>1. w.last_key \in Keys \cup {0}
  BY DEF WriterOK, Writer
<1>2. Keys \cup {0} \subseteq Nat
  BY MemtableAssumption
<1> QED  BY <1>1, <1>2

LEMMA WinnerTaken ==
    ASSUME NEW srcs, NEW its, NEW hp, NEW pend \in BOOLEAN, NEW low, NEW w,
           MergeOK(srcs, its, w), Resting(srcs, its, hp, pend, low, w), ~pend, hp # {}
    PROVE  Taken(srcs, its, hp \ {TopOf(hp)}, pend, TopOf(hp), w)
<1> DEFINE win == TopOf(hp)
<1>1. SourcesOK(srcs) /\ ItersOK(srcs, its) /\ WriterOK(w) /\ HeapIs(srcs, its, hp, {})
  BY DEF MergeOK, Resting
<1>2. PICK i \in DOMAIN srcs :
         /\ In(srcs, its, i) /\ win = EntryOf(srcs, its, i)
         /\ \A j \in DOMAIN srcs : In(srcs, its, j) =>
               /\ FrontOf(srcs, its, i).key <= FrontOf(srcs, its, j).key
               /\ FrontOf(srcs, its, i).key = FrontOf(srcs, its, j).key => srcs[j].id <= srcs[i].id
  <2>1. \E i \in DOMAIN srcs :
              /\ In(srcs, its, i) /\ i \notin {} /\ TopOf(hp) = EntryOf(srcs, its, i)
              /\ \A j \in DOMAIN srcs : In(srcs, its, j) /\ j \notin {} =>
                    /\ FrontOf(srcs, its, i).key <= FrontOf(srcs, its, j).key
                    /\ FrontOf(srcs, its, i).key = FrontOf(srcs, its, j).key => srcs[j].id <= srcs[i].id
    BY <1>1, TopIs
  <2> QED  BY <2>1
<1> DEFINE key == FrontOf(srcs, its, i).key
<1>3. /\ win.key = key /\ win.entry = FrontOf(srcs, its, i).entry /\ win.source_idx = i
      /\ key \in Keys /\ key \in Nat /\ key > 0
      /\ srcs[i].holds[key] = win.entry /\ win.entry # NoEntry
  <2>1. /\ FrontOf(srcs, its, i).key \in Keys /\ FrontOf(srcs, its, i).key \in Nat
        /\ FrontOf(srcs, its, i).key > 0 /\ FrontOf(srcs, its, i).entry # NoEntry
        /\ srcs[i].holds[FrontOf(srcs, its, i).key] = FrontOf(srcs, its, i).entry
        /\ EntryOf(srcs, its, i) = [key |-> FrontOf(srcs, its, i).key,
                                    entry |-> FrontOf(srcs, its, i).entry, source_idx |-> i,
                                    sequence |-> srcs[i].id]
    BY <1>1, <1>2, FrontParts
  <2> QED  BY <1>2, <2>1
<1>4. low \in Nat /\ low < key /\ NoneSkipped(srcs, its, low)
      /\ w.last_key <= low /\ Written(w, LiveMap(srcs), UpTo(low))
  BY <1>2 DEF Resting
<1>5. \A j \in DOMAIN srcs : In(srcs, its, j) =>
         /\ FrontOf(srcs, its, j).key >= key /\ FrontOf(srcs, its, j).key \in Nat
         /\ key = FrontOf(srcs, its, j).key => srcs[j].id <= srcs[i].id
  <2>1. \A j \in DOMAIN srcs : In(srcs, its, j) => FrontOf(srcs, its, j).key \in Nat
    BY <1>1, FrontParts
  <2> QED  BY <1>2, <1>3, <2>1
<1>6. w.last_key \in Nat
  BY <1>1, LastKeyNat
<1> HIDE DEF win, key
<1>7. HeapIs(srcs, its, hp \ {win}, {win.source_idx})
  <2>1. HeapIs(srcs, its, hp \ {EntryOf(srcs, its, i)}, {} \cup {i})
    BY <1>1, <1>2, HeapMinus
  <2> QED  BY <1>2, <1>3, <2>1
<1>8. win.entry = NewestIn(srcs, key)
  <2>1. ASSUME NEW j \in DOMAIN srcs, srcs[j].holds[key] # NoEntry PROVE srcs[j].id <= srcs[i].id
    <3>1. InTable(srcs[j].reader, key, srcs[j].holds[key])
      <4>1. TableHolds(srcs[j].reader, srcs[j].holds)
        BY <1>1, SourceParts
      <4> QED  BY <1>3, <2>1, <4>1 DEF TableHolds
    <3>2. ~(key <= low)
      BY <1>3, <1>4
    <3>3. In(srcs, its, j) /\ key >= FrontOf(srcs, its, j).key
      BY <1>4, <3>1, <3>2 DEF NoneSkipped
    <3> QED  BY <1>3, <1>5, <3>3
  <2> QED  BY <1>1, <1>3, <2>1, NewestFrom
<1>9. NoneSkipped(srcs, its, key)
  <2> SUFFICES ASSUME NEW j \in DOMAIN srcs, NEW k, NEW e, InTable(srcs[j].reader, k, e)
               PROVE  k <= key \/ (In(srcs, its, j) /\ k >= FrontOf(srcs, its, j).key)
    BY DEF NoneSkipped
  <2>1. k \in Nat
    BY <1>1, SourceParts, TableKeys
  <2>2. k <= low \/ (In(srcs, its, j) /\ k >= FrontOf(srcs, its, j).key)
    BY <1>4 DEF NoneSkipped
  <2> QED  BY <1>3, <1>4, <2>1, <2>2
<1>10. ASSUME NEW k \in Keys, k > low, k < key PROVE LiveMap(srcs)[k] = NoEntry
  <2>1. k \in Nat
    BY MemtableAssumption
  <2>2. ASSUME NEW j \in DOMAIN srcs, NEW e, InTable(srcs[j].reader, k, e) PROVE FALSE
    <3>1. In(srcs, its, j) /\ k >= FrontOf(srcs, its, j).key
      BY <1>4, <1>10, <2>1, <2>2 DEF NoneSkipped
    <3> QED  BY <1>3, <1>5, <1>10, <2>1, <3>1
  <2> QED  BY <1>1, <2>2, Unheld
<1>11. Written(w, LiveMap(srcs), Below(key))
  <2>1. \A k \in Keys : k \in Nat
    BY MemtableAssumption
  <2>2. \A k \in Keys : k <= low => k < key
    BY <1>3, <1>4, <2>1
  <2>3. \A k \in Keys : k < key /\ ~(k <= low) => LiveMap(srcs)[k] = NoEntry
    BY <1>4, <1>10, <2>1
  <2> QED  BY <1>4, <2>2, <2>3 DEF Written, UpTo, Below
<1>12. w.last_key < key
  BY <1>3, <1>4, <1>6
<1> QED  BY <1>2, <1>3, <1>5, <1>7, <1>8, <1>9, <1>11, <1>12 DEF Taken, win

\* What is known of the winner.
LEMMA WinnerIs ==
    ASSUME NEW srcs, SourcesOK(srcs), NEW its, NEW hp, NEW pend, NEW win, NEW w,
           Taken(srcs, its, hp, pend, win, w)
    PROVE  /\ win.source_idx \in DOMAIN srcs /\ In(srcs, its, win.source_idx)
           /\ win.key = FrontOf(srcs, its, win.source_idx).key
           /\ win.key \in Keys /\ win.key \in Nat /\ win.key > 0
           /\ win.entry \in Entries /\ win.entry # NoEntry
<1> DEFINE i == win.source_idx
           g == FrontOf(srcs, its, i)
<1>1. i \in DOMAIN srcs /\ In(srcs, its, i) /\ win = EntryOf(srcs, its, i)
  BY DEF Taken
<1>2. /\ g.key \in Keys /\ g.key \in Nat /\ g.key > 0 /\ g.entry \in Entries /\ g.entry # NoEntry
      /\ EntryOf(srcs, its, i) = [key |-> g.key, entry |-> g.entry, source_idx |-> i,
                                  sequence |-> srcs[i].id]
  <2> HIDE DEF i
  <2> QED  BY <1>1, FrontParts
<1>3. win.key = g.key /\ win.entry = g.entry
  <2> DEFINE x == [key |-> g.key, entry |-> g.entry, source_idx |-> i, sequence |-> srcs[i].id]
  <2>1. x.key = g.key /\ x.entry = g.entry
    OBVIOUS
  <2>2. win = x
    BY <1>1, <1>2
  <2> HIDE DEF x, g, i
  <2> QED  BY <2>1, <2>2
<1> QED  BY <1>1, <1>2, <1>3

\* An older entry for the winner's key goes, and its source moves on.
LEMMA StaleDropped ==
    ASSUME NEW srcs, NEW its, NEW hp, NEW pend \in BOOLEAN, NEW win, NEW w,
           MergeOK(srcs, its, w), Taken(srcs, its, hp, pend, win, w), ~pend,
           hp # {}, TopOf(hp).key = win.key
    PROVE  LET t == TopOf(hp).source_idx
           IN  /\ t \in DOMAIN srcs
               /\ MergeOK(srcs, Advance(srcs, its, t), w)
               /\ Taken(srcs, Advance(srcs, its, t), (hp \ {TopOf(hp)}) \cup Added(srcs, its, t),
                        pend \/ Broken(srcs, its, t), win, w)
<1> DEFINE o == win.source_idx
           key == win.key
<1>1. SourcesOK(srcs) /\ ItersOK(srcs, its) /\ WriterOK(w) /\ HeapIs(srcs, its, hp, {o})
  BY DEF MergeOK, Taken
<1>2. /\ o \in DOMAIN srcs /\ In(srcs, its, o) /\ key = FrontOf(srcs, its, o).key /\ key \in Nat
  BY <1>1, WinnerIs
<1>3. PICK t \in DOMAIN srcs : In(srcs, its, t) /\ t \notin {o} /\ TopOf(hp) = EntryOf(srcs, its, t)
  <2> HIDE DEF o
  <2> QED  BY <1>1, TopIs
<1>4. TopOf(hp).source_idx = t /\ TopOf(hp).key = FrontOf(srcs, its, t).key
  BY <1>3 DEF EntryOf, HeapEntry
<1>5. FrontOf(srcs, its, t).key = key
  BY <1>4
<1> DEFINE its2 == Advance(srcs, its, t)
<1>6. Moved(srcs, its, its2, t)
  BY <1>1, <1>3, SourceAdvances
<1>7. HeapIs(srcs, its, hp \ {TopOf(hp)}, {o} \cup {t})
  <2> HIDE DEF o
  <2>1. HeapIs(srcs, its, hp \ {EntryOf(srcs, its, t)}, {o} \cup {t})
    BY <1>1, <1>3, HeapMinus
  <2> QED  BY <1>3, <2>1
<1>8. HeapIs(srcs, its2, (hp \ {TopOf(hp)}) \cup Added(srcs, its, t), {o})
  <2> DEFINE rest == hp \ {TopOf(hp)}
             out == {o}
  <2>1. HeapIs(srcs, its, rest, out \cup {t}) /\ t \notin out
    BY <1>3, <1>7
  <2> HIDE DEF rest, out
  <2>2. HeapIs(srcs, Advance(srcs, its, t), rest \cup Added(srcs, its, t), out)
    BY <1>1, <1>3, <2>1, HeapRefilled
  <2> QED  BY <2>2 DEF rest, out
<1>9. ~Broken(srcs, its, t) => NoneSkipped(srcs, its2, key)
  <2>1. NoneSkipped(srcs, its, key)
    BY DEF Taken
  <2>2. FrontOf(srcs, its, t).key <= key
    BY <1>2, <1>5
  <2> HIDE DEF key
  <2> QED  BY <1>1, <1>2, <1>3, <2>1, <2>2, SkipsNothing
<1> HIDE DEF its2
<1>10. its2[o] = its[o]
  BY <1>2, <1>3, <1>6 DEF Moved
<1>11. In(srcs, its2, o) /\ win = EntryOf(srcs, its2, o)
  <2>1. win = EntryOf(srcs, its, o)
    BY DEF Taken
  <2> QED  BY <1>2, <1>10, <2>1, OthersKept
<1>12. ItersOK(srcs, its2)
  BY <1>6 DEF Moved
<1>13. ASSUME NEW i \in DOMAIN srcs, In(srcs, its2, i) PROVE FrontOf(srcs, its2, i).key >= key
  <2>1. CASE i = t
    <3>1. FrontOf(srcs, its2, t).key \in Nat
      BY <1>1, <1>13, <2>1, FrontParts
    <3>2. key < FrontOf(srcs, its2, t).key
      BY <1>5, <1>6, <1>13, <2>1 DEF Moved
    <3> HIDE DEF key
    <3> QED  BY <1>2, <2>1, <3>1, <3>2
  <2>2. CASE i # t
    <3>1. its2[i] = its[i]
      BY <1>6, <2>2 DEF Moved
    <3>2. FrontOf(srcs, its2, i) = FrontOf(srcs, its, i) /\ In(srcs, its, i)
      BY <1>13, <3>1, OthersKept
    <3> QED  BY <3>2 DEF Taken
  <2> QED  BY <2>1, <2>2
<1>14. /\ win.entry = NewestIn(srcs, win.key)
       /\ w.last_key < win.key /\ Written(w, LiveMap(srcs), Below(win.key))
  BY DEF Taken
<1>15. Taken(srcs, its2, (hp \ {TopOf(hp)}) \cup Added(srcs, its, t), pend \/ Broken(srcs, its, t), win, w)
  BY <1>2, <1>8, <1>9, <1>11, <1>13, <1>14 DEF Taken
<1>16. MergeOK(srcs, its2, w)
  BY <1>1, <1>12 DEF MergeOK
<1> QED  BY <1>3, <1>4, <1>15, <1>16 DEF its2

\* The winner is handed over, and its source moves on.
LEMMA WinnerEmitted ==
    ASSUME NEW srcs, NEW its, NEW hp, NEW pend \in BOOLEAN, NEW win, NEW w,
           MergeOK(srcs, its, w), Taken(srcs, its, hp, pend, win, w), Drained(srcs, its, pend, win),
           NEW v, v = IF Dropped(win.entry) THEN w ELSE add(w, win.key, win.entry)
    PROVE  LET t == win.source_idx
           IN  /\ t \in DOMAIN srcs
               /\ MergeOK(srcs, Advance(srcs, its, t), v)
               /\ Resting(srcs, Advance(srcs, its, t), hp \cup Added(srcs, its, t),
                          pend \/ Broken(srcs, its, t), win.key, v)
<1> DEFINE t == win.source_idx
           key == win.key
           its2 == Advance(srcs, its, t)
           f == LiveMap(srcs)
<1>1. SourcesOK(srcs) /\ ItersOK(srcs, its) /\ WriterOK(w) /\ HeapIs(srcs, its, hp, {t})
  BY DEF MergeOK, Taken
<1>2. /\ t \in DOMAIN srcs /\ In(srcs, its, t) /\ key = FrontOf(srcs, its, t).key
      /\ key \in Keys /\ key \in Nat /\ win.entry \in Entries /\ win.entry # NoEntry
  BY <1>1, WinnerIs
<1>3. /\ win.entry = NewestIn(srcs, key) /\ w.last_key < key /\ Written(w, f, Below(key))
      /\ ~pend => NoneSkipped(srcs, its, key)
  BY DEF Taken
<1>4. w.last_key \in Nat
  BY <1>1, LastKeyNat
<1> HIDE DEF t, key
<1>5. Moved(srcs, its, its2, t)
  BY <1>1, <1>2, SourceAdvances
<1>6. HeapIs(srcs, its2, hp \cup Added(srcs, its, t), {})
  <2> DEFINE out == {}
  <2>1. HeapIs(srcs, its, hp, out \cup {t}) /\ t \notin out
    BY <1>1
  <2> HIDE DEF out
  <2>2. HeapIs(srcs, Advance(srcs, its, t), hp \cup Added(srcs, its, t), out)
    BY <1>1, <1>2, <2>1, HeapRefilled
  <2> QED  BY <2>2 DEF out
<1>7. ~pend /\ ~Broken(srcs, its, t) => NoneSkipped(srcs, its2, key)
  <2>1. FrontOf(srcs, its, t).key <= key
    BY <1>2
  <2> QED  BY <1>1, <1>2, <1>3, <2>1, SkipsNothing
<1> HIDE DEF its2
<1>8. ASSUME ~pend, NEW i \in DOMAIN srcs, In(srcs, its2, i) PROVE FrontOf(srcs, its2, i).key > key
  <2>1. CASE i = t
    <3>1. FrontOf(srcs, its2, t).key \in Nat
      BY <1>1, <1>8, <2>1, FrontParts
    <3>2. key < FrontOf(srcs, its2, t).key
      BY <1>2, <1>5, <1>8, <2>1 DEF Moved
    <3> QED  BY <1>2, <2>1, <3>1, <3>2
  <2>2. CASE i # t
    <3>1. its2[i] = its[i]
      BY <1>5, <2>2 DEF Moved
    <3>2. FrontOf(srcs, its2, i) = FrontOf(srcs, its, i) /\ In(srcs, its, i)
      BY <1>8, <3>1, OthersKept
    <3> QED  BY <1>8, <2>2, <3>2 DEF Drained, t, key
  <2> QED  BY <2>1, <2>2
<1>9. f \in Maps /\ f[key] = LiveIn(srcs, key)
  BY <1>1, <1>2, LiveMapIs
<1>10. f[key] = IF Dropped(win.entry) THEN NoEntry ELSE win.entry
  BY <1>3, <1>9 DEF LiveIn
<1> HIDE DEF f
<1>11. \A k \in Keys : k \in Nat /\ (k <= key <=> k < key \/ k = key)
  <2>1. \A k \in Keys : k \in Nat
    BY MemtableAssumption
  <2> QED  BY <1>2, <2>1
<1>12. WriterOK(v) /\ v.last_key \in Nat /\ v.last_key <= key /\ Written(v, f, UpTo(key))
  <2>1. CASE Dropped(win.entry)
    <3>1. v = w /\ f[key] = NoEntry
      BY <1>10, <2>1
    <3>2. Written(w, f, UpTo(key))
      BY <1>3, <1>11, <3>1 DEF Written, Below, UpTo
    <3> QED  BY <1>1, <1>2, <1>3, <1>4, <3>1, <3>2
  <2>2. CASE ~Dropped(win.entry)
    <3>1. v = add(w, key, win.entry) /\ f[key] = win.entry
      BY <1>10, <2>2 DEF key
    <3>2. Accepts(w, key)
      BY <1>2, <1>3, <1>4 DEF Accepts
    <3>3. /\ WriterOK(v) /\ v.last_key = key
          /\ \A k, e : Stored(v, k, e) <=> Stored(w, k, e) \/ (k = key /\ e = win.entry)
      <4> DEFINE entry == win.entry
      <4>1. entry \in Entries
        BY <1>2
      <4> HIDE DEF entry
      <4>2. LET u == add(w, key, entry)
            IN  /\ WriterOK(u) /\ u.last_key = key
                /\ \A k, e : Stored(u, k, e) <=> Stored(w, k, e) \/ (k = key /\ e = entry)
        BY <1>1, <1>2, <3>2, <4>1, WriterAdds
      <4> QED  BY <3>1, <4>2 DEF entry
    <3>4. Written(v, f, UpTo(key))
      BY <1>2, <1>3, <1>11, <3>1, <3>3 DEF Written, Below, UpTo
    <3> QED  BY <1>2, <3>3, <3>4
  <2> QED  BY <2>1, <2>2
<1>13. ItersOK(srcs, its2)
  BY <1>5 DEF Moved
<1>14. Resting(srcs, its2, hp \cup Added(srcs, its, t), pend \/ Broken(srcs, its, t), key, v)
  BY <1>2, <1>6, <1>7, <1>8, <1>12 DEF Resting, f
<1>15. MergeOK(srcs, its2, v)
  BY <1>1, <1>12, <1>13 DEF MergeOK
<1> QED  BY <1>2, <1>14, <1>15 DEF its2, t, key

\* When nothing is left, the writer holds all that is live.
LEMMA MergeEnds ==
    ASSUME NEW srcs, NEW its, NEW pend \in BOOLEAN, NEW low, NEW w,
           MergeOK(srcs, its, w), Resting(srcs, its, {}, pend, low, w), ~pend
    PROVE  Written(w, LiveMap(srcs), Keys)
<1>1. /\ SourcesOK(srcs) /\ HeapIs(srcs, its, {}, {}) /\ low \in Nat
      /\ Written(w, LiveMap(srcs), UpTo(low)) /\ NoneSkipped(srcs, its, low)
  BY DEF MergeOK, Resting
<1>2. \A i \in DOMAIN srcs : ~In(srcs, its, i)
  <2> SUFFICES ASSUME NEW i \in DOMAIN srcs, In(srcs, its, i) PROVE FALSE
    OBVIOUS
  <2>1. EntryOf(srcs, its, i) \in {EntryOf(srcs, its, j) : j \in {l \in DOMAIN srcs : In(srcs, its, l) /\ l \notin {}}}
    OBVIOUS
  <2> QED  BY <1>1, <2>1 DEF HeapIs
<1>3. ASSUME NEW k \in Keys, ~(k <= low) PROVE LiveMap(srcs)[k] = NoEntry
  <2>1. \A i \in DOMAIN srcs : \A e : ~InTable(srcs[i].reader, k, e)
    BY <1>1, <1>2, <1>3 DEF NoneSkipped
  <2> QED  BY <1>1, <2>1, Unheld
<1> QED  BY <1>1, <1>3 DEF Written, UpTo

LEMMA DrainedIs ==
    ASSUME NEW srcs, NEW its, NEW hp, NEW pend \in BOOLEAN, NEW win, NEW w,
           MergeOK(srcs, its, w), Taken(srcs, its, hp, pend, win, w),
           pend \/ hp = {} \/ TopOf(hp).key # win.key
    PROVE  Drained(srcs, its, pend, win)
<1> SUFFICES ASSUME ~pend, NEW i \in DOMAIN srcs, In(srcs, its, i), i # win.source_idx
             PROVE  FrontOf(srcs, its, i).key > win.key
  BY DEF Drained
<1> DEFINE o == win.source_idx
<1>1. SourcesOK(srcs) /\ HeapIs(srcs, its, hp, {o}) /\ i \notin {o}
  BY DEF MergeOK, Taken
<1>2. \A j \in DOMAIN srcs : In(srcs, its, j) => FrontOf(srcs, its, j).key >= win.key
  BY DEF Taken
<1>3. win.key \in Nat
  BY <1>1, WinnerIs
<1> HIDE DEF o
<1>4. hp # {}
  <2>1. EntryOf(srcs, its, i) \in {EntryOf(srcs, its, j) : j \in {l \in DOMAIN srcs : In(srcs, its, l) /\ l \notin {o}}}
    BY <1>1
  <2> QED  BY <1>1, <2>1 DEF HeapIs
<1>5. PICK t \in DOMAIN srcs :
         /\ In(srcs, its, t) /\ t \notin {o} /\ TopOf(hp) = EntryOf(srcs, its, t)
         /\ \A j \in DOMAIN srcs : In(srcs, its, j) /\ j \notin {o} =>
               /\ FrontOf(srcs, its, t).key <= FrontOf(srcs, its, j).key
               /\ FrontOf(srcs, its, t).key = FrontOf(srcs, its, j).key => srcs[j].id <= srcs[t].id
  BY <1>1, <1>4, TopIs
<1>6. TopOf(hp).key = FrontOf(srcs, its, t).key
  BY <1>5 DEF EntryOf, HeapEntry
<1>7. FrontOf(srcs, its, t).key # win.key /\ FrontOf(srcs, its, t).key >= win.key
  BY <1>2, <1>4, <1>5, <1>6
<1>8. FrontOf(srcs, its, t).key \in Nat /\ FrontOf(srcs, its, i).key \in Nat
  BY <1>1, <1>5, FrontParts
<1>9. FrontOf(srcs, its, t).key <= FrontOf(srcs, its, i).key
  BY <1>1, <1>5
<1> QED  BY <1>3, <1>7, <1>8, <1>9

-----------------------------------------------------------------------------
(* The writer's output                                                     *)

OutputOf(w, k) ==
    LET stored == {i \in DOMAIN w.file.extents :
                      \E p \in DOMAIN w.file.extents[i].content :
                          w.file.extents[i].content[p].key = k}
        current == {p \in DOMAIN w.current_block : w.current_block[p].key = k}
    IN  CASE current # {} -> w.current_block[Min(current)].entry
          [] stored # {} -> scan_block_for_key(w.file.extents[Min(stored)].content, k)
          [] OTHER -> NoEntry

\* A block scan finds the entry of a key that is there.
LEMMA ScanFinds ==
    ASSUME NEW b, b \in Seq(Item), NEW k \in Nat, NEW p \in DOMAIN b, b[p].key = k,
           \A x, y \in DOMAIN b : x < y => b[x].key < b[y].key
    PROVE  scan_block_for_key(b, k) = b[p].entry
<1> DEFINE ahead == NotBelow(b, k)
           m == Min(ahead)
<1>1. DOMAIN b = 1 .. Len(b) /\ Len(b) \in Nat /\ \A x \in DOMAIN b : b[x].key \in Nat
  <2>1. Len(b) \in Nat /\ DOMAIN b = 1 .. Len(b) /\ \A x \in 1 .. Len(b) : b[x] \in Item
    BY LenProperties, ElementOfSeq
  <2> QED  BY <2>1, MemtableAssumption DEF Item
<1>2. ahead = {x \in DOMAIN b : b[x].key >= k}
  BY DEF NotBelow
<1> HIDE DEF ahead
<1>3. p \in ahead /\ ahead \in SUBSET Nat
  BY <1>1, <1>2
<1>4. m \in ahead /\ \A x \in ahead : m <= x
  BY <1>3, MinOfNats
<1> HIDE DEF m
<1>5. m = p
  <2>1. m <= p /\ m \in DOMAIN b /\ m \in Nat /\ p \in Nat /\ b[m].key >= k /\ b[m].key \in Nat
    BY <1>1, <1>2, <1>3, <1>4
  <2>2. CASE m < p
    <3>1. b[m].key < k
      BY <2>1, <2>2
    <3> QED  BY <2>1, <3>1
  <2> QED  BY <2>1, <2>2
<1>6. scan_block_for_key(b, k) = IF ahead # {} /\ b[m].key = k THEN b[m].entry ELSE NoEntry
  BY DEF scan_block_for_key, ahead, m
<1> QED  BY <1>3, <1>5, <1>6

LEMMA OutputIs ==
    ASSUME NEW w, WriterOK(w), NEW f, f \in Maps, NEW K \in SUBSET Keys, Written(w, f, K),
           NEW k \in Keys
    PROVE  OutputOf(w, k) = IF k \in K THEN f[k] ELSE NoEntry
<1> DEFINE n == Len(w.file.extents)
           stored == {i \in DOMAIN w.file.extents :
                      \E p \in DOMAIN w.file.extents[i].content :
                          w.file.extents[i].content[p].key = k}
           current == {p \in DOMAIN w.current_block : w.current_block[p].key = k}
           wanted == IF k \in K THEN f[k] ELSE NoEntry
           out == OutputOf(w, k)
<1>0. k \in Nat
  BY MemtableAssumption
<1>1. /\ n \in Nat /\ DOMAIN w.file.extents = 1 .. n
      /\ \A i \in 1 .. n + 1 : Blk(w, i) \in Seq(Item)
      /\ \A i \in 1 .. n : Blk(w, i) = w.file.extents[i].content
      /\ Blk(w, n + 1) = w.current_block
  <2>1. w \in Writer
    BY DEF WriterOK
  <2>2. w.file.extents \in Seq(DataExtent)
    BY <2>1 DEF Writer, OpenFile
  <2>3. n \in Nat /\ DOMAIN w.file.extents = 1 .. n
    BY <2>2, LenProperties
  <2>4. \A i \in 1 .. n : Blk(w, i) = w.file.extents[i].content
    BY <2>3 DEF Blk
  <2>5. Blk(w, n + 1) = w.current_block
    <3>1. ~(n + 1 <= n)
      BY <2>3
    <3> QED  BY <3>1 DEF Blk
  <2>6. \A i \in 1 .. n + 1 : Blk(w, i) \in Seq(Item)
    BY <2>1, BlkIs
  <2> QED  BY <2>3, <2>4, <2>5, <2>6
<1>2. \A e : Stored(w, k, e) => k \in K /\ e = f[k] /\ e # NoEntry
  BY DEF Written
<1>3. out = CASE current # {} -> w.current_block[Min(current)].entry
            [] stored # {} -> scan_block_for_key(w.file.extents[Min(stored)].content, k)
            [] OTHER -> NoEntry
  BY Zenon DEF OutputOf
<1> HIDE DEF out
<1>4. CASE current # {}
  <2> DEFINE p == Min(current)
  <2>1. current \in SUBSET Nat
    <3>1. w.current_block \in Seq(Item)
      <4>1. n + 1 \in 1 .. n + 1
        BY <1>1
      <4> QED  BY <1>1, <4>1
    <3>2. DOMAIN w.current_block = 1 .. Len(w.current_block) /\ Len(w.current_block) \in Nat
      BY <3>1, LenProperties
    <3> QED  BY <3>2
  <2>2. p \in current
    <3> HIDE DEF current
    <3> QED  BY <1>4, <2>1, MinOfNats
  <2>3. p \in DOMAIN w.current_block /\ w.current_block[p].key = k
    BY <2>2
  <2>4. out = w.current_block[p].entry
    <3>1. stored = {}
      <4> SUFFICES ASSUME NEW i \in stored PROVE FALSE
        OBVIOUS
      <4>1. i \in 1 .. n /\ i \in 1 .. n + 1 /\ i < n + 1 /\ n + 1 \in 1 .. n + 1
        BY <1>1
      <4>2. PICK q \in DOMAIN Blk(w, i) : Blk(w, i)[q].key = k
        BY <1>1, <4>1
      <4>3. p \in DOMAIN Blk(w, n + 1) /\ Blk(w, n + 1)[p].key = k
        BY <1>1, <2>3
      <4>4. Before(i, q, n + 1, p)
        BY <4>1 DEF Before
      <4>5. Blk(w, i)[q].key < Blk(w, n + 1)[p].key
        BY <4>1, <4>2, <4>3, <4>4 DEF WriterOK, Sorted
      <4> QED  BY <1>0, <4>2, <4>3, <4>5
    <3>2. ~(stored # {})
      BY <3>1
    <3> HIDE DEF current, stored
    <3> QED  BY <1>3, <1>4, <3>2, Zenon
  <2> HIDE DEF p, current
  <2>5. Stored(w, k, out)
    <3>1. InBlock(Blk(w, n + 1), k, out)
      BY <1>1, <2>3, <2>4 DEF InBlock
    <3>2. n + 1 \in 1 .. n + 1
      BY <1>1
    <3> QED  BY <3>1, <3>2 DEF Stored
  <2> QED  BY <1>2, <2>5 DEF out
<1>5. CASE current = {} /\ stored # {}
  <2> DEFINE i == Min(stored)
  <2>1. stored \in SUBSET Nat
    BY <1>1
  <2>2. i \in stored
    <3> HIDE DEF stored
    <3> QED  BY <1>5, <2>1, MinOfNats
  <2>3. i \in 1 .. n /\ \E p \in DOMAIN w.file.extents[i].content : w.file.extents[i].content[p].key = k
    BY <1>1, <2>2
  <2>4. out = scan_block_for_key(w.file.extents[i].content, k)
    <3> HIDE DEF current, stored
    <3> QED  BY <1>3, <1>5, Zenon
  <2> HIDE DEF i, stored, current
  <2>5. i \in 1 .. n + 1 /\ Blk(w, i) = w.file.extents[i].content /\ Blk(w, i) \in Seq(Item)
    BY <1>1, <2>3
  <2> DEFINE b == Blk(w, i)
  <2>6. PICK p \in DOMAIN b : b[p].key = k
    BY <2>3, <2>5
  <2>7. \A x, y \in DOMAIN b : x < y => b[x].key < b[y].key
    BY <2>5 DEF WriterOK, Sorted, Before
  <2>8. b \in Seq(Item) /\ out = scan_block_for_key(b, k)
    BY <2>4, <2>5
  <2> HIDE DEF b
  <2>9. out = b[p].entry
    BY <1>0, <2>6, <2>7, <2>8, ScanFinds
  <2>10. InBlock(b, k, out)
    BY <2>6, <2>9 DEF InBlock
  <2>11. Stored(w, k, out)
    BY <2>5, <2>10 DEF Stored, b
  <2> QED  BY <1>2, <2>11 DEF out
<1>6. CASE current = {} /\ stored = {}
  <2>1. out = NoEntry
    <3> HIDE DEF current, stored
    <3> QED  BY <1>3, <1>6, Zenon
  <2>2. ASSUME NEW e, Stored(w, k, e) PROVE FALSE
    <3>1. PICK i \in 1 .. n + 1 : InBlock(Blk(w, i), k, e)
      BY <2>2 DEF Stored
    <3>2. PICK p \in DOMAIN Blk(w, i) : Blk(w, i)[p].key = k
      BY <3>1 DEF InBlock
    <3>3. CASE i = n + 1
      <4>1. p \in current
        BY <1>1, <3>2, <3>3
      <4> QED  BY <1>6, <4>1
    <3>4. CASE i # n + 1
      <4>1. i \in 1 .. n
        BY <1>1, <3>4
      <4>2. i \in stored
        BY <1>1, <3>2, <4>1
      <4> QED  BY <1>6, <4>2
    <3> QED  BY <3>3, <3>4
  <2>3. k \in K => f[k] = NoEntry
    BY <2>2 DEF Written
  <2> QED  BY <2>1, <2>3 DEF out
<1> HIDE DEF current, stored
<1> QED  BY <1>4, <1>5, <1>6, Zenon

-----------------------------------------------------------------------------
(* A flush, and the tables that flush and compaction register              *)

Unflushed(m, w) == {k \in Keys : m[k] # NoEntry /\ k > w.last_key}

\* One more entry of the memtable.
LEMMA FlushAdds ==
    ASSUME NEW w, WriterOK(w), NEW m \in Maps, Written(w, m, UpTo(w.last_key)),
           NEW k, k = Min(Unflushed(m, w)), Unflushed(m, w) # {}
    PROVE  LET v == add(w, k, m[k])
           IN  WriterOK(v) /\ Written(v, m, UpTo(v.last_key))
<1> DEFINE v == add(w, k, m[k])
<1>1. \A x \in Keys : x \in Nat
  BY MemtableAssumption
<1>2. Unflushed(m, w) \in SUBSET Nat
  BY <1>1 DEF Unflushed
<1>3. k \in Unflushed(m, w) /\ \A x \in Unflushed(m, w) : k <= x
  BY <1>2, MinOfNats
<1>4. k \in Keys /\ k \in Nat /\ m[k] # NoEntry /\ k > w.last_key
  BY <1>1, <1>3 DEF Unflushed
<1>5. w.last_key \in Nat
  BY LastKeyNat
<1>6. m[k] \in Entries
  BY <1>4 DEF Maps
<1>7. Accepts(w, k)
  BY <1>4 DEF Accepts
<1>8. /\ WriterOK(v) /\ v.last_key = k
      /\ \A x, e : Stored(v, x, e) <=> Stored(w, x, e) \/ (x = k /\ e = m[k])
  <2> DEFINE entry == m[k]
  <2>1. entry \in Entries
    BY <1>6
  <2> HIDE DEF entry
  <2>2. LET u == add(w, k, entry)
        IN  /\ WriterOK(u) /\ u.last_key = k
            /\ \A x, e : Stored(u, x, e) <=> Stored(w, x, e) \/ (x = k /\ e = entry)
    BY <1>4, <1>7, <2>1, WriterAdds
  <2> QED  BY <2>2 DEF entry
<1> HIDE DEF v
<1>9. ASSUME NEW x \in Keys, m[x] # NoEntry PROVE x <= k <=> (x <= w.last_key \/ x = k)
  <2>1. x \in Nat
    BY <1>1
  <2>2. ~(x <= w.last_key) => x \in Unflushed(m, w)
    BY <1>5, <1>9, <2>1 DEF Unflushed
  <2> QED  BY <1>3, <1>4, <1>5, <2>1, <2>2
<1>10. Written(v, m, UpTo(k))
  <2>1. ASSUME NEW x, NEW e PROVE Stored(v, x, e) <=> (x \in UpTo(k) /\ e = m[x] /\ e # NoEntry)
    <3>1. Stored(v, x, e) <=> (x \in UpTo(w.last_key) /\ e = m[x] /\ e # NoEntry) \/ (x = k /\ e = m[k])
      BY <1>8 DEF Written
    <3> QED  BY <1>4, <1>9, <3>1 DEF UpTo
  <2> QED  BY <2>1 DEF Written
<1> QED  BY <1>8, <1>10 DEF v

LEMMA FlushDone ==
    ASSUME NEW w, WriterOK(w), NEW m \in Maps, Written(w, m, UpTo(w.last_key)), Unflushed(m, w) = {}
    PROVE  Written(w, m, Keys)
<1>1. w.last_key \in Nat /\ \A x \in Keys : x \in Nat
  BY LastKeyNat, MemtableAssumption
<1>2. \A x \in Keys : m[x] # NoEntry => x <= w.last_key
  BY <1>1 DEF Unflushed
<1> QED  BY <1>2 DEF Written, UpTo

\* The table that a finished writer leaves.
NewTable(next, w, f) == [id |-> next, reader |-> open(finish(w)), holds |-> f]

LEMMA FinishedTable ==
    ASSUME NEW w, WriterOK(w), NEW f \in Maps, Written(w, f, Keys), NEW next \in Nat
    PROVE  /\ Opens(finish(w)) /\ GoodTable(NewTable(next, w, f))
           /\ NewTable(next, w, f).id = next /\ NewTable(next, w, f).holds = f
           /\ NewTable(next, w, f).reader.file.bad = {}
<1> DEFINE r == open(finish(w))
           t == NewTable(next, w, f)
<1>1. Opens(finish(w)) /\ TableOK(r) /\ r.file.bad = {} /\ \A k, e : InTable(r, k, e) <=> Stored(w, k, e)
  BY TableFinished
<1> HIDE DEF r
<1>2. TableHolds(r, f)
  BY <1>1 DEF TableHolds, Written
<1>3. t = [id |-> next, reader |-> r, holds |-> f]
  BY DEF NewTable, r
<1>4. r \in Reader
  BY <1>1 DEF TableOK
<1>5. t.id = next /\ t.reader = r /\ t.holds = f /\ t \in TableRec
  BY <1>3, <1>4 DEF TableRec
<1> HIDE DEF t
<1> QED  BY <1>1, <1>2, <1>5 DEF GoodTable, t

\* A compaction keeps the newest of every key, and drops what was deleted.
LEMMA MergeKeepsLatest ==
    ASSUME NEW m, NEW last, NEW srcs, SourcesOK(srcs),
           LatestFound(m, last, {Facts(srcs[i]) : i \in DOMAIN srcs}), NEW H2,
           \/ H2 = {} /\ \A k \in Keys : LiveMap(srcs)[k] = NoEntry
           \/ \E t : H2 = {Facts(t)} /\ t.holds = LiveMap(srcs) /\ t.id \in Nat
    PROVE  LatestFound(m, last, H2)
<1> DEFINE H == {Facts(srcs[i]) : i \in DOMAIN srcs}
           f == LiveMap(srcs)
<1>1. m \in Maps /\ last \in Maps
  BY DEF LatestFound
<1>2. ASSUME NEW k \in Keys, m[k] = NoEntry PROVE Settled(H2, k, last[k].value)
  <2>1. Settled(H, k, last[k].value)
    BY <1>2 DEF LatestFound
  <2>2. f[k] = LiveIn(srcs, k) /\ LiveIn(srcs, k).value = NewestIn(srcs, k).value
    BY LiveMapIs, LiveIs
  <2>3. NewestIn(srcs, k).value = last[k].value
    <3>1. CASE \E t \in H : /\ t.holds[k] # NoEntry /\ t.holds[k].value = last[k].value
                            /\ \A u \in H : u.holds[k] # NoEntry => u.id <= t.id
      <4>1. PICK i \in DOMAIN srcs :
               /\ Facts(srcs[i]).holds[k] # NoEntry /\ Facts(srcs[i]).holds[k].value = last[k].value
               /\ \A u \in H : u.holds[k] # NoEntry => u.id <= Facts(srcs[i]).id
        BY <3>1
      <4>2. \A j \in DOMAIN srcs : Facts(srcs[j]).holds = srcs[j].holds /\ Facts(srcs[j]).id = srcs[j].id
        BY DEF Facts
      <4>3. \A j \in DOMAIN srcs : srcs[j].holds[k] # NoEntry => srcs[j].id <= srcs[i].id
        BY <4>1, <4>2
      <4>4. NewestIn(srcs, k) = srcs[i].holds[k]
        BY <4>1, <4>2, <4>3, NewestFrom
      <4> QED  BY <4>1, <4>2, <4>4
    <3>2. CASE (\A t \in H : t.holds[k] = NoEntry) /\ last[k].value = NoValue
      <4>1. \A i \in DOMAIN srcs : srcs[i].holds[k] = NoEntry
        <5>1. \A j \in DOMAIN srcs : Facts(srcs[j]).holds = srcs[j].holds
          BY DEF Facts
        <5> QED  BY <3>2, <5>1
      <4>2. NewestIn(srcs, k) = NoEntry
        BY <4>1, NewestIs
      <4> QED  BY <3>2, <4>2 DEF NoEntry
    <3> QED  BY <2>1, <3>1, <3>2 DEF Settled
  <2> HIDE DEF f
  <2>4. f[k].value = last[k].value
    BY <2>2, <2>3
  <2>5. CASE f[k] = NoEntry
    <3>1. last[k].value = NoValue
      BY <2>4, <2>5 DEF NoEntry
    <3>2. \A u \in H2 : u.holds[k] = NoEntry
      BY <2>5 DEF Facts, f
    <3> QED  BY <3>1, <3>2 DEF Settled
  <2>6. CASE f[k] # NoEntry
    <3>1. PICK t : H2 = {Facts(t)} /\ t.holds = f /\ t.id \in Nat
      BY <2>6 DEF f
    <3>2. Facts(t).holds = f /\ Facts(t).id = t.id
      BY <3>1 DEF Facts
    <3>3. Facts(t) \in H2 /\ \A u \in H2 : u.id <= Facts(t).id
      BY <3>1, <3>2
    <3> QED  BY <2>4, <2>6, <3>2, <3>3 DEF Settled
  <2> QED  BY <2>5, <2>6
<1> QED  BY <1>1, <1>2 DEF LatestFound

LEMMA LevelsMerged ==
    ASSUME NEW next \in Nat
    PROVE  /\ LevelsOK(<<>>, <<>>, next + 1) /\ Holdings(<<>>, <<>>) = {}
           /\ \A t : GoodTable(t) /\ t.id = next =>
                 LevelsOK(<<>>, <<t>>, next + 1) /\ Holdings(<<>>, <<t>>) = {Facts(t)}
           /\ \A count \in Nat : \A t : t.reader.file.bad = {} =>
                 BadCounted(<<>>, <<>>, count) /\ BadCounted(<<>>, <<t>>, count)
<1>1. LevelsOK(<<>>, <<>>, next + 1) /\ Holdings(<<>>, <<>>) = {}
  BY DEF LevelsOK, Holdings
<1>2. ASSUME NEW t, GoodTable(t), t.id = next
      PROVE  LevelsOK(<<>>, <<t>>, next + 1) /\ Holdings(<<>>, <<t>>) = {Facts(t)}
  <2> DEFINE one == <<t>>
  <2>1. t \in TableRec
    BY <1>2 DEF GoodTable
  <2>2. one \in Seq(TableRec) /\ Len(one) = 1 /\ DOMAIN one = {1} /\ one[1] = t
    BY <2>1
  <2> HIDE DEF one
  <2>3. LevelsOK(<<>>, one, next + 1)
    BY <1>2, <2>2 DEF LevelsOK
  <2>4. Holdings(<<>>, one) = {Facts(t)}
    BY <2>2 DEF Holdings
  <2> QED  BY <2>3, <2>4 DEF one
<1>3. ASSUME NEW count \in Nat, NEW t, t.reader.file.bad = {}
      PROVE  BadCounted(<<>>, <<>>, count) /\ BadCounted(<<>>, <<t>>, count)
  BY <1>3 DEF BadCounted
<1> QED  BY <1>1, <1>2, <1>3

-----------------------------------------------------------------------------
(* The invariant of the pipeline                                           *)

FlushSteps == {"FlushAdd", "FlushFinish"}
MergeSteps == {"Next", "Drain", "Refill", "Finish"}
Steps == {"Idle", "Compact"} \cup FlushSteps \cup MergeSteps

\* A flush has copied what lies below the last key, or everything.
Flushing(step, w, m) ==
    /\ WriterOK(w) /\ step \in FlushSteps
    /\ step = "FlushAdd" => Written(w, m, UpTo(w.last_key))
    /\ step = "FlushFinish" => Written(w, m, Keys)

Merging(step, srcs, its, hp, pend, win, w) ==
    /\ MergeOK(srcs, its, w) /\ pend \in BOOLEAN /\ step \in MergeSteps
    /\ step = "Next" => Resting(srcs, its, hp, pend, win.key, w)
    /\ step \in {"Drain", "Refill"} => Taken(srcs, its, hp, pend, win, w)
    /\ step = "Refill" => Drained(srcs, its, pend, win)
    /\ step = "Finish" => Written(w, LiveMap(srcs), Keys)

LevelsInv == pc \in Steps /\ LevelsOK(l0, l1, next_sst_id) /\ BadCounted(l0, l1, damage)
LatestInv == LatestFound(map, latest, Holdings(l0, l1))
FlushInv == pc \in FlushSteps => Flushing(pc, writer, map)
MergeInv == pc \in MergeSteps => /\ sources = l1 \o l0
                                 /\ Merging(pc, sources, iters, heap, pending_error, winner, writer)
PInv == LevelsInv /\ LatestInv /\ FlushInv /\ MergeInv

LEMMA Distinct ==
    /\ "Idle" \notin FlushSteps \cup MergeSteps /\ "Compact" \notin FlushSteps \cup MergeSteps
    /\ FlushSteps \cap MergeSteps = {}
BY DEF FlushSteps, MergeSteps

LEMMA LevelsKept == LevelsInv /\ UNCHANGED <<l0, l1, next_sst_id, damage>> /\ pc' \in Steps => LevelsInv'
BY DEF LevelsInv

LEMMA LatestKept == LatestInv /\ UNCHANGED <<map, latest, l0, l1>> => LatestInv'
BY DEF LatestInv

LEMMA FlushOff == pc' \notin FlushSteps => FlushInv'
BY DEF FlushInv

LEMMA MergeOff == pc' \notin MergeSteps => MergeInv'
BY DEF MergeInv

LEMMA NextCall == ASSUME NEW zero PROVE maybe_compact(zero) \in {"Idle", "Compact"}
BY DEF maybe_compact

LEMMA KeysPositive == \A k \in Keys : k \in Nat /\ k > 0 /\ ~(k <= 0)
<1>1. Keys \subseteq Nat \ {0}
  BY MemtableAssumption
<1> QED  BY <1>1

\* A flush starts with an empty writer.
LEMMA FlushStarts ==
    ASSUME NEW m \in Maps, NEW n \in Nat
    PROVE  Flushing("FlushAdd", create(n), m)
<1> DEFINE w == create(n)
<1>1. UpTo(0) = {}
  BY KeysPositive DEF UpTo
<1>2. WriterOK(create(n)) /\ create(n).last_key = 0 /\ Written(create(n), m, UpTo(0))
  <2>1. UpTo(0) \in SUBSET Keys /\ \A k \in UpTo(0) : m[k] = NoEntry
    BY <1>1
  <2> DEFINE K == UpTo(0)
  <2> HIDE DEF K
  <2>2. K \in SUBSET Keys /\ \A k \in K : m[k] = NoEntry
    BY <2>1 DEF K
  <2>3. WriterOK(create(n)) /\ create(n).last_key = 0 /\ Written(create(n), m, K)
    BY <2>2, NothingWritten
  <2> QED  BY <2>3 DEF K
<1>3. WriterOK(w) /\ Written(w, m, UpTo(w.last_key))
  BY <1>2
<1> HIDE DEF w
<1>4. "FlushAdd" \in FlushSteps
  BY DEF FlushSteps
<1>5. Flushing("FlushAdd", w, m)
  BY <1>3, <1>4 DEF Flushing
<1> QED  BY <1>5 DEF w

LEMMA HeldCounted ==
    ASSUME NEW m PROVE Cardinality({k \in Keys : m[k] # NoEntry}) \in Nat
<1>1. IsFiniteSet({k \in Keys : m[k] # NoEntry})
  BY MemtableAssumption, FS_Subset
<1> QED  BY <1>1, FS_CardinalityType

LEMMA FlushBegins ==
    ASSUME map' \in Maps, StartFlush
    PROVE  pc' = "FlushAdd" /\ pc' \in Steps /\ FlushInv' /\ MergeInv'
<1>1. pc' = "FlushAdd" /\ writer' = create(len')
  BY DEF StartFlush, Goto
<1>2. len' = Cardinality({k \in Keys : map'[k] # NoEntry})
  BY DEF len
<1>3. len' \in Nat
  BY <1>2, HeldCounted
<1> DEFINE n == len'
<1>4. n \in Nat /\ writer' = create(n)
  BY <1>1, <1>3
<1> HIDE DEF n
<1>5. Flushing("FlushAdd", create(n), map')
  BY <1>4, FlushStarts
<1>6. FlushInv'
  BY <1>1, <1>4, <1>5 DEF FlushInv
<1>7. pc' \in FlushSteps
  BY <1>1 DEF FlushSteps
<1> QED  BY <1>1, <1>6, <1>7, Distinct, MergeOff DEF Steps

LEMMA CallEnds ==
    ASSUME NEW zero, pc' = maybe_compact(zero)
    PROVE  pc' \in Steps /\ FlushInv' /\ MergeInv'
<1>1. pc' \in {"Idle", "Compact"}
  BY NextCall
<1> QED  BY <1>1, Distinct, FlushOff, MergeOff DEF Steps

LEMMA WriteKeeps ==
    ASSUME PInv, NEW k \in Keys, NEW e \in Writes, Write(k, e)
    PROVE  PInv'
<1>1. Insert(k, e) /\ e \in Entries
  BY WriteInserts
<1>2. /\ map' = [map EXCEPT ![k] = e] /\ latest' = [latest EXCEPT ![k] = e]
      /\ UNCHANGED <<l0, l1, next_sst_id, damage>>
      /\ StartFlush \/ pc' = maybe_compact(l0)
  BY <1>1 DEF Write, Insert, Goto, tables
<1>3. map \in Maps /\ latest \in Maps
  BY DEF PInv, LatestInv, LatestFound
<1>4. map' \in Maps /\ latest' \in Maps
  BY <1>1, <1>2, <1>3 DEF Maps
<1>5. pc' \in Steps /\ FlushInv' /\ MergeInv'
  BY <1>2, <1>4, FlushBegins, CallEnds
<1>6. LatestFound(map', latest', Holdings(l0, l1))
  <2>1. ASSUME NEW x \in Keys
        PROVE  IF map'[x] # NoEntry THEN latest'[x] = map'[x]
               ELSE Settled(Holdings(l0, l1), x, latest'[x].value)
    <3>1. CASE x = k
      BY <1>1, <1>2, <1>3, <3>1, RealEntries DEF Maps
    <3>2. CASE x # k
      <4>1. map'[x] = map[x] /\ latest'[x] = latest[x]
        BY <1>2, <1>3, <3>2 DEF Maps
      <4>2. IF map[x] # NoEntry THEN latest[x] = map[x]
            ELSE Settled(Holdings(l0, l1), x, latest[x].value)
        BY DEF PInv, LatestInv, LatestFound
      <4> QED  BY <4>1, <4>2
    <3> QED  BY <3>1, <3>2
  <2> QED  BY <1>4, <2>1 DEF LatestFound
<1>7. LatestInv'
  BY <1>2, <1>6 DEF LatestInv
<1> QED  BY <1>2, <1>5, <1>7, LevelsKept DEF PInv

LEMMA FlushKeeps ==
    ASSUME PInv, Flush
    PROVE  PInv'
<1>1. /\ UNCHANGED <<map, latest, l0, l1, next_sst_id, damage>>
      /\ StartFlush \/ pc' = maybe_compact(l0)
  BY DEF Flush, Goto, tables, memtable
<1>2. map' \in Maps
  BY <1>1 DEF PInv, LatestInv, LatestFound
<1>3. pc' \in Steps /\ FlushInv' /\ MergeInv'
  BY <1>1, <1>2, FlushBegins, CallEnds
<1> QED  BY <1>1, <1>3, LevelsKept, LatestKept DEF PInv

LEMMA FlushAddKeeps ==
    ASSUME PInv, FlushAdd
    PROVE  PInv'
<1>1. pc = "FlushAdd" /\ UNCHANGED <<map, latest, l0, l1, next_sst_id, damage>>
  BY DEF FlushAdd, Proceeds, memtable, tables
<1>2. WriterOK(writer) /\ Written(writer, map, UpTo(writer.last_key)) /\ map \in Maps
  BY <1>1 DEF PInv, FlushInv, Flushing, FlushSteps, LatestInv, LatestFound
<1>3. StillToAdd = Unflushed(map, writer)
  BY DEF StillToAdd, Unflushed
<1>4. /\ pc' \in FlushSteps
      /\ Flushing(pc', writer', map)
  <2>1. CASE StillToAdd = {}
    <3>1. pc' = "FlushFinish" /\ writer' = writer
      BY <2>1 DEF FlushAdd, Goto
    <3>2. Written(writer, map, Keys)
      BY <1>2, <1>3, <2>1, FlushDone
    <3> QED  BY <1>2, <3>1, <3>2 DEF Flushing, FlushSteps
  <2>2. CASE StillToAdd # {}
    <3> DEFINE k == Min(StillToAdd)
               v == add(writer, k, map[k])
    <3>1. pc' = pc /\ writer' = v
      BY <2>2 DEF FlushAdd
    <3>2. k = Min(Unflushed(map, writer)) /\ Unflushed(map, writer) # {}
      BY <1>3, <2>2
    <3> HIDE DEF k
    <3>3. WriterOK(v) /\ Written(v, map, UpTo(v.last_key))
      BY <1>2, <3>2, FlushAdds
    <3> HIDE DEF v
    <3> QED  BY <1>1, <3>1, <3>3 DEF Flushing, FlushSteps
  <2> QED  BY <2>1, <2>2
<1>5. FlushInv'
  BY <1>1, <1>4 DEF FlushInv
<1>6. pc' \in Steps /\ MergeInv'
  BY <1>4, Distinct, MergeOff DEF Steps
<1> QED  BY <1>1, <1>5, <1>6, LevelsKept, LatestKept DEF PInv

\* The memtable becomes the newest table of L0.
LEMMA FlushFinishKeeps ==
    ASSUME PInv, FlushFinish
    PROVE  PInv'
<1>1. pc = "FlushFinish" /\ UNCHANGED <<latest, damage, l1>>
  BY DEF FlushFinish, Proceeds
<1>2. WriterOK(writer) /\ Written(writer, map, Keys) /\ map \in Maps
  BY <1>1 DEF PInv, FlushInv, Flushing, FlushSteps, LatestInv, LatestFound
<1>3. LevelsOK(l0, l1, next_sst_id) /\ BadCounted(l0, l1, damage) /\ next_sst_id \in Nat
  BY DEF PInv, LevelsInv, LevelsOK
<1> DEFINE t == NewTable(next_sst_id, writer, map)
<1>4. /\ Opens(finish(writer)) /\ GoodTable(t) /\ t.id = next_sst_id /\ t.holds = map
      /\ t.reader.file.bad = {}
  BY <1>2, <1>3, FinishedTable
<1>5. /\ l0' = <<t>> \o l0 /\ next_sst_id' = next_sst_id + 1 /\ map' = EmptyMap
      /\ pc' = maybe_compact(l0')
  BY <1>4 DEF FlushFinish, Table, NewTable, Reset, Goto
<1> HIDE DEF t
<1>6. /\ LevelsOK(<<t>> \o l0, l1, next_sst_id + 1)
      /\ Holdings(<<t>> \o l0, l1) = Holdings(l0, l1) \cup {Facts(t)}
      /\ \A u \in Holdings(l0, l1) : u.id < t.id /\ u.id \in Nat
      /\ \A i \in DOMAIN (<<t>> \o l0) :
            (<<t>> \o l0)[i] = t \/ \E j \in DOMAIN l0 : (<<t>> \o l0)[i] = l0[j]
  BY <1>3, <1>4, LevelsFlushed
<1>7. BadCounted(<<t>> \o l0, l1, damage)
  <2> DEFINE s == <<t>> \o l0
  <2>1. \A i \in DOMAIN s : s[i] = t \/ \E j \in DOMAIN l0 : s[i] = l0[j]
    BY <1>6
  <2> HIDE DEF s
  <2>2. BadCounted(s, l1, damage)
    BY <1>3, <1>4, <2>1 DEF BadCounted
  <2> QED  BY <2>2 DEF s
<1>8. pc' \in Steps /\ FlushInv' /\ MergeInv'
  BY <1>5, CallEnds
<1>9. LevelsInv'
  BY <1>1, <1>5, <1>6, <1>7, <1>8 DEF LevelsInv
<1>10. LatestFound(EmptyMap, latest, Holdings(l0, l1) \cup {Facts(t)})
  <2>1. LatestFound(map, latest, Holdings(l0, l1))
    BY DEF PInv, LatestInv
  <2>2. t.id \in Nat
    BY <1>3, <1>4
  <2> QED  BY <1>4, <1>6, <2>1, <2>2, FlushKeepsLatest
<1>11. LatestInv'
  BY <1>1, <1>5, <1>6, <1>10 DEF LatestInv
<1> QED  BY <1>8, <1>9, <1>11 DEF PInv

LEMMA GoesIdle == pc' = "Idle" => pc' \in Steps /\ FlushInv' /\ MergeInv'
BY Distinct, FlushOff, MergeOff DEF Steps

LEMMA CompactionFailsKeeps ==
    ASSUME PInv, CompactionFails, UNCHANGED <<map, latest, damage>>
    PROVE  PInv'
<1>1. pc' = "Idle" /\ UNCHANGED <<l0, l1, next_sst_id>>
  BY DEF CompactionFails, Goto
<1> QED  BY <1>1, GoesIdle, LevelsKept, LatestKept DEF PInv

\* The filter is sized with a natural number of keys.
LEMMA ExpectedNat ==
    ASSUME NEW srcs, SourcesOK(srcs)
    PROVE  expected_keys(srcs) \in Nat
<1> DEFINE S == DOMAIN srcs
           f == [i \in S |-> Len(srcs[i].reader.index)]
           pick(s) == CHOOSE x \in s : TRUE
           A(g) == g = [s \in SUBSET S |-> IF s = {} THEN 0
                           ELSE Len(srcs[pick(s)].reader.index) + g[s \ {pick(s)}]]
           B(g) == g = [s \in SUBSET S |-> IF s = {} THEN 0 ELSE f[pick(s)] + g[s \ {pick(s)}]]
<1>1. expected_keys(srcs) = 256 * (CHOOSE g : A(g))[S]
  BY Zenon DEF expected_keys, MapThenSumSet, MapThenFoldSet
<1>2. Sum(f, S) = (CHOOSE g : B(g))[S]
  BY Zenon DEF Sum, SumRec
<1>3. ASSUME NEW g PROVE A(g) <=> B(g)
  <2>1. ASSUME NEW s \in SUBSET S, s # {} PROVE f[pick(s)] = Len(srcs[pick(s)].reader.index)
    <3>1. pick(s) \in s
      BY <2>1
    <3> HIDE DEF pick
    <3> QED  BY <3>1
  <2> HIDE DEF f, pick, S
  <2> QED  BY <2>1
<1> HIDE DEF A, B
<1>4. (CHOOSE g : A(g)) = (CHOOSE g : B(g))
  BY <1>3, Zenon
<1>5. Len(srcs) \in Nat /\ S = 1 .. Len(srcs) /\ \A i \in S : TableOK(srcs[i].reader)
  BY SourceParts
<1>6. IsFiniteSet(S)
  BY <1>5, FS_Interval
<1>7. \A i \in S : f[i] \in Nat
  BY <1>5, TableParts
<1>8. Sum(f, S) \in Nat
  <2> HIDE DEF f, S
  <2> QED  BY <1>6, <1>7, SumNat
<1>9. expected_keys(srcs) = 256 * Sum(f, S)
  <2> HIDE DEF f, S
  <2> QED  BY <1>1, <1>2, <1>4
<1> HIDE DEF f, S
<1> QED  BY <1>8, <1>9

\* MergingIterator::new and SsTableWriter::create.
LEMMA MergingStarts ==
    ASSUME NEW srcs, SourcesOK(srcs), ~NewFails(srcs), NEW n \in Nat, NEW pend, pend = FALSE
    PROVE  Merging("Next", srcs, Started(srcs), StartHeap(srcs), pend, NoWinner, create(n))
<1> DEFINE its == Started(srcs)
           hp == StartHeap(srcs)
           f == LiveMap(srcs)
           K == UpTo(0)
<1>1. /\ ItersOK(srcs, its) /\ HeapIs(srcs, its, hp, {}) /\ NoneSkipped(srcs, its, 0)
      /\ \A i \in DOMAIN srcs : In(srcs, its, i) => FrontOf(srcs, its, i).key > 0
  BY MergeStarts
<1>2. K = {} /\ K \in SUBSET Keys
  BY KeysPositive DEF UpTo
<1> HIDE DEF its, hp, f, K
<1>3. WriterOK(create(n)) /\ create(n).last_key = 0 /\ Written(create(n), f, K)
  <2>1. \A k \in K : f[k] = NoEntry
    BY <1>2
  <2> QED  BY <1>2, <2>1, NothingWritten
<1>4. NoWinner.key = 0
  BY DEF NoWinner
<1> DEFINE w == create(n)
<1>5. WriterOK(w) /\ w.last_key = 0 /\ Written(w, f, K)
  BY <1>3
<1> HIDE DEF w
<1>6. Resting(srcs, its, hp, pend, 0, w)
  BY <1>1, <1>5 DEF Resting, f, K
<1>7. MergeOK(srcs, its, w)
  BY <1>1, <1>5 DEF MergeOK
<1>8. Merging("Next", srcs, its, hp, pend, NoWinner, w)
  BY <1>4, <1>6, <1>7 DEF Merging, MergeSteps
<1> QED  BY <1>8 DEF its, hp, w

LEMMA CompactKeeps ==
    ASSUME PInv, Compact
    PROVE  PInv'
<1>1. UNCHANGED <<map, latest, damage>>
  BY DEF Compact, Proceeds, memtable
<1>2. CASE NewFails(l1 \o l0) \/ next_sst_id \in tmps
  BY <1>1, <1>2, CompactionFailsKeeps DEF Compact
<1>3. CASE ~(NewFails(l1 \o l0) \/ next_sst_id \in tmps)
  <2> DEFINE srcs == l1 \o l0
             n == expected_keys(srcs)
  <2>1. SourcesOK(srcs)
    BY SourcesAre DEF PInv, LevelsInv
  <2>2. /\ sources' = srcs /\ iters' = Started(srcs) /\ heap' = StartHeap(srcs)
        /\ pending_error' = FALSE /\ winner' = NoWinner /\ writer' = create(n)
        /\ pc' = "Next" /\ UNCHANGED <<l0, l1, next_sst_id>>
    BY <1>3 DEF Compact, new, Started, StartHeap, Goto, tables
  <2>3. ~NewFails(srcs)
    BY <1>3
  <2>4. sources' = l1' \o l0'
    BY <2>2
  <2> HIDE DEF srcs
  <2>5. n \in Nat
    BY <2>1, ExpectedNat
  <2> HIDE DEF n
  <2>6. Merging("Next", srcs, Started(srcs), StartHeap(srcs), pending_error', NoWinner, create(n))
    BY <2>1, <2>2, <2>3, <2>5, MergingStarts
  <2>7. MergeInv'
    BY <2>2, <2>4, <2>6 DEF MergeInv
  <2>8. pc' \in Steps /\ FlushInv'
    BY <2>2, FlushOff DEF Steps, FlushSteps, MergeSteps
  <2> QED  BY <1>1, <2>2, <2>7, <2>8, LevelsKept, LatestKept DEF PInv
<1> QED  BY <1>2, <1>3

LEMMA TopIsTopOf == Top = TopOf(heap)
BY DEF Top, TopOf

\* What is known while a merge runs.
LEMMA MergeRuns ==
    ASSUME PInv, pc \in MergeSteps
    PROVE  /\ sources = l1 \o l0
           /\ Merging(pc, sources, iters, heap, pending_error, winner, writer)
           /\ MergeOK(sources, iters, writer) /\ pending_error \in BOOLEAN
BY DEF PInv, MergeInv, Merging

LEMMA MergeGoesOn ==
    ASSUME PInv, UNCHANGED <<map, latest, damage, l0, l1, next_sst_id, sources>>,
           pc \in MergeSteps, pc' \in MergeSteps,
           Merging(pc', sources, iters', heap', pending_error', winner', writer')
    PROVE  PInv'
<1>1. sources' = l1' \o l0'
  BY MergeRuns
<1>2. MergeInv'
  BY <1>1 DEF MergeInv
<1>3. pc' \in Steps /\ FlushInv'
  BY Distinct, FlushOff DEF Steps
<1> QED  BY <1>2, <1>3, LevelsKept, LatestKept DEF PInv

LEMMA NextItemKeeps ==
    ASSUME PInv, NextItem
    PROVE  PInv'
<1>1. pc = "Next" /\ pc \in MergeSteps /\ UNCHANGED <<map, latest, damage>>
  BY DEF NextItem, Proceeds, memtable, MergeSteps
<1>2. /\ MergeOK(sources, iters, writer) /\ pending_error \in BOOLEAN
      /\ Resting(sources, iters, heap, pending_error, winner.key, writer)
  BY <1>1, MergeRuns DEF Merging
<1>3. CASE pending_error /\ CompactionFails /\ MergeReset
  BY <1>1, <1>3, CompactionFailsKeeps
<1>4. CASE TakeWinner /\ Goto("Drain") /\ UNCHANGED <<writer, tables>>
  <2>1. /\ ~pending_error /\ heap # {} /\ winner' = TopOf(heap) /\ heap' = heap \ {TopOf(heap)}
        /\ pc' = "Drain" /\ UNCHANGED <<sources, iters, pending_error, writer, l0, l1, next_sst_id>>
    BY <1>4, TopIsTopOf DEF TakeWinner, Goto, tables
  <2>2. Taken(sources, iters, heap \ {TopOf(heap)}, pending_error, TopOf(heap), writer)
    BY <1>2, <2>1, WinnerTaken
  <2>3. pc' \in MergeSteps
    BY <2>1 DEF MergeSteps
  <2>4. Merging(pc', sources, iters', heap', pending_error', winner', writer')
    BY <1>2, <2>1, <2>2, <2>3 DEF Merging
  <2> QED  BY <1>1, <2>1, <2>3, <2>4, MergeGoesOn
<1>5. CASE ~pending_error /\ heap = {} /\ Goto("Finish") /\ UNCHANGED <<merge, writer, tables>>
  <2>1. /\ pc' = "Finish" /\ UNCHANGED <<sources, iters, heap, pending_error, winner, writer>>
        /\ UNCHANGED <<l0, l1, next_sst_id>>
    BY <1>5 DEF Goto, merge, tables
  <2>2. Written(writer, LiveMap(sources), Keys)
    <3>1. Resting(sources, iters, {}, pending_error, winner.key, writer)
      BY <1>2, <1>5
    <3> QED  BY <1>2, <1>5, <3>1, MergeEnds
  <2>3. pc' \in MergeSteps
    BY <2>1 DEF MergeSteps
  <2>4. Merging(pc', sources, iters', heap', pending_error', winner', writer')
    BY <1>2, <2>1, <2>2, <2>3 DEF Merging
  <2> QED  BY <1>1, <2>1, <2>3, <2>4, MergeGoesOn
<1> QED  BY <1>3, <1>4, <1>5 DEF NextItem

LEMMA RefillIs ==
    ASSUME NEW i, NEW rest, Refill(i, rest), pending_error \in BOOLEAN
    PROVE  /\ iters' = Advance(sources, iters, i) /\ heap' = rest \cup Added(sources, iters, i)
           /\ pending_error' = (pending_error \/ Broken(sources, iters, i))
           /\ sources' = sources
<1>1. pending_error' = PendingAfter(NextOf(sources, iters, i).item)
  BY Zenon DEF Refill, NextOf
<1>2. pending_error' = (pending_error \/ Broken(sources, iters, i))
  BY <1>1, Zenon DEF PendingAfter, Broken
<1> QED  BY <1>2 DEF Refill, Advance, Added, Gone, NextOf

LEMMA DrainKeeps ==
    ASSUME PInv, Drain
    PROVE  PInv'
<1>1. /\ pc = "Drain" /\ pc \in MergeSteps
      /\ UNCHANGED <<map, latest, damage, l0, l1, next_sst_id, writer>>
  BY DEF Drain, Proceeds, memtable, tables, MergeSteps
<1>2. /\ MergeOK(sources, iters, writer) /\ pending_error \in BOOLEAN
      /\ Taken(sources, iters, heap, pending_error, winner, writer)
  BY <1>1, MergeRuns DEF Merging
<1>3. CASE DropStale /\ UNCHANGED pc
  <2> DEFINE t == TopOf(heap).source_idx
             broken == pending_error \/ Broken(sources, iters, t)
  <2>1. /\ ~pending_error /\ heap # {} /\ TopOf(heap).key = winner.key
        /\ Refill(t, heap \ {TopOf(heap)}) /\ UNCHANGED winner /\ pc' = pc
    BY <1>3, TopIsTopOf DEF DropStale, StaleOnTop, WithoutStale
  <2>2. /\ iters' = Advance(sources, iters, t)
        /\ heap' = (heap \ {TopOf(heap)}) \cup Added(sources, iters, t)
        /\ pending_error' = broken /\ sources' = sources
    <3> DEFINE rest == heap \ {TopOf(heap)}
    <3>1. Refill(t, rest)
      BY <2>1
    <3> HIDE DEF t, rest
    <3>2. /\ iters' = Advance(sources, iters, t) /\ heap' = rest \cup Added(sources, iters, t)
          /\ pending_error' = (pending_error \/ Broken(sources, iters, t))
          /\ sources' = sources
      BY <1>2, <3>1, RefillIs
    <3> QED  BY <3>2 DEF rest
  <2>3. /\ MergeOK(sources, Advance(sources, iters, t), writer)
        /\ Taken(sources, Advance(sources, iters, t),
                 (heap \ {TopOf(heap)}) \cup Added(sources, iters, t), broken, winner, writer)
    BY <1>2, <2>1, StaleDropped
  <2> HIDE DEF t, broken
  <2>4. MergeOK(sources, iters', writer) /\ Taken(sources, iters', heap', pending_error', winner, writer)
    BY <2>2, <2>3
  <2>5. pending_error' \in BOOLEAN
    BY <2>2 DEF broken
  <2>6. Merging(pc', sources, iters', heap', pending_error', winner', writer')
    BY <1>1, <2>1, <2>4, <2>5 DEF Merging
  <2> QED  BY <1>1, <2>1, <2>2, <2>6, MergeGoesOn
<1>4. CASE DrainDone /\ Goto("Refill") /\ UNCHANGED merge
  <2>1. /\ pc' = "Refill" /\ UNCHANGED <<sources, iters, heap, pending_error, winner>>
        /\ pending_error \/ heap = {} \/ TopOf(heap).key # winner.key
    BY <1>4, TopIsTopOf DEF DrainDone, StaleOnTop, Goto, merge
  <2>2. Drained(sources, iters, pending_error, winner)
    BY <1>2, <2>1, DrainedIs
  <2>3. pc' \in MergeSteps
    BY <2>1 DEF MergeSteps
  <2>4. Merging(pc', sources, iters', heap', pending_error', winner', writer')
    BY <1>1, <1>2, <2>1, <2>2, <2>3 DEF Merging
  <2> QED  BY <1>1, <2>1, <2>3, <2>4, MergeGoesOn
<1> QED  BY <1>3, <1>4 DEF Drain

LEMMA EmitKeeps ==
    ASSUME PInv, Emit
    PROVE  PInv'
<1>1. pc = "Refill" /\ pc \in MergeSteps /\ UNCHANGED <<map, latest, damage>>
  BY DEF Emit, Proceeds, memtable, MergeSteps
<1>2. /\ MergeOK(sources, iters, writer) /\ pending_error \in BOOLEAN
      /\ Taken(sources, iters, heap, pending_error, winner, writer)
      /\ Drained(sources, iters, pending_error, winner)
  BY <1>1, MergeRuns DEF Merging
<1>3. CASE Dropped(winner.entry) \/ Accepts(writer, winner.key)
  <2> DEFINE t == winner.source_idx
             v == IF Dropped(winner.entry) THEN writer ELSE add(writer, winner.key, winner.entry)
             broken == pending_error \/ Broken(sources, iters, t)
  <2>1. /\ Refill(t, heap) /\ UNCHANGED winner /\ writer' = v /\ pc' = "Next"
        /\ UNCHANGED <<l0, l1, next_sst_id>>
    BY <1>3 DEF Emit, RefillWinner, Goto, tables
  <2>2. /\ iters' = Advance(sources, iters, t) /\ heap' = heap \cup Added(sources, iters, t)
        /\ pending_error' = broken /\ sources' = sources
    BY <1>2, <2>1, RefillIs
  <2>3. /\ MergeOK(sources, Advance(sources, iters, t), v)
        /\ Resting(sources, Advance(sources, iters, t), heap \cup Added(sources, iters, t),
                   broken, winner.key, v)
    <3>1. v = IF Dropped(winner.entry) THEN writer ELSE add(writer, winner.key, winner.entry)
      OBVIOUS
    <3> HIDE DEF v
    <3> QED  BY <1>2, <3>1, WinnerEmitted
  <2> HIDE DEF t, v, broken
  <2>4. MergeOK(sources, iters', writer') /\ Resting(sources, iters', heap', pending_error', winner'.key, writer')
    BY <2>1, <2>2, <2>3
  <2>5. pending_error' \in BOOLEAN
    BY <2>2 DEF broken
  <2>6. pc' \in MergeSteps
    BY <2>1 DEF MergeSteps
  <2>7. Merging(pc', sources, iters', heap', pending_error', winner', writer')
    BY <2>1, <2>4, <2>5, <2>6 DEF Merging
  <2> QED  BY <1>1, <2>1, <2>2, <2>6, <2>7, MergeGoesOn
<1>4. CASE ~(Dropped(winner.entry) \/ Accepts(writer, winner.key))
  BY <1>1, <1>4, CompactionFailsKeeps DEF Emit
<1> QED  BY <1>3, <1>4

\* Nothing was added, nothing is live.
LEMMA NothingLive ==
    ASSUME NEW w, WriterOK(w), NEW f \in Maps, Written(w, f, Keys), w.last_key = 0
    PROVE  \A k \in Keys : f[k] = NoEntry
<1> SUFFICES ASSUME NEW k \in Keys, f[k] # NoEntry PROVE FALSE
  OBVIOUS
<1>1. Stored(w, k, f[k])
  BY DEF Written
<1>2. k \in Nat /\ k > 0 /\ k <= w.last_key
  BY <1>1, StoredKeys
<1> QED  BY <1>2

LEMMA FinishKeeps ==
    ASSUME PInv, Finish
    PROVE  PInv'
<1>1. pc = "Finish" /\ pc \in MergeSteps /\ pc' = "Idle" /\ UNCHANGED <<map, latest, damage>>
  BY DEF Finish, Proceeds, memtable, MergeSteps, Goto
<1>2. /\ sources = l1 \o l0 /\ SourcesOK(sources) /\ WriterOK(writer)
      /\ Written(writer, LiveMap(sources), Keys)
  BY <1>1, MergeRuns DEF Merging, MergeOK
<1>3. LevelsOK(l0, l1, next_sst_id) /\ BadCounted(l0, l1, damage)
      /\ next_sst_id \in Nat /\ damage \in Nat
  BY DEF PInv, LevelsInv, LevelsOK, BadCounted
<1> DEFINE f == LiveMap(sources)
           t == NewTable(next_sst_id, writer, f)
<1>4. f \in Maps
  BY <1>2, LiveMapIs
<1>5. /\ Opens(finish(writer)) /\ GoodTable(t) /\ t.id = next_sst_id /\ t.holds = f
      /\ t.reader.file.bad = {}
  <2> HIDE DEF f
  <2> QED  BY <1>2, <1>3, <1>4, FinishedTable DEF f
<1>6. [k \in Keys |-> LiveNewest(k)] = f
  BY DEF LiveNewest, NewestOf, LiveMap, LiveIn, NewestIn
<1>7. l0' = <<>> /\ l1' = NewL1 /\ next_sst_id' = next_sst_id + 1
  BY <1>5 DEF Finish
<1>8. NewL1 = IF writer.last_key = 0 THEN <<>> ELSE <<t>>
  BY <1>6 DEF NewL1, Table, NewTable
<1> HIDE DEF t
<1>9. {Facts(sources[i]) : i \in DOMAIN sources} = Holdings(l0, l1)
  BY <1>2, <1>3, SourcesAre
<1>10. LatestFound(map, latest, {Facts(sources[i]) : i \in DOMAIN sources})
  BY <1>9 DEF PInv, LatestInv
<1>11. /\ LevelsOK(<<>>, <<>>, next_sst_id + 1) /\ Holdings(<<>>, <<>>) = {}
       /\ LevelsOK(<<>>, <<t>>, next_sst_id + 1) /\ Holdings(<<>>, <<t>>) = {Facts(t)}
       /\ BadCounted(<<>>, <<>>, damage) /\ BadCounted(<<>>, <<t>>, damage)
  BY <1>3, <1>5, LevelsMerged
<1>12. pc' \in Steps /\ FlushInv' /\ MergeInv'
  BY <1>1, GoesIdle
<1>13. CASE writer.last_key = 0
  <2>1. \A k \in Keys : f[k] = NoEntry
    BY <1>2, <1>4, <1>13, NothingLive
  <2>2. LatestFound(map, latest, Holdings(<<>>, <<>>))
    BY <1>2, <1>10, <1>11, <2>1, MergeKeepsLatest
  <2>3. l0' = <<>> /\ l1' = <<>>
    BY <1>7, <1>8, <1>13
  <2>4. LevelsInv' /\ LatestInv'
    BY <1>1, <1>7, <1>11, <1>12, <2>2, <2>3 DEF LevelsInv, LatestInv
  <2> QED  BY <1>12, <2>4 DEF PInv
<1>14. CASE writer.last_key # 0
  <2>1. LatestFound(map, latest, Holdings(<<>>, <<t>>))
    <3>1. Holdings(<<>>, <<t>>) = {Facts(t)} /\ t.holds = LiveMap(sources) /\ t.id \in Nat
      BY <1>3, <1>5, <1>11
    <3> QED  BY <1>2, <1>10, <3>1, MergeKeepsLatest
  <2>2. l0' = <<>> /\ l1' = <<t>>
    BY <1>7, <1>8, <1>14
  <2>3. LevelsInv' /\ LatestInv'
    BY <1>1, <1>7, <1>11, <1>12, <2>1, <2>2 DEF LevelsInv, LatestInv
  <2> QED  BY <1>12, <2>3 DEF PInv
<1> QED  BY <1>13, <1>14

\* A damaged block changes nothing that is known of a level but the damage.
SameFacts(s, u) ==
    /\ u \in Seq(TableRec) /\ Len(u) = Len(s) /\ DOMAIN u = DOMAIN s
    /\ \A j \in DOMAIN s : GoodTable(u[j]) /\ u[j].id = s[j].id /\ Facts(u[j]) = Facts(s[j])

LEMMA LevelDamaged ==
    ASSUME NEW s \in Seq(TableRec), \A j \in DOMAIN s : GoodTable(s[j]),
           NEW n \in DOMAIN s, NEW i \in DOMAIN s[n].reader.index
    PROVE  SameFacts(s, [s EXCEPT ![n] = Damaged(@, i)])
<1> DEFINE t == s[n]
           r == [t.reader EXCEPT !.file.bad = @ \cup {i}]
           d == Damaged(t, i)
           u == [s EXCEPT ![n] = d]
<1>1. t \in TableRec /\ TableOK(t.reader) /\ TableHolds(t.reader, t.holds)
  BY DEF GoodTable
<1>2. TableOK(r) /\ TableHolds(r, t.holds)
  <2> DEFINE q == t.reader
             h == t.holds
  <2>1. TableOK(q) /\ TableHolds(q, h) /\ i \in DOMAIN q.index
    BY <1>1
  <2> HIDE DEF q, h
  <2>2. LET x == [q EXCEPT !.file.bad = @ \cup {i}]
        IN  TableOK(x) /\ TableHolds(x, h) /\ x.file.bad # {}
    BY <2>1, DamagedTable
  <2> QED  BY <2>2 DEF q, h
<1>3. d = [t EXCEPT !.reader = r]
  BY <1>1 DEF Damaged, TableRec
<1> HIDE DEF r, d
<1>4. r \in Reader
  BY <1>2 DEF TableOK
<1>5. d \in TableRec /\ d.id = t.id /\ d.reader = r /\ d.holds = t.holds
  <2> HIDE DEF t
  <2> QED  BY <1>1, <1>3, <1>4 DEF TableRec
<1>6. GoodTable(d) /\ Facts(d) = Facts(t)
  BY <1>2, <1>5 DEF GoodTable, Facts
<1>7. Len(s) \in Nat /\ DOMAIN s = 1 .. Len(s) /\ s = [j \in 1 .. Len(s) |-> s[j]]
      /\ \A j \in 1 .. Len(s) : s[j] \in TableRec
  BY LenProperties, ElementOfSeq
<1>8. DOMAIN u = DOMAIN s /\ u[n] = d /\ \A j \in DOMAIN s : j # n => u[j] = s[j]
  OBVIOUS
<1>9. u \in [1 .. Len(s) -> TableRec]
  BY <1>5, <1>7
<1> HIDE DEF u, t
<1>10. u \in Seq(TableRec) /\ Len(u) = Len(s)
  <2>1. u \in Seq(TableRec)
    BY <1>7, <1>9, IsASeq
  <2>2. DOMAIN u = 1 .. Len(u) /\ Len(u) \in Nat
    BY <2>1, LenProperties
  <2> QED  BY <1>7, <1>8, <2>1, <2>2
<1>11. \A j \in DOMAIN s : GoodTable(u[j]) /\ u[j].id = s[j].id /\ Facts(u[j]) = Facts(s[j])
  <2> SUFFICES ASSUME NEW j \in DOMAIN s
               PROVE  GoodTable(u[j]) /\ u[j].id = s[j].id /\ Facts(u[j]) = Facts(s[j])
    OBVIOUS
  <2>1. CASE j = n
    BY <1>5, <1>6, <1>8, <2>1 DEF t
  <2>2. CASE j # n
    BY <1>8, <2>2
  <2> QED  BY <2>1, <2>2
<1>12. SameFacts(s, u)
  BY <1>8, <1>10, <1>11 DEF SameFacts
<1> QED  BY <1>12 DEF u, d, t

LEMMA LevelsDamaged ==
    ASSUME NEW zero, NEW one, NEW next, LevelsOK(zero, one, next), NEW zero2, NEW one2,
           SameFacts(zero, zero2), SameFacts(one, one2)
    PROVE  /\ LevelsOK(zero2, one2, next) /\ Holdings(zero2, one2) = Holdings(zero, one)
           /\ \A count \in Nat : BadCounted(zero2, one2, count + 1)
<1>1. LevelsOK(zero2, one2, next)
  BY DEF LevelsOK, SameFacts
<1>2. Holdings(zero2, one2) = Holdings(zero, one)
  <2>1. {Facts(zero2[i]) : i \in DOMAIN zero2} = {Facts(zero[i]) : i \in DOMAIN zero}
    BY DEF SameFacts
  <2>2. {Facts(one2[i]) : i \in DOMAIN one2} = {Facts(one[i]) : i \in DOMAIN one}
    BY DEF SameFacts
  <2> QED  BY <2>1, <2>2 DEF Holdings
<1>3. \A count \in Nat : BadCounted(zero2, one2, count + 1)
  BY DEF BadCounted
<1> QED  BY <1>1, <1>2, <1>3

LEMMA Undamaged ==
    ASSUME NEW s \in Seq(TableRec), \A j \in DOMAIN s : GoodTable(s[j])
    PROVE  SameFacts(s, s)
BY DEF SameFacts

LEMMA DamageKeeps ==
    ASSUME PInv, Damage
    PROVE  PInv'
<1>1. /\ pc = "Idle" /\ damage' = damage + 1
      /\ UNCHANGED <<pc, map, latest, next_sst_id>>
  BY DEF Damage, memtable
<1>2. /\ LevelsOK(l0, l1, next_sst_id) /\ damage \in Nat
      /\ l0 \in Seq(TableRec) /\ l1 \in Seq(TableRec)
      /\ \A j \in DOMAIN l0 : GoodTable(l0[j])
      /\ \A j \in DOMAIN l1 : GoodTable(l1[j])
  BY DEF PInv, LevelsInv, LevelsOK, BadCounted
<1>3. SameFacts(l0, l0') /\ SameFacts(l1, l1')
  <2>1. CASE \E n \in DOMAIN l0 : \E i \in DOMAIN l0[n].reader.index :
                 l0' = [l0 EXCEPT ![n] = Damaged(@, i)] /\ UNCHANGED l1
    <3>1. PICK n \in DOMAIN l0 : \E i \in DOMAIN l0[n].reader.index :
                 l0' = [l0 EXCEPT ![n] = Damaged(@, i)] /\ UNCHANGED l1
      BY <2>1
    <3>2. PICK i \in DOMAIN l0[n].reader.index : l0' = [l0 EXCEPT ![n] = Damaged(@, i)] /\ l1' = l1
      BY <3>1
    <3>3. SameFacts(l0, [l0 EXCEPT ![n] = Damaged(@, i)])
      BY <1>2, LevelDamaged
    <3> QED  BY <1>2, <3>2, <3>3, Undamaged
  <2>2. CASE \E n \in DOMAIN l1 : \E i \in DOMAIN l1[n].reader.index :
                 l1' = [l1 EXCEPT ![n] = Damaged(@, i)] /\ UNCHANGED l0
    <3>1. PICK n \in DOMAIN l1 : \E i \in DOMAIN l1[n].reader.index :
                 l1' = [l1 EXCEPT ![n] = Damaged(@, i)] /\ UNCHANGED l0
      BY <2>2
    <3>2. PICK i \in DOMAIN l1[n].reader.index : l1' = [l1 EXCEPT ![n] = Damaged(@, i)] /\ l0' = l0
      BY <3>1
    <3>3. SameFacts(l1, [l1 EXCEPT ![n] = Damaged(@, i)])
      BY <1>2, LevelDamaged
    <3> QED  BY <1>2, <3>2, <3>3, Undamaged
  <2> QED  BY <2>1, <2>2 DEF Damage
<1>4. /\ LevelsOK(l0', l1', next_sst_id) /\ Holdings(l0', l1') = Holdings(l0, l1)
      /\ BadCounted(l0', l1', damage + 1)
  <2> DEFINE zero2 == l0'
             one2 == l1'
  <2> HIDE DEF zero2, one2
  <2>1. SameFacts(l0, zero2) /\ SameFacts(l1, one2)
    BY <1>3 DEF zero2, one2
  <2>0. LevelsOK(l0, l1, next_sst_id)
    BY <1>2
  <2>2. /\ LevelsOK(zero2, one2, next_sst_id) /\ Holdings(zero2, one2) = Holdings(l0, l1)
        /\ BadCounted(zero2, one2, damage + 1)
    <3>1. /\ LevelsOK(zero2, one2, next_sst_id) /\ Holdings(zero2, one2) = Holdings(l0, l1)
          /\ \A count \in Nat : BadCounted(zero2, one2, count + 1)
      BY <2>0, <2>1, LevelsDamaged
    <3> QED  BY <1>2, <3>1
  <2> QED  BY <2>2 DEF zero2, one2
<1>5. LevelsInv'
  BY <1>1, <1>4 DEF LevelsInv, PInv
<1>6. LatestInv'
  BY <1>1, <1>4 DEF LatestInv, PInv
<1> QED  BY <1>1, <1>5, <1>6, GoesIdle DEF PInv

LEMMA PipelineInvariant == Spec => []PInv
<1>1. Init => PInv
  <2> SUFFICES ASSUME Init PROVE PInv
    OBVIOUS
  <2>1. /\ pc = "Idle" /\ map = EmptyMap /\ latest = EmptyMap /\ l0 = <<>> /\ l1 = <<>>
        /\ next_sst_id = 0 /\ damage = 0
    BY DEF Init, MemtableInit
  <2>2. LevelsInv
    BY <2>1 DEF LevelsInv, LevelsOK, BadCounted, Steps
  <2>3. LatestInv
    <3>1. EmptyMap \in Maps /\ \A k \in Keys : EmptyMap[k] = NoEntry
      BY EmptySize DEF EmptyMap
    <3>2. Holdings(l0, l1) = {} /\ NoEntry.value = NoValue
      BY <2>1 DEF Holdings, NoEntry
    <3> QED  BY <2>1, <3>1, <3>2 DEF LatestInv, LatestFound, Settled
  <2>4. FlushInv /\ MergeInv
    BY <2>1, Distinct DEF FlushInv, MergeInv
  <2> QED  BY <2>2, <2>3, <2>4 DEF PInv
<1>2. PInv /\ [Next]_vars => PInv'
  <2> SUFFICES ASSUME PInv, [Next]_vars PROVE PInv'
    OBVIOUS
  <2>1. CASE \E k \in Keys, e \in Writes : Write(k, e)
    BY <2>1, WriteKeeps
  <2>2. CASE Flush
    BY <2>2, FlushKeeps
  <2>3. CASE FlushAdd
    BY <2>3, FlushAddKeeps
  <2>4. CASE FlushFinish
    BY <2>4, FlushFinishKeeps
  <2>5. CASE Compact
    BY <2>5, CompactKeeps
  <2>6. CASE NextItem
    BY <2>6, NextItemKeeps
  <2>7. CASE Drain
    BY <2>7, DrainKeeps
  <2>8. CASE Emit
    BY <2>8, EmitKeeps
  <2>9. CASE Finish
    BY <2>9, FinishKeeps
  <2>10. CASE Damage
    BY <2>10, DamageKeeps
  <2>11. CASE UNCHANGED vars
    BY <2>11 DEF vars, memtable, merge, tables, PInv, LevelsInv, LatestInv, FlushInv, MergeInv
  <2> QED  BY <2>1, <2>2, <2>3, <2>4, <2>5, <2>6, <2>7, <2>8, <2>9, <2>10, <2>11 DEF Next, Step
<1> QED  BY <1>1, <1>2, PTL DEF Spec

-----------------------------------------------------------------------------
(* Theorems                                                                *)

\* Every table that flush_inner and compact_l0_l1 register is as its block
\* index says, whatever was written and wherever the writer cut its blocks.
THEOREM TablesAlwaysWellFormed == Spec => []TablesWellFormed
<1>1. PInv => TablesWellFormed
  BY TableWellFormed DEF PInv, LevelsInv, LevelsOK, GoodTable, TablesWellFormed
<1> QED  BY <1>1, PipelineInvariant, PTL

\* SsTableWriter::add accepts every key that flush_inner and the merge hand
\* it, and SsTableReader::open every file that finish wrote.
THEOREM NothingRefused == Spec => []NeverRefused
<1>1. PInv => NeverRefused
  <2> SUFFICES ASSUME PInv PROVE NeverRefused
    OBVIOUS
  <2>1. ASSUME pc = "Refill" PROVE Accepts(writer, winner.key)
    <3>1. /\ SourcesOK(sources) /\ WriterOK(writer)
          /\ Taken(sources, iters, heap, pending_error, winner, writer)
      BY <2>1 DEF PInv, MergeInv, Merging, MergeOK, MergeSteps
    <3>2. winner.key \in Nat /\ writer.last_key \in Nat
      BY <3>1, WinnerIs, LastKeyNat
    <3>3. writer.last_key < winner.key
      BY <3>1 DEF Taken
    <3> QED  BY <3>2, <3>3 DEF Accepts
  <2>2. ASSUME pc = "FlushFinish" PROVE Opens(finish(writer))
    <3>1. WriterOK(writer)
      BY <2>2 DEF PInv, FlushInv, Flushing, FlushSteps
    <3> QED  BY <3>1, TableFinished
  <2>3. ASSUME pc = "Finish" PROVE Opens(finish(writer))
    <3>1. WriterOK(writer)
      BY <2>3 DEF PInv, MergeInv, Merging, MergeOK, MergeSteps
    <3> QED  BY <3>1, TableFinished
  <2> QED  BY <2>1, <2>2, <2>3 DEF NeverRefused
<1> QED  BY <1>1, PipelineInvariant, PTL

\* MergingIterator::next yields the newest entry of every key in ascending
\* order, each once, and compact_l0_l1 writes those that are no tombstones;
\* a read error ends the merge instead of leaving a source out.
THEOREM MergeIsExact == Spec => []MergeExact
<1>1. PInv => MergeExact
  <2> SUFFICES ASSUME PInv PROVE MergeExact
    OBVIOUS
  <2> DEFINE f == LiveMap(sources)
  <2>1. \A k \in Keys : f[k] = LiveNewest(k)
    BY DEF LiveMap, LiveIn, NewestIn, LiveNewest, NewestOf
  <2>2. \A k : Output(k) = OutputOf(writer, k)
    BY Zenon DEF Output, OutputOf
  <2>3. ASSUME pc \in MergeSteps PROVE WriterOK(writer) /\ f \in Maps
    BY <2>3, MergeRuns, LiveMapIs DEF MergeOK
  <2>4. ASSUME pc = "Next", NEW k \in Keys
        PROVE  Output(k) = IF k <= winner.key THEN LiveNewest(k) ELSE NoEntry
    <3>1. pc \in MergeSteps
      BY <2>4 DEF MergeSteps
    <3>2. Written(writer, f, UpTo(winner.key))
      BY <2>4, <3>1, MergeRuns DEF Merging, Resting
    <3>3. UpTo(winner.key) \in SUBSET Keys /\ (k \in UpTo(winner.key) <=> k <= winner.key)
      BY DEF UpTo
    <3> DEFINE K == UpTo(winner.key)
    <3>4. WriterOK(writer) /\ f \in Maps
      BY <2>3, <3>1
    <3> HIDE DEF f, K
    <3>5. OutputOf(writer, k) = IF k \in K THEN f[k] ELSE NoEntry
      BY <3>2, <3>3, <3>4, OutputIs DEF K
    <3> QED  BY <2>1, <2>2, <3>3, <3>5 DEF K
  <2>5. ASSUME pc = "Finish", NEW k \in Keys PROVE Output(k) = LiveNewest(k)
    <3>1. pc \in MergeSteps
      BY <2>5 DEF MergeSteps
    <3>2. Written(writer, f, Keys)
      BY <2>5, <3>1, MergeRuns DEF Merging
    <3>3. WriterOK(writer) /\ f \in Maps
      BY <2>3, <3>1
    <3> HIDE DEF f
    <3>4. OutputOf(writer, k) = IF k \in Keys THEN f[k] ELSE NoEntry
      BY <3>2, <3>3, OutputIs
    <3> QED  BY <2>1, <2>2, <3>4
  <2> HIDE DEF f
  <2> QED  BY <2>4, <2>5 DEF MergeExact
<1> QED  BY <1>1, PipelineInvariant, PTL

\* The readers in the order in which Engine::get asks them.
LEMMA ReadersAre ==
    ASSUME NEW zero, NEW one, NEW next, LevelsOK(zero, one, next),
           NEW count, BadCounted(zero, one, count)
    PROVE  LET s == zero \o one
           IN  /\ DOMAIN s \in SUBSET Nat
               /\ \A i \in DOMAIN s : GoodTable(s[i]) /\ s[i].id \in Nat
                                      /\ (s[i].reader.file.bad # {} => count > 0)
               /\ \A i, j \in DOMAIN s : i < j => s[i].id > s[j].id
               /\ {Facts(s[i]) : i \in DOMAIN s} = Holdings(zero, one)
<1> DEFINE s == zero \o one
           m == Len(zero)
           n == Len(one)
<1>1. zero \in Seq(TableRec) /\ one \in Seq(TableRec)
  BY DEF LevelsOK
<1>2. m \in Nat /\ DOMAIN zero = 1 .. m /\ n \in Nat /\ DOMAIN one = 1 .. n
  BY <1>1, LenProperties
<1>3. /\ s \in Seq(TableRec) /\ Len(s) = m + n
      /\ \A i \in 1 .. m + n : s[i] = IF i <= m THEN zero[i] ELSE one[i - m]
  BY <1>1, ConcatProperties
<1> HIDE DEF s
<1>4. DOMAIN s = 1 .. m + n
  BY <1>3, LenProperties
<1>5. ASSUME NEW i \in DOMAIN s
      PROVE  \/ i \in 1 .. m /\ s[i] = zero[i]
             \/ i > m /\ i - m \in 1 .. n /\ s[i] = one[i - m]
  <2>1. CASE i <= m
    BY <1>2, <1>3, <1>4, <2>1
  <2>2. CASE ~(i <= m)
    <3>1. i > m /\ i - m \in 1 .. n
      BY <1>2, <1>4, <2>2
    <3> QED  BY <1>3, <1>4, <2>2, <3>1
  <2> QED  BY <2>1, <2>2
<1>6. \A i \in 1 .. m : i \in DOMAIN s /\ s[i] = zero[i]
  <2> SUFFICES ASSUME NEW i \in 1 .. m PROVE i \in 1 .. m + n /\ s[i] = zero[i]
    BY <1>4
  <2>1. i \in 1 .. m + n /\ i <= m
    BY <1>2
  <2> QED  BY <1>3, <2>1
<1>7. \A i \in 1 .. n : i + m \in DOMAIN s /\ s[i + m] = one[i]
  <2> SUFFICES ASSUME NEW i \in 1 .. n PROVE i + m \in 1 .. m + n /\ s[i + m] = one[i]
    BY <1>4
  <2>1. i + m \in 1 .. m + n /\ ~(i + m <= m) /\ (i + m) - m = i
    BY <1>2
  <2> QED  BY <1>3, <2>1
<1>8. \A i \in DOMAIN s : GoodTable(s[i]) /\ s[i].id \in Nat /\ (s[i].reader.file.bad # {} => count > 0)
  <2> SUFFICES ASSUME NEW i \in DOMAIN s
               PROVE  GoodTable(s[i]) /\ s[i].id \in Nat /\ (s[i].reader.file.bad # {} => count > 0)
    OBVIOUS
  <2>1. GoodTable(s[i])
    BY <1>2, <1>5 DEF LevelsOK
  <2>2. s[i].id \in Nat
    BY <2>1 DEF GoodTable, TableRec
  <2> QED  BY <1>2, <1>5, <2>1, <2>2 DEF BadCounted
<1>9. ASSUME NEW i \in DOMAIN s, NEW j \in DOMAIN s, i < j PROVE s[i].id > s[j].id
  <2>1. CASE i \in 1 .. m /\ s[i] = zero[i]
    <3>1. CASE j \in 1 .. m /\ s[j] = zero[j]
      BY <1>2, <1>9, <2>1, <3>1 DEF LevelsOK
    <3>2. CASE j > m /\ j - m \in 1 .. n /\ s[j] = one[j - m]
      BY <1>2, <2>1, <3>2 DEF LevelsOK
    <3> QED  BY <1>5, <3>1, <3>2
  <2>2. CASE i > m /\ i - m \in 1 .. n
    <3>1. n <= 1
      BY DEF LevelsOK
    <3> QED  BY <1>2, <1>4, <1>9, <2>2, <3>1
  <2> QED  BY <1>5, <2>1, <2>2
<1>10. {Facts(s[i]) : i \in DOMAIN s} = Holdings(zero, one)
  <2>1. \A i \in DOMAIN s : Facts(s[i]) \in Holdings(zero, one)
    BY <1>2, <1>5 DEF Holdings
  <2>2. \A i \in DOMAIN zero : Facts(zero[i]) \in {Facts(s[j]) : j \in DOMAIN s}
    BY <1>2, <1>6
  <2>3. \A i \in DOMAIN one : Facts(one[i]) \in {Facts(s[j]) : j \in DOMAIN s}
    BY <1>2, <1>7
  <2> QED  BY <2>1, <2>2, <2>3 DEF Holdings
<1>11. DOMAIN s \in SUBSET Nat
  BY <1>2, <1>4
<1> QED  BY <1>8, <1>9, <1>10, <1>11 DEF s

\* The first table that answers is the newest that holds the key.
LEMMA FirstAnswer ==
    ASSUME NEW s, DOMAIN s \in SUBSET Nat, NEW count,
           \A i \in DOMAIN s : GoodTable(s[i]) /\ s[i].id \in Nat
                               /\ (s[i].reader.file.bad # {} => count > 0),
           \A i, j \in DOMAIN s : i < j => s[i].id > s[j].id,
           NEW k \in Keys, NEW v, Settled({Facts(s[i]) : i \in DOMAIN s}, k, v)
    PROVE  LET hits == {i \in DOMAIN s : get(s[i].reader, k) # NoEntry}
               answer == get(s[Min(hits)].reader, k)
           IN  /\ hits = {} => v = NoValue
               /\ hits # {} => IF answer = Corruption THEN count > 0 ELSE answer.value = v
<1> DEFINE H == {Facts(s[i]) : i \in DOMAIN s}
           hits == {i \in DOMAIN s : get(s[i].reader, k) # NoEntry}
           first == Min(hits)
           answer == get(s[first].reader, k)
<1>1. ASSUME NEW i \in DOMAIN s
      PROVE  /\ \/ get(s[i].reader, k) = s[i].holds[k]
                \/ get(s[i].reader, k) = Corruption /\ count > 0
             /\ s[i].holds[k] \in Entries \cup {NoEntry}
             /\ Facts(s[i]) \in H /\ Facts(s[i]).holds = s[i].holds /\ Facts(s[i]).id = s[i].id
  <2>1. TableOK(s[i].reader) /\ TableHolds(s[i].reader, s[i].holds) /\ s[i].holds \in Maps
    BY DEF GoodTable, TableHolds
  <2>2. \/ get(s[i].reader, k) = s[i].holds[k]
        \/ get(s[i].reader, k) = Corruption /\ s[i].reader.file.bad # {}
    BY <2>1, GetIs
  <2>3. s[i].holds[k] \in Entries \cup {NoEntry}
    BY <2>1 DEF Maps
  <2> QED  BY <2>2, <2>3 DEF Facts
<1>2. Corruption # NoEntry
  BY DEF Corruption, NoEntry
<1>3. \A i \in DOMAIN s : s[i].holds[k] # NoEntry => i \in hits
  BY <1>1, <1>2
<1>4. \/ \E i \in DOMAIN s : /\ s[i].holds[k] # NoEntry /\ s[i].holds[k].value = v
                             /\ \A j \in DOMAIN s : s[j].holds[k] # NoEntry => s[j].id <= s[i].id
      \/ (\A i \in DOMAIN s : s[i].holds[k] = NoEntry) /\ v = NoValue
  <2>1. CASE \E t \in H : /\ t.holds[k] # NoEntry /\ t.holds[k].value = v
                          /\ \A u \in H : u.holds[k] # NoEntry => u.id <= t.id
    <3>1. PICK t \in H : /\ t.holds[k] # NoEntry /\ t.holds[k].value = v
                         /\ \A u \in H : u.holds[k] # NoEntry => u.id <= t.id
      BY <2>1
    <3>2. PICK i \in DOMAIN s : t = Facts(s[i])
      BY <3>1
    <3>3. s[i].holds[k] # NoEntry /\ s[i].holds[k].value = v
      BY <1>1, <3>1, <3>2
    <3>4. \A j \in DOMAIN s : s[j].holds[k] # NoEntry => s[j].id <= s[i].id
      BY <1>1, <3>1, <3>2
    <3> QED  BY <3>3, <3>4
  <2>2. CASE (\A t \in H : t.holds[k] = NoEntry) /\ v = NoValue
    BY <1>1, <2>2
  <2> QED  BY <2>1, <2>2 DEF Settled
<1>5. hits \in SUBSET Nat
  OBVIOUS
<1> HIDE DEF first
<1>6. CASE hits = {}
  BY <1>3, <1>4, <1>6
<1>7. CASE hits # {}
  <2>1. first \in hits /\ \A i \in hits : first <= i
    <3> HIDE DEF hits
    <3> QED  BY <1>5, <1>7, MinOfNats DEF first
  <2>2. first \in DOMAIN s /\ answer # NoEntry
    BY <2>1
  <2>3. CASE answer = Corruption
    <3>1. count > 0
      <4>1. s[first].holds[k] # Corruption
        BY <1>1, <1>2, <2>2, RealEntries
      <4> QED  BY <1>1, <2>2, <2>3, <4>1
    <3> QED  BY <1>7, <2>3, <3>1 DEF first
  <2>4. CASE answer # Corruption
    <3>1. answer = s[first].holds[k] /\ s[first].holds[k] # NoEntry
      BY <1>1, <2>2, <2>4
    <3>2. PICK i \in DOMAIN s : /\ s[i].holds[k] # NoEntry /\ s[i].holds[k].value = v
                                /\ \A j \in DOMAIN s : s[j].holds[k] # NoEntry => s[j].id <= s[i].id
      BY <1>4, <2>2, <3>1
    <3>3. first <= i /\ first \in Nat /\ i \in Nat
      BY <1>3, <1>5, <2>1, <3>2
    <3>4. ~(first < i)
      <4>1. s[first].id <= s[i].id /\ s[first].id \in Nat /\ s[i].id \in Nat
        BY <2>2, <3>1, <3>2
      <4>2. first < i => s[first].id > s[i].id
        BY <2>2
      <4> QED  BY <4>1, <4>2
    <3>5. i = first
      BY <3>3, <3>4
    <3>6. answer.value = v
      BY <3>1, <3>2, <3>5
    <3> QED  BY <1>7, <2>4, <3>6 DEF first
  <2> QED  BY <2>3, <2>4
<1> QED  BY <1>6, <1>7

\* Engine::get finds the last entry written for a key, or that the key was
\* deleted, through memtable, filters, block indices and blocks, however
\* flushes and compactions moved it; an error is only ever the answer when a
\* block was damaged on disk.
THEOREM GetIsExact == Spec => []GetExact
<1>1. PInv => GetExact
  <2> SUFFICES ASSUME PInv, NEW k \in Keys
               PROVE  IF Lookup(k) = Corruption THEN damage > 0
                      ELSE Lookup(k).value = latest[k].value
    BY DEF GetExact
  <2> DEFINE s == l0 \o l1
             hits == {i \in DOMAIN s : get(s[i].reader, k) # NoEntry}
             answer == get(s[Min(hits)].reader, k)
             v == latest[k].value
  <2>1. LatestFound(map, latest, Holdings(l0, l1)) /\ map \in Maps
    BY DEF PInv, LatestInv, LatestFound
  <2>2. /\ DOMAIN s \in SUBSET Nat
        /\ \A i \in DOMAIN s : GoodTable(s[i]) /\ s[i].id \in Nat
                               /\ (s[i].reader.file.bad # {} => damage > 0)
        /\ \A i, j \in DOMAIN s : i < j => s[i].id > s[j].id
        /\ {Facts(s[i]) : i \in DOMAIN s} = Holdings(l0, l1)
    BY ReadersAre DEF PInv, LevelsInv
  <2>3. Lookup(k) = CASE map[k] # NoEntry -> map[k]
                      [] map[k] = NoEntry /\ hits # {} -> answer
                      [] OTHER -> NoEntry
    BY Zenon DEF Lookup
  <2>4. CASE map[k] # NoEntry
    <3>1. Lookup(k) = map[k]
      <4>1. ~(map[k] = NoEntry /\ hits # {})
        BY <2>4
      <4> HIDE DEF hits, answer
      <4> QED  BY <2>3, <2>4, <4>1, Zenon
    <3>2. latest[k] = map[k] /\ map[k] \in Entries
      BY <2>1, <2>4 DEF LatestFound, Maps
    <3> QED  BY <3>1, <3>2, RealEntries
  <2>5. CASE map[k] = NoEntry
    <3>1. Settled({Facts(s[i]) : i \in DOMAIN s}, k, v)
      <4>1. Settled(Holdings(l0, l1), k, v)
        BY <2>1, <2>5 DEF LatestFound
      <4> QED  BY <2>2, <4>1
    <3>2. /\ hits = {} => v = NoValue
          /\ hits # {} => IF answer = Corruption THEN damage > 0 ELSE answer.value = v
      <4> HIDE DEF s, v
      <4> QED  BY <2>2, <3>1, FirstAnswer
    <3> HIDE DEF hits, answer
    <3>3. CASE hits = {}
      <4>1. Lookup(k) = NoEntry
        BY <2>3, <2>5, <3>3, Zenon
      <4>2. NoEntry.value = NoValue /\ NoEntry # Corruption
        BY DEF NoEntry, Corruption
      <4> QED  BY <3>2, <3>3, <4>1, <4>2
    <3>4. CASE hits # {}
      <4>1. Lookup(k) = answer
        <5>1. map[k] = NoEntry /\ hits # {}
          BY <2>5, <3>4
        <5> QED  BY <2>3, <5>1, Zenon
      <4> QED  BY <3>2, <3>4, <4>1
    <3> QED  BY <3>3, <3>4
  <2> QED  BY <2>4, <2>5
<1> QED  BY <1>1, PipelineInvariant, PTL

-----------------------------------------------------------------------------
(* What a merge has still to look at                                       *)

\* Left, with the iterators and the heap as parameters and its sums as Sum.
BlocksAhead(r, it) == it.block_idx .. Len(r.index)
RestOf(r, it) == Sum([b \in BlocksAhead(r, it) |-> Len(TBlk(r, b))], BlocksAhead(r, it)) - it.pos
Rests(srcs, its) == [i \in DOMAIN srcs |-> RestOf(srcs[i].reader, its[i])]
LeftOf(srcs, its, hp) == Sum(Rests(srcs, its), DOMAIN srcs) + Cardinality(hp)
LeftKnown == Left = LeftOf(sources, iters, heap)

LEMMA UnreadIs ==
    ASSUME NEW i
    PROVE  Unread(i) = RestOf(sources[i].reader, iters[i])
<1> DEFINE r == sources[i].reader
           it == iters[i]
           S == it.block_idx .. Len(r.index)
           f == [b \in S |-> Len(TBlk(r, b))]
           pick(s) == CHOOSE x \in s : TRUE
           A(g) == g = [s \in SUBSET S |-> IF s = {} THEN 0
                           ELSE Len(r.file.extents[pick(s)].content) + g[s \ {pick(s)}]]
           B(g) == g = [s \in SUBSET S |-> IF s = {} THEN 0 ELSE f[pick(s)] + g[s \ {pick(s)}]]
<1>1. Unread(i) = (CHOOSE g : A(g))[S] - it.pos
  BY Zenon DEF Unread, MapThenSumSet, MapThenFoldSet
<1>2. Sum(f, S) = (CHOOSE g : B(g))[S]
  BY Zenon DEF Sum, SumRec
<1>3. ASSUME NEW g PROVE A(g) <=> B(g)
  <2>1. ASSUME NEW s \in SUBSET S, s # {} PROVE f[pick(s)] = Len(r.file.extents[pick(s)].content)
    <3>1. pick(s) \in s
      BY <2>1
    <3> HIDE DEF pick
    <3> QED  BY <3>1 DEF TBlk
  <2> HIDE DEF f, pick, S, r
  <2> QED  BY <2>1
<1> HIDE DEF A, B
<1>4. (CHOOSE g : A(g)) = (CHOOSE g : B(g))
  BY <1>3, Zenon
<1>5. RestOf(r, it) = Sum(f, S) - it.pos
  BY DEF RestOf, BlocksAhead
<1> HIDE DEF f, S, r, it
<1> QED  BY <1>1, <1>2, <1>4, <1>5 DEF r, it

LEMMA LeftIs == LeftKnown
<1> DEFINE S == DOMAIN sources
           f == Rests(sources, iters)
           pick(s) == CHOOSE x \in s : TRUE
           A(g) == g = [s \in SUBSET S |-> IF s = {} THEN 0 ELSE Unread(pick(s)) + g[s \ {pick(s)}]]
           B(g) == g = [s \in SUBSET S |-> IF s = {} THEN 0 ELSE f[pick(s)] + g[s \ {pick(s)}]]
<1>1. Left = (CHOOSE g : A(g))[S] + Cardinality(heap)
  BY Zenon DEF Left, MapThenSumSet, MapThenFoldSet
<1>2. Sum(f, S) = (CHOOSE g : B(g))[S]
  BY Zenon DEF Sum, SumRec
<1>3. ASSUME NEW g PROVE A(g) <=> B(g)
  <2>1. ASSUME NEW s \in SUBSET S, s # {} PROVE f[pick(s)] = Unread(pick(s))
    <3>1. pick(s) \in s
      BY <2>1
    <3> HIDE DEF pick
    <3>2. f[pick(s)] = RestOf(sources[pick(s)].reader, iters[pick(s)])
      BY <3>1 DEF Rests
    <3> QED  BY <3>2, UnreadIs
  <2> HIDE DEF f, pick, S
  <2> QED  BY <2>1
<1> HIDE DEF A, B
<1>4. (CHOOSE g : A(g)) = (CHOOSE g : B(g))
  BY <1>3, Zenon
<1> HIDE DEF f, S
<1>5. LeftKnown <=> Left = Sum(f, S) + Cardinality(heap)
  BY DEF LeftKnown, LeftOf, f, S
<1> QED  BY <1>1, <1>2, <1>4, <1>5

LEMMA LeftAlways == []LeftKnown
BY LeftIs, PTL

\* The entries of the blocks from the iterator's on, less those it has yielded.
Lengths(r) == [b \in BlocksOf(r) |-> Len(TBlk(r, b))]

LEMMA RestIs ==
    ASSUME NEW r, TableOK(r), NEW it, it.block_idx \in Nat, it.block_idx > 0
    PROVE  LET S == BlocksAhead(r, it)
           IN  /\ S \in SUBSET BlocksOf(r) /\ IsFiniteSet(S)
               /\ \A b \in S : Lengths(r)[b] \in Nat
               /\ RestOf(r, it) = Sum(Lengths(r), S) - it.pos
<1> DEFINE S == BlocksAhead(r, it)
           f == Lengths(r)
           h == [b \in S |-> Len(TBlk(r, b))]
<1>1. Len(r.index) \in Nat /\ BlocksOf(r) = 1 .. Len(r.index)
      /\ \A b \in BlocksOf(r) : Len(TBlk(r, b)) \in Nat
  BY TableParts
<1>2. S \in SUBSET BlocksOf(r) /\ IsFiniteSet(S)
  <2> DEFINE b == it.block_idx
             n == Len(r.index)
  <2>1. S = b .. n /\ b \in Int /\ n \in Int /\ b \in Nat /\ b > 0
    BY <1>1 DEF BlocksAhead
  <2>2. BlocksOf(r) = 1 .. n
    BY <1>1
  <2> HIDE DEF S, b, n
  <2>3. IsFiniteSet(b .. n)
    BY <2>1, FS_Interval
  <2>4. b .. n \in SUBSET (1 .. n)
    BY <2>1
  <2> QED  BY <2>1, <2>2, <2>3, <2>4
<1>3. \A b \in S : f[b] \in Nat /\ h[b] = f[b]
  BY <1>1, <1>2 DEF Lengths
<1>4. RestOf(r, it) = Sum(h, S) - it.pos
  BY DEF RestOf
<1> HIDE DEF S, f, h
<1>5. Sum(h, S) = Sum(f, S)
  BY <1>2, <1>3, SumSame
<1> QED  BY <1>2, <1>3, <1>4, <1>5 DEF S, f

\* An iterator behind another one in a table has less left.
LEMMA RestShrinks ==
    ASSUME NEW r, TableOK(r), NEW it, IterIn(r, it), NEW jt, IterIn(r, jt),
           Before(it.block_idx, it.pos, jt.block_idx, jt.pos)
    PROVE  RestOf(r, jt) < RestOf(r, it)
<1> DEFINE b == it.block_idx
           c == jt.block_idx
           p == it.pos
           q == jt.pos
           S == BlocksAhead(r, it)
           T == BlocksAhead(r, jt)
           f == Lengths(r)
           n == Len(r.index)
<1>1. b \in BlocksOf(r) /\ c \in BlocksOf(r) /\ p \in DOMAIN TBlk(r, b) /\ q \in DOMAIN TBlk(r, c)
      /\ p \in Nat /\ q \in Nat
  BY DEF IterIn
<1>2. n \in Nat /\ BlocksOf(r) = 1 .. n /\ Len(TBlk(r, b)) \in Nat /\ f[b] = Len(TBlk(r, b))
      /\ DOMAIN TBlk(r, b) = 1 .. Len(TBlk(r, b)) /\ DOMAIN TBlk(r, c) = 1 .. Len(TBlk(r, c))
      /\ Len(TBlk(r, c)) \in Nat
  BY <1>1, TableParts DEF Lengths
<1>3. b \in Nat /\ b > 0 /\ b <= n /\ c \in Nat /\ c > 0 /\ c <= n /\ p > 0 /\ p <= f[b] /\ q > 0
      /\ f[b] \in Nat
  BY <1>1, <1>2
<1>4. /\ S \in SUBSET BlocksOf(r) /\ IsFiniteSet(S) /\ \A x \in S : f[x] \in Nat
      /\ RestOf(r, it) = Sum(f, S) - p
  BY <1>3, RestIs
<1>5. RestOf(r, jt) = Sum(f, T) - q
  BY <1>3, RestIs
<1>6. S = b .. n /\ T = c .. n
  BY DEF BlocksAhead
<1>7. b < c \/ (b = c /\ p < q)
  BY DEF Before
<1> HIDE DEF b, c, p, q, S, T, f, n
<1>8. CASE b = c /\ p < q
  <2>1. Sum(f, S) \in Nat /\ S = T
    BY <1>4, <1>6, <1>8, SumNat
  <2> QED  BY <1>1, <1>3, <1>4, <1>5, <1>8, <2>1 DEF p, q
<1>9. CASE b < c
  <2>1. b \in S /\ T \in SUBSET (S \ {b}) /\ IsFiniteSet(S \ {b})
    <3>1. b \in S /\ T \in SUBSET (S \ {b})
      BY <1>2, <1>3, <1>6, <1>9
    <3>2. IsFiniteSet(S \ {b})
      BY <1>4, FS_RemoveElement
    <3> QED  BY <3>1, <3>2
  <2>2. Sum(f, S) = f[b] + Sum(f, S \ {b})
    BY <1>4, <2>1, SumRemove
  <2>3. \A x \in S \ {b} : f[x] \in Nat
    BY <1>4
  <2> DEFINE U == S \ {b}
  <2>4. Sum(f, U) \in Nat /\ Sum(f, T) \in Nat /\ Sum(f, T) <= Sum(f, U)
    <3>1. IsFiniteSet(U) /\ (\A x \in U : f[x] \in Nat) /\ T \in SUBSET U
      BY <2>1, <2>3
    <3> HIDE DEF U
    <3> QED  BY <3>1, SumWithin
  <2>5. Sum(f, S) = f[b] + Sum(f, U)
    BY <2>2
  <2> HIDE DEF U
  <2> DEFINE sumS == Sum(f, S)
             sumT == Sum(f, T)
             sumU == Sum(f, U)
             here == f[b]
  <2>6. sumS = here + sumU /\ sumU \in Nat /\ sumT \in Nat /\ sumT <= sumU /\ here \in Nat /\ p <= here
        /\ q > 0 /\ RestOf(r, it) = sumS - p /\ RestOf(r, jt) = sumT - q /\ p \in Nat /\ q \in Nat
    BY <1>1, <1>3, <1>4, <1>5, <2>4, <2>5 DEF p, q
  <2> HIDE DEF sumS, sumT, sumU, here
  <2> QED  BY <2>6
<1> QED  BY <1>7, <1>8, <1>9

LEMMA RestNat ==
    ASSUME NEW r, TableOK(r), NEW it
    PROVE  /\ IterIn(r, it) => RestOf(r, it) \in Nat
           /\ IterEnd(r, it) => RestOf(r, it) = 0
<1>1. ASSUME IterIn(r, it) PROVE RestOf(r, it) \in Nat
  <2> DEFINE b == it.block_idx
             S == BlocksAhead(r, it)
             f == Lengths(r)
             n == Len(r.index)
  <2>1. b \in BlocksOf(r) /\ it.pos \in DOMAIN TBlk(r, b) /\ it.pos \in Nat
    BY <1>1 DEF IterIn
  <2>2. n \in Nat /\ BlocksOf(r) = 1 .. n /\ Len(TBlk(r, b)) \in Nat /\ f[b] = Len(TBlk(r, b))
        /\ DOMAIN TBlk(r, b) = 1 .. Len(TBlk(r, b))
    BY <2>1, TableParts DEF Lengths
  <2>3. b \in Nat /\ b > 0 /\ b <= n /\ it.pos <= f[b] /\ f[b] \in Nat
    BY <2>1, <2>2
  <2>4. /\ IsFiniteSet(S) /\ \A x \in S : f[x] \in Nat
        /\ RestOf(r, it) = Sum(f, S) - it.pos
    BY <2>3, RestIs
  <2>5. b \in S
    BY <2>2, <2>3 DEF BlocksAhead
  <2> HIDE DEF b, S, f, n
  <2>6. Sum(f, S) = f[b] + Sum(f, S \ {b}) /\ Sum(f, S \ {b}) \in Nat /\ Sum(f, S) \in Nat
    BY <2>4, <2>5, SumRemove
  <2> DEFINE sum == Sum(f, S)
             here == f[b]
             others == Sum(f, S \ {b})
  <2>7. /\ sum = here + others /\ others \in Nat /\ here \in Nat /\ it.pos <= here
        /\ RestOf(r, it) = sum - it.pos
    BY <2>3, <2>4, <2>6
  <2> HIDE DEF sum, here, others
  <2> QED  BY <2>1, <2>7
<1>2. ASSUME IterEnd(r, it) PROVE RestOf(r, it) = 0
  <2>1. it.block_idx = Len(r.index) + 1 /\ it.pos = 0
    BY <1>2 DEF IterEnd
  <2>2. Len(r.index) \in Nat
    BY TableParts
  <2>3. BlocksAhead(r, it) = {}
    BY <2>1, <2>2 DEF BlocksAhead
  <2>4. RestOf(r, it) = Sum(Lengths(r), {}) - it.pos
    <3>1. it.block_idx \in Nat /\ it.block_idx > 0
      BY <2>1, <2>2
    <3>2. RestOf(r, it) = Sum(Lengths(r), BlocksAhead(r, it)) - it.pos
      BY <3>1, RestIs
    <3> QED  BY <2>3, <3>2
  <2>5. Sum(Lengths(r), {}) = 0
    BY FS_EmptySet, SumNat
  <2> QED  BY <2>1, <2>4, <2>5
<1> QED  BY <1>1, <1>2

\* SsTableIterator::next leaves less, unless it came to the end.
LEMMA IterShrinks ==
    ASSUME NEW r, TableOK(r), NEW it, IterIn(r, it), NEW jt, jt = iter_next(r, it).it
    PROVE  /\ RestOf(r, it) \in Nat /\ RestOf(r, jt) \in Nat
           /\ RestOf(r, jt) <= RestOf(r, it)
           /\ IterIn(r, jt) => RestOf(r, jt) < RestOf(r, it)
<1> DEFINE res == iter_next(r, it)
<1>1. Advanced(r, it, res)
  BY IterNext
<1>2. jt = res.it
  OBVIOUS
<1>3. RestOf(r, it) \in Nat
  BY RestNat
<1>4. CASE IterEnd(r, jt)
  BY <1>3, <1>4, RestNat, InOrEnd
<1>5. CASE IterIn(r, jt)
  <2> HIDE DEF res
  <2>1. res.item = Front(r, jt) /\ KeyAt(r, it) < Front(r, jt).key
    BY <1>1, <1>2, <1>5, InOrEnd DEF Advanced
  <2>2. KeyAt(r, it) = Front(r, it).key
    <3>1. it.loaded /\ ~iter.loaded
      BY DEF IterIn, iter
    <3> QED  BY <3>1 DEF KeyAt
  <2> DEFINE b == it.block_idx
             c == jt.block_idx
             p == it.pos
             q == jt.pos
  <2>3. b \in BlocksOf(r) /\ p \in DOMAIN TBlk(r, b) /\ c \in BlocksOf(r) /\ q \in DOMAIN TBlk(r, c)
        /\ p \in Nat /\ q \in Nat
    BY <1>5 DEF IterIn
  <2>4. TBlk(r, b)[p].key \in Nat /\ TBlk(r, c)[q].key \in Nat /\ b \in Nat /\ c \in Nat
        /\ TBlk(r, b)[p].key < TBlk(r, c)[q].key
    BY <2>1, <2>2, <2>3, TableParts DEF Front
  <2>5. ~Before(c, q, b, p)
    <3>1. Before(c, q, b, p) => TBlk(r, c)[q].key < TBlk(r, b)[p].key
      BY <2>3 DEF TableOK
    <3> QED  BY <2>4, <3>1
  <2>6. Before(b, p, c, q)
    <3>1. ~(b = c /\ p = q)
      BY <2>4
    <3> HIDE DEF b, c, p, q
    <3> QED  BY <2>3, <2>4, <2>5, <3>1 DEF Before
  <2>7. RestOf(r, jt) < RestOf(r, it)
    BY <1>5, <2>6, RestShrinks
  <2>8. RestOf(r, jt) \in Nat
    BY <1>5, RestNat
  <2> QED  BY <1>3, <2>7, <2>8
<1>6. IterEnd(r, jt) \/ IterIn(r, jt)
  BY <1>1, <1>2 DEF Advanced
<1> QED  BY <1>4, <1>5, <1>6

LEMMA HeapFinite ==
    ASSUME NEW srcs, SourcesOK(srcs), NEW its, NEW hp, NEW out, HeapIs(srcs, its, hp, out)
    PROVE  IsFiniteSet(hp) /\ Cardinality(hp) \in Nat
<1> DEFINE S == {j \in DOMAIN srcs : In(srcs, its, j) /\ j \notin out}
           f == [i \in S |-> EntryOf(srcs, its, i)]
<1>1. IsFiniteSet(DOMAIN srcs)
  <2>1. Len(srcs) \in Nat /\ DOMAIN srcs = 1 .. Len(srcs)
    BY SourceParts
  <2> QED  BY <2>1, FS_Interval
<1>2. IsFiniteSet(S)
  BY <1>1, FS_Subset
<1>3. hp = {EntryOf(srcs, its, i) : i \in S}
  BY DEF HeapIs
<1> HIDE DEF S
<1>4. f \in Surjection(S, hp)
  BY <1>3 DEF Surjection
<1> HIDE DEF f
<1>5. IsFiniteSet(hp)
  BY <1>2, <1>4, FS_Surjection
<1> QED  BY <1>5, FS_CardinalityType

LEMMA RestsNat ==
    ASSUME NEW srcs, SourcesOK(srcs), NEW its, ItersOK(srcs, its)
    PROVE  /\ IsFiniteSet(DOMAIN srcs)
           /\ \A i \in DOMAIN srcs : Rests(srcs, its)[i] = RestOf(srcs[i].reader, its[i])
                                     /\ Rests(srcs, its)[i] \in Nat
           /\ Sum(Rests(srcs, its), DOMAIN srcs) \in Nat
<1> DEFINE S == DOMAIN srcs
           f == Rests(srcs, its)
<1>1. IsFiniteSet(S)
  <2>1. Len(srcs) \in Nat /\ DOMAIN srcs = 1 .. Len(srcs)
    BY SourceParts
  <2> QED  BY <2>1, FS_Interval
<1>2. ASSUME NEW i \in S PROVE f[i] = RestOf(srcs[i].reader, its[i]) /\ f[i] \in Nat
  <2>1. f[i] = RestOf(srcs[i].reader, its[i])
    BY DEF Rests
  <2>2. TableOK(srcs[i].reader) /\ (IterIn(srcs[i].reader, its[i]) \/ IterEnd(srcs[i].reader, its[i]))
    BY SourceParts DEF ItersOK, In
  <2>3. RestOf(srcs[i].reader, its[i]) \in Nat
    BY <2>2, RestNat
  <2> QED  BY <2>1, <2>3
<1> HIDE DEF S, f
<1>3. Sum(f, S) \in Nat
  BY <1>1, <1>2, SumNat
<1> QED  BY <1>1, <1>2, <1>3 DEF S, f

\* A source that moves on leaves less unread, unless it is at its end.
LEMMA RestsShrink ==
    ASSUME NEW srcs, SourcesOK(srcs), NEW its, ItersOK(srcs, its),
           NEW i \in DOMAIN srcs, In(srcs, its, i)
    PROVE  LET before == Sum(Rests(srcs, its), DOMAIN srcs)
               after == Sum(Rests(srcs, Advance(srcs, its, i)), DOMAIN srcs)
           IN  /\ before \in Nat /\ after \in Nat /\ after <= before
               /\ ~Gone(srcs, its, i) => after < before
<1> DEFINE S == DOMAIN srcs
           its2 == Advance(srcs, its, i)
           f == Rests(srcs, its)
           g == Rests(srcs, its2)
           U == S \ {i}
<1>1. Moved(srcs, its, its2, i) /\ (~Gone(srcs, its, i) => In(srcs, its2, i))
  BY SourceAdvances
<1>2. its2[i] = iter_next(srcs[i].reader, its[i]).it
  BY DEF Advance, NextOf, ItersOK
<1>3. TableOK(srcs[i].reader) /\ IterIn(srcs[i].reader, its[i])
  BY SourceParts DEF In
<1> HIDE DEF its2
<1>4. ItersOK(srcs, its2) /\ \A j \in S : j # i => its2[j] = its[j]
  BY <1>1 DEF Moved
<1>5. /\ RestOf(srcs[i].reader, its[i]) \in Nat /\ RestOf(srcs[i].reader, its2[i]) \in Nat
      /\ RestOf(srcs[i].reader, its2[i]) <= RestOf(srcs[i].reader, its[i])
      /\ IterIn(srcs[i].reader, its2[i]) => RestOf(srcs[i].reader, its2[i]) < RestOf(srcs[i].reader, its[i])
  BY <1>2, <1>3, IterShrinks
<1>6. /\ IsFiniteSet(S) /\ Sum(f, S) \in Nat
      /\ \A j \in S : f[j] = RestOf(srcs[j].reader, its[j]) /\ f[j] \in Nat
  BY RestsNat
<1>7. /\ Sum(g, S) \in Nat
      /\ \A j \in S : g[j] = RestOf(srcs[j].reader, its2[j]) /\ g[j] \in Nat
  BY <1>4, RestsNat
<1>8. ~Gone(srcs, its, i) => IterIn(srcs[i].reader, its2[i])
  BY <1>1 DEF In
<1>9. g[i] <= f[i] /\ (~Gone(srcs, its, i) => g[i] < f[i])
  BY <1>5, <1>6, <1>7, <1>8
<1>10. \A j \in U : f[j] \in Nat /\ g[j] = f[j]
  BY <1>4, <1>6, <1>7
<1>11. i \in S /\ f[i] \in Nat /\ g[i] \in Nat
  BY <1>6, <1>7
<1> HIDE DEF S, f, g
<1>12. Sum(f, S) = f[i] + Sum(f, U) /\ Sum(f, U) \in Nat
  BY <1>6, <1>11, SumRemove
<1>13. Sum(g, S) = g[i] + Sum(g, U)
  BY <1>6, <1>7, <1>11, SumRemove
<1>14. Sum(g, U) = Sum(f, U)
  <2>1. IsFiniteSet(U)
    BY <1>6, FS_RemoveElement
  <2> HIDE DEF U
  <2> QED  BY <1>10, <2>1, SumSame
<1> HIDE DEF U
<1> DEFINE a == Sum(f, S)
           b == Sum(g, S)
           c == Sum(f, U)
           x == f[i]
           y == g[i]
<1>15. /\ a = x + c /\ b = y + c /\ a \in Nat /\ b \in Nat /\ c \in Nat /\ x \in Nat /\ y \in Nat
       /\ y <= x /\ (~Gone(srcs, its, i) => y < x)
  BY <1>6, <1>7, <1>9, <1>11, <1>12, <1>13, <1>14
<1>16. b <= a /\ (~Gone(srcs, its, i) => b < a)
  <2> HIDE DEF a, b, c, x, y
  <2> QED  BY <1>15
<1> QED  BY <1>15, <1>16 DEF S, f, g, its2

\* An entry less in the heap.
LEMMA LeftTaken ==
    ASSUME NEW srcs, SourcesOK(srcs), NEW its, ItersOK(srcs, its), NEW hp, IsFiniteSet(hp), NEW x \in hp
    PROVE  /\ LeftOf(srcs, its, hp \ {x}) < LeftOf(srcs, its, hp)
           /\ LeftOf(srcs, its, hp) \in Nat /\ LeftOf(srcs, its, hp \ {x}) \in Nat
<1> DEFINE n == Sum(Rests(srcs, its), DOMAIN srcs)
           c == Cardinality(hp)
           d == Cardinality(hp \ {x})
<1>1. n \in Nat
  BY RestsNat
<1>2. c \in Nat /\ d = c - 1 /\ IsFiniteSet(hp \ {x})
  BY FS_CardinalityType, FS_RemoveElement
<1>3. d \in Nat
  BY <1>2, FS_CardinalityType
<1>4. LeftOf(srcs, its, hp) = n + c /\ LeftOf(srcs, its, hp \ {x}) = n + d
  BY DEF LeftOf
<1> HIDE DEF n, c, d
<1> QED  BY <1>1, <1>2, <1>3, <1>4

\* Refilling the heap from a source adds no more than it reads.
LEMMA LeftRefilled ==
    ASSUME NEW srcs, SourcesOK(srcs), NEW its, ItersOK(srcs, its),
           NEW i \in DOMAIN srcs, In(srcs, its, i), NEW rest, IsFiniteSet(rest)
    PROVE  LET before == LeftOf(srcs, its, rest)
               after == LeftOf(srcs, Advance(srcs, its, i), rest \cup Added(srcs, its, i))
           IN  before \in Nat /\ after \in Nat /\ after <= before
<1> DEFINE a == Sum(Rests(srcs, its), DOMAIN srcs)
           b == Sum(Rests(srcs, Advance(srcs, its, i)), DOMAIN srcs)
           c == Cardinality(rest)
           d == Cardinality(rest \cup Added(srcs, its, i))
<1>1. a \in Nat /\ b \in Nat /\ b <= a /\ (~Gone(srcs, its, i) => b < a)
  BY RestsShrink
<1>2. c \in Nat
  BY FS_CardinalityType
<1>3. d \in Nat /\ (d = c \/ (~Gone(srcs, its, i) /\ d = c + 1))
  <2>1. CASE Gone(srcs, its, i)
    BY <1>2, <2>1 DEF Added
  <2>2. CASE ~Gone(srcs, its, i)
    <3> DEFINE x == HeapEntry(srcs, i, NextOf(srcs, its, i).item)
    <3>1. Added(srcs, its, i) = {x}
      BY <2>2 DEF Added
    <3> HIDE DEF x
    <3>2. Cardinality(rest \cup {x}) = IF x \in rest THEN c ELSE c + 1
      BY FS_AddElement
    <3> QED  BY <1>2, <2>2, <3>1, <3>2
  <2> QED  BY <2>1, <2>2
<1>4. /\ LeftOf(srcs, its, rest) = a + c
      /\ LeftOf(srcs, Advance(srcs, its, i), rest \cup Added(srcs, its, i)) = b + d
  BY DEF LeftOf
<1> HIDE DEF a, b, c, d
<1> QED  BY <1>1, <1>2, <1>3, <1>4

\* A step of the loop: the iterators, the heap and what is left with them.
Lessens(srcs, its, hp, srcs2, its2, hp2, strictly) ==
    LET before == LeftOf(srcs, its, hp)
        after == LeftOf(srcs2, its2, hp2)
    IN  after <= before /\ (strictly => after < before)

LEMMA ShrinksIs ==
    ASSUME LeftKnown, LeftKnown',
           Lessens(sources, iters, heap, sources', iters', heap', pc' = "Drain")
    PROVE  MergeShrinks
BY DEF LeftKnown, Lessens, MergeShrinks

LEMMA LoopStep ==
    ASSUME PInv, [Next]_vars, pc \in MergeLoop, pc' \in MergeLoop, vars' # vars
    PROVE  Lessens(sources, iters, heap, sources', iters', heap', pc' = "Drain")
<1>1. pc \in {"Next", "Drain", "Refill"} /\ pc \in MergeSteps /\ pc' # "Idle" /\ pc' # "Finish"
  BY DEF MergeLoop, MergeSteps
<1>2. /\ SourcesOK(sources) /\ ItersOK(sources, iters) /\ pending_error \in BOOLEAN
      /\ Merging(pc, sources, iters, heap, pending_error, winner, writer)
  BY <1>1, MergeRuns DEF MergeOK
<1>3. IsFiniteSet(heap)
  BY <1>1, <1>2, HeapFinite DEF Merging, Resting, Taken
<1>4. LeftOf(sources, iters, heap) \in Nat
  <2>1. Sum(Rests(sources, iters), DOMAIN sources) \in Nat /\ Cardinality(heap) \in Nat
    BY <1>2, <1>3, RestsNat, FS_CardinalityType
  <2> QED  BY <2>1 DEF LeftOf
<1>5. CASE NextItem
  <2>1. /\ heap # {} /\ heap' = heap \ {TopOf(heap)} /\ sources' = sources /\ iters' = iters
        /\ pc = "Next"
    BY <1>1, <1>5, TopIsTopOf DEF NextItem, CompactionFails, Goto, TakeWinner
  <2>2. HeapIs(sources, iters, heap, {})
    BY <1>2, <2>1 DEF Merging, Resting
  <2>3. TopOf(heap) \in heap
    <3>1. PICK i \in DOMAIN sources : In(sources, iters, i) /\ i \notin {} /\ TopOf(heap) = EntryOf(sources, iters, i)
      BY <1>2, <2>1, <2>2, TopIs
    <3> QED  BY <2>2, <3>1 DEF HeapIs
  <2> DEFINE x == TopOf(heap)
  <2> HIDE DEF x
  <2>4. /\ LeftOf(sources, iters, heap \ {x}) < LeftOf(sources, iters, heap)
        /\ LeftOf(sources, iters, heap \ {x}) \in Nat
    BY <1>2, <1>3, <2>3, LeftTaken DEF x
  <2> QED  BY <1>4, <2>1, <2>4 DEF Lessens, x
<1>6. CASE Drain
  <2>0. pc = "Drain"
    BY <1>6 DEF Drain
  <2>1. Taken(sources, iters, heap, pending_error, winner, writer)
    BY <1>2, <2>0 DEF Merging
  <2>2. CASE DropStale /\ UNCHANGED pc
    <3> DEFINE o == {winner.source_idx}
               x == TopOf(heap)
               t == x.source_idx
               rest == heap \ {x}
    <3>1. heap # {} /\ Refill(t, rest)
      BY <2>2, TopIsTopOf DEF DropStale, StaleOnTop, WithoutStale
    <3>2. HeapIs(sources, iters, heap, o)
      BY <2>1 DEF Taken
    <3> HIDE DEF o
    <3>3. PICK i \in DOMAIN sources : In(sources, iters, i) /\ i \notin o /\ x = EntryOf(sources, iters, i)
      BY <1>2, <3>1, <3>2, TopIs
    <3>4. x \in heap /\ t = i
      <4>1. EntryOf(sources, iters, i).source_idx = i
        BY DEF EntryOf, HeapEntry
      <4>2. EntryOf(sources, iters, i) \in heap
        BY <3>2, <3>3 DEF HeapIs
      <4> QED  BY <3>3, <4>1, <4>2
    <3> HIDE DEF x, t, rest
    <3>5. /\ LeftOf(sources, iters, rest) < LeftOf(sources, iters, heap)
          /\ LeftOf(sources, iters, rest) \in Nat /\ IsFiniteSet(rest)
      BY <1>2, <1>3, <3>4, LeftTaken, FS_RemoveElement DEF rest
    <3>6. /\ iters' = Advance(sources, iters, t) /\ heap' = rest \cup Added(sources, iters, t)
          /\ sources' = sources
      BY <1>2, <3>1, RefillIs
    <3>7. /\ LeftOf(sources, iters', heap') <= LeftOf(sources, iters, rest)
          /\ LeftOf(sources, iters', heap') \in Nat
      BY <1>2, <3>3, <3>4, <3>5, <3>6, LeftRefilled
    <3> DEFINE a == LeftOf(sources, iters, heap)
               b == LeftOf(sources, iters, rest)
               c == LeftOf(sources, iters', heap')
    <3>8. a \in Nat /\ b \in Nat /\ c \in Nat /\ b < a /\ c <= b
      BY <1>4, <3>5, <3>7
    <3>9. c <= a /\ c < a
      <4> HIDE DEF a, b, c
      <4> QED  BY <3>8
    <3> QED  BY <3>6, <3>9 DEF Lessens
  <2>3. CASE DrainDone /\ Goto("Refill") /\ UNCHANGED merge
    <3>1. sources' = sources /\ iters' = iters /\ heap' = heap /\ pc' = "Refill"
      BY <2>3 DEF merge, Goto
    <3>2. pc' # "Drain"
      BY <3>1
    <3> QED  BY <1>4, <3>1, <3>2 DEF Lessens
  <2> QED  BY <1>6, <2>2, <2>3 DEF Drain
<1>7. CASE Emit
  <2> DEFINE t == winner.source_idx
  <2>1. pc = "Refill" /\ pc' = "Next" /\ Refill(t, heap)
    BY <1>1, <1>7 DEF Emit, RefillWinner, Goto, CompactionFails
  <2>2. t \in DOMAIN sources /\ In(sources, iters, t)
    BY <1>2, <2>1 DEF Merging, Taken
  <2> HIDE DEF t
  <2>3. /\ iters' = Advance(sources, iters, t) /\ heap' = heap \cup Added(sources, iters, t)
        /\ sources' = sources
    BY <1>2, <2>1, RefillIs
  <2>4. LeftOf(sources, iters', heap') <= LeftOf(sources, iters, heap)
    BY <1>2, <1>3, <2>2, <2>3, LeftRefilled
  <2>5. pc' # "Drain"
    BY <2>1
  <2> QED  BY <2>3, <2>4, <2>5 DEF Lessens
<1>8. CASE Flush \/ FlushAdd \/ FlushFinish \/ Compact \/ Finish \/ Damage
           \/ \E k \in Keys, e \in Writes : Write(k, e)
  BY <1>1, <1>8 DEF Flush, FlushAdd, FlushFinish, Compact, Finish, Damage, Write
<1> QED  BY <1>5, <1>6, <1>7, <1>8 DEF Next, Step

\* Whatever the sources hold and wherever one of them fails, the loops of
\* MergingIterator::next and compact_l0_l1 come to an end: every winner taken
\* and every older entry dropped leaves less to look at, and no step more.
THEOREM MergeComesToItsEnd == Spec => MergeProgress
<1> DEFINE A == (pc \in MergeLoop /\ pc' \in MergeLoop) => MergeShrinks
<1>1. ASSUME PInv, LeftKnown, LeftKnown', [Next]_vars PROVE [A]_vars
  <2> SUFFICES ASSUME vars' # vars, pc \in MergeLoop, pc' \in MergeLoop PROVE MergeShrinks
    OBVIOUS
  <2>1. Lessens(sources, iters, heap, sources', iters', heap', pc' = "Drain")
    BY <1>1, LoopStep
  <2> QED  BY <1>1, <2>1, ShrinksIs
<1>2. Spec => [][A]_vars
  BY <1>1, PipelineInvariant, LeftAlways, PTL DEF Spec
<1> QED  BY <1>2 DEF MergeProgress
=============================================================================

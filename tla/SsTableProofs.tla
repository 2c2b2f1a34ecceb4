---------------------------- MODULE SsTableProofs ----------------------------
(***************************************************************************)
(* What the operators of Memtable and SsTable return, for every value of   *)
(* the constants: the byte count after a write, the tables the writer      *)
(* produces, the block a lookup finds, the items an iterator yields.       *)
(***************************************************************************)
EXTENDS SsTable, SetLemmas, SequenceTheorems

-----------------------------------------------------------------------------
(* The memtable's byte count                                               *)

Maps == [Keys -> Entries \cup {NoEntry}]
Held(m) == {k \in Keys : m[k] # NoEntry}
Bytes(m) == [k \in Keys |-> KeyLen[k] + payload_size(m[k])]
SizeOf(m) == MapThenSumSet(LAMBDA k : KeyLen[k] + payload_size(m[k]),
                           {k \in Keys : m[k] # NoEntry})

LEMMA PayloadNat ==
    ASSUME NEW e \in Entries \cup {NoEntry}
    PROVE  payload_size(e) \in Nat
<1>1. CASE e.kind \in {"Put", "Vector"}
  <2>1. e.value \in Values
    BY <1>1 DEF Entries, Put, Vector, Tombstone, NoEntry
  <2> QED  BY <1>1, <2>1, MemtableAssumption DEF payload_size
<1> QED  BY <1>1 DEF payload_size

LEMMA SizeIsSum ==
    ASSUME NEW m \in Maps
    PROVE  SizeOf(m) = Sum(Bytes(m), Held(m))
<1> DEFINE S == Held(m)
           f == Bytes(m)
           pick(s) == CHOOSE x \in s : TRUE
           A(g) == g = [s \in SUBSET S |-> IF s = {} THEN 0
                           ELSE (KeyLen[pick(s)] + payload_size(m[pick(s)])) + g[s \ {pick(s)}]]
           B(g) == g = [s \in SUBSET S |-> IF s = {} THEN 0 ELSE f[pick(s)] + g[s \ {pick(s)}]]
<1>1. SizeOf(m) = (CHOOSE g : A(g))[S]
  BY Zenon DEF SizeOf, MapThenSumSet, MapThenFoldSet, Held
<1>2. Sum(f, S) = (CHOOSE g : B(g))[S]
  BY Zenon DEF Sum, SumRec
<1>3. ASSUME NEW g PROVE A(g) <=> B(g)
  <2>1. ASSUME NEW s \in SUBSET S, s # {}
        PROVE  f[pick(s)] = KeyLen[pick(s)] + payload_size(m[pick(s)])
    <3>1. pick(s) \in s
      BY <2>1
    <3> HIDE DEF pick
    <3> QED  BY <3>1 DEF Held, Bytes
  <2> HIDE DEF f, pick, S
  <2> QED  BY <2>1
<1> HIDE DEF A, B
<1>4. (CHOOSE g : A(g)) = (CHOOSE g : B(g))
  BY <1>3, Zenon
<1> QED  BY <1>1, <1>2, <1>4

LEMMA BytesNat ==
    ASSUME NEW m \in Maps
    PROVE  /\ \A k \in Keys : m[k] \in Entries \cup {NoEntry} /\ Bytes(m)[k] \in Nat
                              /\ Bytes(m)[k] = KeyLen[k] + payload_size(m[k])
           /\ IsFiniteSet(Held(m))
<1>1. ASSUME NEW k \in Keys
      PROVE  m[k] \in Entries \cup {NoEntry} /\ Bytes(m)[k] \in Nat
             /\ Bytes(m)[k] = KeyLen[k] + payload_size(m[k])
  <2>1. m[k] \in Entries \cup {NoEntry}
    BY DEF Maps
  <2>2. payload_size(m[k]) \in Nat /\ KeyLen[k] \in Nat
    BY <2>1, PayloadNat, MemtableAssumption
  <2> QED  BY <2>1, <2>2 DEF Bytes
<1>2. IsFiniteSet(Held(m))
  BY FS_Subset, MemtableAssumption DEF Held
<1> QED  BY <1>1, <1>2

\* The entry of one key takes part in the sum once.
LEMMA SizeAround ==
    ASSUME NEW m \in Maps, NEW k \in Keys
    PROVE  /\ Sum(Bytes(m), Held(m) \ {k}) \in Nat
           /\ SizeOf(m) = Sum(Bytes(m), Held(m) \ {k})
                          + (IF m[k] = NoEntry THEN 0 ELSE KeyLen[k] + payload_size(m[k]))
<1> DEFINE H == Held(m)
           f == Bytes(m)
<1>1. IsFiniteSet(H) /\ \A x \in H : f[x] \in Nat
  BY BytesNat DEF Held
<1>2. SizeOf(m) = Sum(f, H)
  BY SizeIsSum
<1>3. CASE m[k] = NoEntry
  <2>1. H \ {k} = H
    BY <1>3 DEF Held
  <2>2. Sum(f, H) \in Nat
    <3> HIDE DEF f, H
    <3> QED  BY <1>1, SumNat
  <2> QED  BY <1>2, <1>3, <2>1, <2>2
<1>4. CASE m[k] # NoEntry
  <2>1. k \in H
    BY <1>4 DEF Held
  <2>2. f[k] = KeyLen[k] + payload_size(m[k]) /\ f[k] \in Nat
    BY BytesNat
  <2> HIDE DEF f, H
  <2>3. Sum(f, H) = f[k] + Sum(f, H \ {k}) /\ Sum(f, H \ {k}) \in Nat
    BY <1>1, <2>1, SumRemove
  <2> QED  BY <1>2, <1>4, <2>2, <2>3 DEF f, H
<1> QED  BY <1>3, <1>4

\* What a write changes in the sum.
LEMMA SizeAfter ==
    ASSUME NEW m \in Maps, NEW k \in Keys, NEW e \in Entries
    PROVE  /\ [m EXCEPT ![k] = e] \in Maps
           /\ SizeOf(m) \in Nat
           /\ m[k] = NoEntry => SizeOf([m EXCEPT ![k] = e]) = SizeOf(m) + KeyLen[k] + payload_size(e)
           /\ m[k] # NoEntry =>
                 /\ payload_size(m[k]) <= SizeOf(m)
                 /\ SizeOf([m EXCEPT ![k] = e]) = (SizeOf(m) - payload_size(m[k])) + payload_size(e)
<1> DEFINE m2 == [m EXCEPT ![k] = e]
<1>1. m2 \in Maps
  BY DEF Maps
<1>2. m2[k] = e /\ \A x \in Keys : x # k => m2[x] = m[x]
  BY DEF Maps
<1>3. e # NoEntry
  BY DEF Entries, Put, Vector, Tombstone, NoEntry
<1> HIDE DEF m2
<1>4. Held(m2) \ {k} = Held(m) \ {k}
  BY <1>2 DEF Held
<1> DEFINE R == Held(m) \ {k}
<1>5. IsFiniteSet(R) /\ \A x \in R : Bytes(m)[x] \in Nat /\ Bytes(m2)[x] = Bytes(m)[x]
  <2>1. IsFiniteSet(Held(m)) /\ R \subseteq Held(m) /\ R \subseteq Keys
    BY BytesNat DEF Held
  <2>2. IsFiniteSet(R)
    BY <2>1, FS_Subset
  <2> QED  BY <1>1, <1>2, <2>1, <2>2, BytesNat
<1>6. Sum(Bytes(m2), R) = Sum(Bytes(m), R)
  <2> HIDE DEF R
  <2> QED  BY <1>5, SumSame
<1>7. /\ Sum(Bytes(m), R) \in Nat
      /\ SizeOf(m) = Sum(Bytes(m), R)
                     + (IF m[k] = NoEntry THEN 0 ELSE KeyLen[k] + payload_size(m[k]))
  BY SizeAround
<1>8. SizeOf(m2) = Sum(Bytes(m), R) + (KeyLen[k] + payload_size(e))
  BY <1>1, <1>2, <1>3, <1>4, <1>6, SizeAround
<1>9. KeyLen[k] \in Nat /\ payload_size(e) \in Nat /\ payload_size(m[k]) \in Nat
  BY BytesNat, PayloadNat, MemtableAssumption
<1> HIDE DEF R
<1> QED  BY <1>1, <1>7, <1>8, <1>9 DEF m2

LEMMA EmptySize ==
    EmptyMap \in Maps /\ SizeOf(EmptyMap) = 0
<1>1. EmptyMap \in Maps /\ Held(EmptyMap) = {}
  BY DEF EmptyMap, Maps, Held
<1>2. Sum(Bytes(EmptyMap), {}) = 0
  BY <1>1, SumNat, FS_EmptySet
<1> QED  BY <1>1, <1>2, SizeIsSum

-----------------------------------------------------------------------------
(* The writer                                                              *)

Item == [key : Keys, entry : Entries]
DataExtent == [at : Nat, length : Nat, type : {"data"}, content : Seq(Item)]
IndexEntry == [first_key : Keys, offset : Nat, length : Nat]
Filter == [m : Nat \ {0}, k : Nat, bits : SUBSET Nat]
OpenFile == [len : Nat, extents : Seq(DataExtent), bad : {{}}]
Writer == [file : OpenFile, current_block : Seq(Item), current_len : Nat,
           first_key : Keys \cup {0}, index_entries : Seq(IndexEntry),
           next_block_offset : Nat, last_key : Keys \cup {0}, bloom : Filter]

\* The blocks written, and behind them the current one.
Blk(w, i) == IF i <= Len(w.file.extents) THEN w.file.extents[i].content ELSE w.current_block

\* The index entry i and the extent x it describes.
Describes(x, entry) ==
    /\ x.content # <<>>
    /\ entry.first_key = x.content[1].key /\ entry.offset = x.at /\ entry.length = x.length
    /\ x.length > 0
    /\ Len(x.content) > 1 => x.length <= DATA_BLOCK_TARGET_SIZE + CRC_LEN

Indexed(w) ==
    /\ w.next_block_offset = w.file.len
    /\ Len(w.index_entries) = Len(w.file.extents)
    /\ \A i \in 1 .. Len(w.file.extents) :
          /\ Describes(w.file.extents[i], w.index_entries[i])
          /\ w.file.extents[i].at + w.file.extents[i].length <= w.file.len
    /\ \A i, j \in 1 .. Len(w.file.extents) : i < j => w.file.extents[i].at < w.file.extents[j].at

CurrentBlock(w) ==
    /\ w.first_key = IF w.current_block = <<>> THEN 0 ELSE w.current_block[1].key
    /\ Len(w.current_block) > 1 => w.current_len <= DATA_BLOCK_TARGET_SIZE

\* Item p of block i comes before item q of block j.
Before(i, p, j, q) == i < j \/ (i = j /\ p < q)

Sorted(w) ==
    \A i, j \in 1 .. Len(w.file.extents) + 1 :
        \A p \in DOMAIN Blk(w, i), q \in DOMAIN Blk(w, j) :
            Before(i, p, j, q) => Blk(w, i)[p].key < Blk(w, j)[q].key

Remembered(w) ==
    \A i \in 1 .. Len(w.file.extents) + 1 : \A p \in DOMAIN Blk(w, i) :
        /\ Blk(w, i)[p].key <= w.last_key
        /\ bloom_bits_per_key > 0 => bloom_contains(w.bloom, Blk(w, i)[p].key)

WriterOK(w) == w \in Writer /\ Indexed(w) /\ CurrentBlock(w) /\ Sorted(w) /\ Remembered(w)

LEMMA FilterNew ==
    ASSUME NEW n \in Nat
    PROVE  NewFilter(n) \in Filter
<1> DEFINE a == n * bloom_bits_per_key
           b == (bloom_bits_per_key * 69) \div 100
<1>1. a \in Nat /\ b \in Nat
  BY TableAssumption
<1> HIDE DEF a, b
<1>2. Max({a, MIN_BITS}) \in Nat \ {0}
  <2>1. {a, MIN_BITS} \in SUBSET (0 .. a + MIN_BITS) /\ a + MIN_BITS \in Nat
    BY <1>1 DEF MIN_BITS
  <2>2. Max({a, MIN_BITS}) \in {a, MIN_BITS} /\ \A y \in {a, MIN_BITS} : y <= Max({a, MIN_BITS})
    <3>1. {a, MIN_BITS} # {}
      OBVIOUS
    <3> QED  BY <2>1, <3>1, MaxOfNats
  <2> QED  BY <1>1, <2>2 DEF MIN_BITS
<1>3. Max({1, b}) \in Nat
  <2>1. {1, b} \in SUBSET (0 .. b + 1) /\ b + 1 \in Nat /\ {1, b} # {}
    BY <1>1
  <2>2. Max({1, b}) \in {1, b}
    BY <2>1, MaxOfNats
  <2> QED  BY <1>1, <2>2
<1> DEFINE c == Max({1, b})
<1>4. Min({30, c}) \in Nat
  <2> HIDE DEF c
  <2>1. {30, c} \in SUBSET Nat /\ {30, c} # {}
    BY <1>3 DEF c
  <2>2. Min({30, c}) \in {30, c}
    BY <2>1, MinOfNats
  <2> QED  BY <2>1, <2>2
<1> QED  BY <1>2, <1>4 DEF NewFilter, Filter, a, b

\* create.
LEMMA WriterCreated ==
    ASSUME NEW n \in Nat
    PROVE  WriterOK(create(n)) /\ create(n).last_key = 0
<1> DEFINE w == create(n)
<1>1. w \in Writer
  <2>1. NewFilter(n) \in Filter
    BY FilterNew
  <2>2. << >> \in Seq(DataExtent) /\ << >> \in Seq(Item) /\ << >> \in Seq(IndexEntry)
    BY EmptySeq
  <2> QED  BY <2>1, <2>2 DEF create, Writer, OpenFile
<1>2. /\ w.file.extents = <<>> /\ w.current_block = <<>> /\ w.index_entries = <<>> /\ w.file.len = 0
      /\ w.next_block_offset = 0 /\ w.first_key = 0 /\ w.last_key = 0
  BY DEF create
<1> HIDE DEF w
<1>3. Indexed(w) /\ CurrentBlock(w)
  BY <1>2 DEF Indexed, CurrentBlock
<1>4. \A i : i \in 1 .. Len(w.file.extents) + 1 => Blk(w, i) = <<>>
  BY <1>2 DEF Blk
<1>5. Sorted(w) /\ Remembered(w)
  BY <1>4 DEF Sorted, Remembered
<1> QED  BY <1>1, <1>2, <1>3, <1>5 DEF WriterOK, w

\* What the writer holds, in its blocks and in the current one.
InBlock(b, k, e) == \E p \in DOMAIN b : b[p].key = k /\ b[p].entry = e
Stored(w, k, e) == \E i \in 1 .. Len(w.file.extents) + 1 : InBlock(Blk(w, i), k, e)
SameContents(w, v) == \A k, e : Stored(w, k, e) <=> Stored(v, k, e)

LEMMA BlkIs ==
    ASSUME NEW w, w \in Writer
    PROVE  /\ Len(w.file.extents) \in Nat /\ Len(w.index_entries) \in Nat
           /\ \A i \in 1 .. Len(w.file.extents) : w.file.extents[i] \in DataExtent
           /\ \A i \in 1 .. Len(w.index_entries) : w.index_entries[i] \in IndexEntry
           /\ \A i \in 1 .. Len(w.file.extents) + 1 :
                 /\ Blk(w, i) \in Seq(Item) /\ Len(Blk(w, i)) \in Nat
                 /\ DOMAIN Blk(w, i) = 1 .. Len(Blk(w, i))
                 /\ \A p \in DOMAIN Blk(w, i) : Blk(w, i)[p] \in Item
<1>1. w.file.extents \in Seq(DataExtent) /\ w.index_entries \in Seq(IndexEntry) /\ w.current_block \in Seq(Item)
  BY DEF Writer, OpenFile
<1>2. /\ Len(w.file.extents) \in Nat /\ Len(w.index_entries) \in Nat
      /\ \A i \in 1 .. Len(w.file.extents) : w.file.extents[i] \in DataExtent
      /\ \A i \in 1 .. Len(w.index_entries) : w.index_entries[i] \in IndexEntry
  BY <1>1, LenProperties, ElementOfSeq
<1>3. ASSUME NEW i \in 1 .. Len(w.file.extents) + 1
      PROVE  /\ Blk(w, i) \in Seq(Item) /\ Len(Blk(w, i)) \in Nat
             /\ DOMAIN Blk(w, i) = 1 .. Len(Blk(w, i))
             /\ \A p \in DOMAIN Blk(w, i) : Blk(w, i)[p] \in Item
  <2>1. Blk(w, i) \in Seq(Item)
    <3>1. CASE i <= Len(w.file.extents)
      <4>1. i \in 1 .. Len(w.file.extents)
        BY <1>2, <3>1
      <4>2. w.file.extents[i] \in DataExtent
        BY <1>2, <4>1
      <4>3. w.file.extents[i].content \in Seq(Item)
        BY <4>2 DEF DataExtent
      <4> QED  BY <3>1, <4>3 DEF Blk
    <3>2. CASE ~(i <= Len(w.file.extents))
      BY <1>1, <3>2 DEF Blk
    <3> QED  BY <3>1, <3>2
  <2> DEFINE b == Blk(w, i)
  <2> HIDE DEF b
  <2>2. Len(b) \in Nat /\ DOMAIN b = 1 .. Len(b) /\ \A p \in 1 .. Len(b) : b[p] \in Item
    BY <2>1, LenProperties, ElementOfSeq DEF b
  <2> QED  BY <2>1, <2>2 DEF b
<1> QED  BY <1>2, <1>3

\* flush_current_block.
LEMMA BlockFlushed ==
    ASSUME NEW w, WriterOK(w), w.current_block # <<>>
    PROVE  LET v == flush_current_block(w)
               n == Len(w.file.extents)
           IN  /\ WriterOK(v)
               /\ v.current_block = <<>> /\ v.last_key = w.last_key /\ v.bloom = w.bloom
               /\ SameContents(w, v)
<1> DEFINE v == flush_current_block(w)
           n == Len(w.file.extents)
           length == w.current_len + CRC_LEN
           x == [at |-> w.file.len, length |-> length, type |-> "data", content |-> w.current_block]
           y == [first_key |-> w.first_key, offset |-> w.next_block_offset, length |-> length]
<1>0. w \in Writer /\ Indexed(w) /\ CurrentBlock(w) /\ Sorted(w) /\ Remembered(w)
  BY DEF WriterOK
<1>1. n \in Nat /\ length \in Nat /\ length > 0 /\ w.file.len \in Nat /\ w.next_block_offset = w.file.len
      /\ w.current_block \in Seq(Item) /\ w.current_len \in Nat
  BY <1>0, BlkIs DEF Writer, OpenFile, CRC_LEN, Indexed
<1>2. Len(w.current_block) \in Nat /\ Len(w.current_block) > 0
  BY <1>1, EmptySeq
<1>3. w.current_block[1] \in Item /\ w.first_key = w.current_block[1].key /\ w.first_key \in Keys
  <2>1. w.current_block[1] \in Item
    BY <1>1, <1>2, ElementOfSeq
  <2> QED  BY <1>0, <2>1 DEF CurrentBlock, Item
<1>4. x \in DataExtent /\ y \in IndexEntry
  BY <1>1, <1>3 DEF DataExtent, IndexEntry
<1>5. /\ v.file = [len |-> w.file.len + length, extents |-> Append(w.file.extents, x), bad |-> w.file.bad]
      /\ v.index_entries = Append(w.index_entries, y) /\ v.next_block_offset = w.next_block_offset + length
      /\ v.current_block = <<>> /\ v.current_len = 0 /\ v.first_key = 0 /\ v.last_key = w.last_key
      /\ v.bloom = w.bloom
  BY <1>0 DEF flush_current_block, FileAppended, Writer, OpenFile
<1>6. /\ Append(w.file.extents, x) \in Seq(DataExtent) /\ Len(Append(w.file.extents, x)) = n + 1
      /\ \A i \in 1 .. n : Append(w.file.extents, x)[i] = w.file.extents[i]
      /\ Append(w.file.extents, x)[n + 1] = x
  <2>1. w.file.extents \in Seq(DataExtent)
    BY <1>0 DEF Writer, OpenFile
  <2> HIDE DEF x
  <2> QED  BY <1>4, <2>1, AppendProperties
<1>7. /\ Append(w.index_entries, y) \in Seq(IndexEntry) /\ Len(Append(w.index_entries, y)) = n + 1
      /\ \A i \in 1 .. n : Append(w.index_entries, y)[i] = w.index_entries[i]
      /\ Append(w.index_entries, y)[n + 1] = y
  <2>1. w.index_entries \in Seq(IndexEntry) /\ Len(w.index_entries) = n
    BY <1>0 DEF Writer, Indexed
  <2> HIDE DEF y
  <2> QED  BY <1>4, <2>1, AppendProperties
<1>8. v \in Writer
  <2>1. v.file \in OpenFile
    BY <1>0, <1>1, <1>5, <1>6 DEF Writer, OpenFile
  <2> DEFINE file == v.file
             entries == v.index_entries
             offset == v.next_block_offset
  <2>2. v = [w EXCEPT !.file = file, !.index_entries = entries, !.next_block_offset = offset,
                      !.current_block = <<>>, !.current_len = 0, !.first_key = 0]
    <3>1. file = FileAppended(w.file, "data", length, w.current_block) /\ entries = Append(w.index_entries, y)
          /\ offset = w.next_block_offset + length
      BY <1>0 DEF flush_current_block, FileAppended, Writer, OpenFile
    <3> HIDE DEF file, entries, offset
    <3> QED  BY <3>1 DEF flush_current_block
  <2>3. entries \in Seq(IndexEntry) /\ offset \in Nat /\ << >> \in Seq(Item)
    BY <1>1, <1>5, <1>7, EmptySeq
  <2> HIDE DEF v, file, entries, offset
  <2>4. file \in OpenFile
    BY <2>1 DEF file
  <2> QED  BY <1>0, <2>2, <2>3, <2>4 DEF Writer
<1>9. /\ Len(v.file.extents) = n + 1 /\ \A i \in 1 .. n : v.file.extents[i] = w.file.extents[i]
      /\ v.file.extents[n + 1] = x /\ v.file.len = w.file.len + length
      /\ Len(v.index_entries) = n + 1 /\ \A i \in 1 .. n : v.index_entries[i] = w.index_entries[i]
      /\ v.index_entries[n + 1] = y
  <2> HIDE DEF x, y, v
  <2> QED  BY <1>5, <1>6, <1>7
<1>10. (\A i \in 1 .. n + 1 : Blk(v, i) = Blk(w, i)) /\ Blk(v, n + 2) = <<>>
  <2>1. x.content = w.current_block
    OBVIOUS
  <2> HIDE DEF v, x
  <2> QED  BY <1>1, <1>5, <1>9, <2>1 DEF Blk
<1>11. Indexed(v)
  <2>1. Describes(x, y)
    <3>1. x.content = w.current_block /\ x.at = w.file.len /\ x.length = length
          /\ y.first_key = w.first_key /\ y.offset = w.next_block_offset /\ y.length = length
      OBVIOUS
    <3>2. Len(w.current_block) > 1 => length <= DATA_BLOCK_TARGET_SIZE + CRC_LEN
      BY <1>0, <1>1, TableAssumption DEF CurrentBlock, CRC_LEN
    <3> HIDE DEF x, y, length
    <3> QED  BY <1>1, <1>3, <3>1, <3>2 DEF Describes
  <2>2. x.at = w.file.len /\ x.length = length
    OBVIOUS
  <2>3. v.next_block_offset = v.file.len
    BY <1>1, <1>5
  <2>4. ASSUME NEW i \in 1 .. n
        PROVE  /\ Describes(w.file.extents[i], w.index_entries[i])
               /\ w.file.extents[i].at + w.file.extents[i].length <= w.file.len
               /\ w.file.extents[i].at < w.file.len
               /\ w.file.extents[i].at \in Nat /\ w.file.extents[i].length \in Nat
    <3>1. Describes(w.file.extents[i], w.index_entries[i])
          /\ w.file.extents[i].at + w.file.extents[i].length <= w.file.len
      BY <1>0 DEF Indexed
    <3>2. w.file.extents[i].length > 0
      BY <3>1 DEF Describes
    <3>3. w.file.extents[i].at \in Nat /\ w.file.extents[i].length \in Nat
      BY <1>0, BlkIs DEF DataExtent
    <3> QED  BY <1>1, <3>1, <3>2, <3>3
  <2> HIDE DEF v, x, y, length
  <2>5. ASSUME NEW i \in 1 .. n + 1
        PROVE  /\ Describes(v.file.extents[i], v.index_entries[i])
               /\ v.file.extents[i].at + v.file.extents[i].length <= v.file.len
    <3>1. CASE i = n + 1
      <4>1. v.file.extents[i] = x /\ v.index_entries[i] = y
        BY <1>9, <3>1
      <4>2. x.at + x.length <= v.file.len
        BY <1>1, <1>9, <2>2
      <4> QED  BY <2>1, <4>1, <4>2
    <3>2. CASE i # n + 1
      <4>1. i \in 1 .. n
        BY <1>1, <3>2
      <4>2. v.file.extents[i] = w.file.extents[i] /\ v.index_entries[i] = w.index_entries[i]
        BY <1>9, <4>1
      <4>3. Describes(w.file.extents[i], w.index_entries[i])
        BY <2>4, <4>1
      <4>4. w.file.extents[i].at + w.file.extents[i].length <= v.file.len
        <5> DEFINE z == w.file.extents[i]
        <5>1. z.at \in Nat /\ z.length \in Nat /\ z.at + z.length <= w.file.len
          BY <2>4, <4>1
        <5>2. v.file.len = w.file.len + length
          BY <1>9
        <5> HIDE DEF z
        <5>3. z.at + z.length <= v.file.len
          BY <1>1, <5>1, <5>2
        <5> QED  BY <5>3 DEF z
      <4> QED  BY <4>2, <4>3, <4>4
    <3> QED  BY <3>1, <3>2
  <2>6. \A i, j \in 1 .. n + 1 : i < j => v.file.extents[i].at < v.file.extents[j].at
    <3> SUFFICES ASSUME NEW i \in 1 .. n + 1, NEW j \in 1 .. n + 1, i < j
                 PROVE  v.file.extents[i].at < v.file.extents[j].at
      OBVIOUS
    <3>1. i \in 1 .. n
      BY <1>1
    <3>2. CASE j = n + 1
      BY <1>9, <2>2, <2>4, <3>1, <3>2
    <3>3. CASE j # n + 1
      <4>1. j \in 1 .. n
        BY <1>1, <3>3
      <4> QED  BY <1>0, <1>9, <3>1, <4>1 DEF Indexed
    <3> QED  BY <3>2, <3>3
  <2> QED  BY <1>9, <2>3, <2>5, <2>6 DEF Indexed
<1>12. CurrentBlock(v)
  BY <1>5 DEF CurrentBlock
<1>13. ASSUME NEW i \in 1 .. n + 2, NEW p \in DOMAIN Blk(v, i)
       PROVE  i \in 1 .. n + 1 /\ p \in DOMAIN Blk(w, i) /\ Blk(v, i)[p] = Blk(w, i)[p]
  <2> HIDE DEF v
  <2>1. i # n + 2
    BY <1>10, <1>13
  <2>2. i \in 1 .. n + 1
    BY <1>1, <2>1
  <2> QED  BY <1>10, <1>13, <2>2
<1>14. Sorted(v)
  <2> HIDE DEF v
  <2>1. n + 1 + 1 = n + 2
    BY <1>1
  <2> QED  BY <1>0, <1>9, <1>13, <2>1 DEF Sorted
<1>15. Remembered(v)
  <2> HIDE DEF v
  <2>1. n + 1 + 1 = n + 2
    BY <1>1
  <2> QED  BY <1>0, <1>5, <1>9, <1>13, <2>1 DEF Remembered
<1>16. SameContents(w, v)
  <2> HIDE DEF v
  <2>1. Len(v.file.extents) + 1 = n + 2 /\ 1 .. n + 1 \subseteq 1 .. n + 2
    BY <1>1, <1>9
  <2> QED  BY <1>10, <1>13, <2>1 DEF SameContents, Stored, InBlock
<1> HIDE DEF v
<1> QED  BY <1>5, <1>8, <1>11, <1>12, <1>14, <1>15, <1>16 DEF WriterOK, v

\* BloomFilter::insert sets the bits of its key and clears none.
LEMMA BloomInserted ==
    ASSUME NEW bf \in Filter, NEW key \in Keys
    PROVE  /\ bloom_insert(bf, key) \in Filter
           /\ bloom_contains(bloom_insert(bf, key), key)
           /\ \A k : bloom_contains(bf, k) => bloom_contains(bloom_insert(bf, key), k)
<1> DEFINE new == {synth_index(Hash[key], i, bf.m) : i \in 0 .. bf.k - 1}
<1>1. ASSUME NEW i \in 0 .. bf.k - 1
      PROVE  synth_index(Hash[key], i, bf.m) \in Nat
  <2> DEFINE h1 == Hash[key].h1
             h2 == Hash[key].h2
             x == (i * h2) % HashSpace
  <2>1. Hash[key] \in [h1 : 0 .. HashSpace - 1, h2 : 0 .. HashSpace - 1] /\ HashSpace \in Nat \ {0}
    BY TableAssumption
  <2>2. h1 \in Nat /\ h2 \in Nat
    BY <2>1
  <2>3. i \in Nat
    BY DEF Filter
  <2>4. i * h2 \in Nat
    BY <2>2, <2>3
  <2>5. x \in Nat
    BY <2>1, <2>4
  <2>6. bf.m \in Nat \ {0}
    BY DEF Filter
  <2> HIDE DEF x
  <2>7. (h1 + x) % HashSpace \in Nat
    BY <2>1, <2>2, <2>5
  <2> DEFINE y == (h1 + x) % HashSpace
  <2>8. y % bf.m \in Nat
    <3> HIDE DEF y
    <3> QED  BY <2>6, <2>7 DEF y
  <2> QED  BY <2>8 DEF synth_index, x
<1>2. new \in SUBSET Nat
  BY <1>1
<1>3. bloom_insert(bf, key) = [bf EXCEPT !.bits = @ \cup new]
  BY DEF bloom_insert
<1>4. /\ bloom_insert(bf, key) \in Filter
      /\ bloom_insert(bf, key).m = bf.m /\ bloom_insert(bf, key).k = bf.k
      /\ bloom_insert(bf, key).bits = bf.bits \cup new
  <2> HIDE DEF new
  <2> QED  BY <1>2, <1>3 DEF Filter
<1>5. bloom_contains(bloom_insert(bf, key), key)
  BY <1>4 DEF bloom_contains
<1>6. \A k : bloom_contains(bf, k) => bloom_contains(bloom_insert(bf, key), k)
  BY <1>4 DEF bloom_contains
<1> QED  BY <1>4, <1>5, <1>6

\* What add does behind the cut: one more item in the current block.
ItemAdded(v, key, entry) ==
    [v EXCEPT !.first_key = IF @ = 0 THEN key ELSE @,
              !.current_block = Append(@, [key |-> key, entry |-> entry]),
              !.current_len = @ + encoded_entry_size(key, entry),
              !.last_key = key,
              !.bloom = IF bloom_bits_per_key > 0 THEN bloom_insert(@, key) ELSE @]

LEMMA ItemAppended ==
    ASSUME NEW w, WriterOK(w), NEW key \in Keys, key > w.last_key, NEW entry \in Entries,
           w.current_block = <<>>
              \/ w.current_len + encoded_entry_size(key, entry) <= DATA_BLOCK_TARGET_SIZE
    PROVE  LET v == ItemAdded(w, key, entry)
           IN  /\ WriterOK(v) /\ v.last_key = key
               /\ \A k, e : Stored(v, k, e) <=> Stored(w, k, e) \/ (k = key /\ e = entry)
<1> DEFINE v == ItemAdded(w, key, entry)
           n == Len(w.file.extents)
           x == [key |-> key, entry |-> entry]
           b == w.current_block
           c == Append(b, x)
           size == encoded_entry_size(key, entry)
           bloom == IF bloom_bits_per_key > 0 THEN bloom_insert(w.bloom, key) ELSE w.bloom
           first == IF w.first_key = 0 THEN key ELSE w.first_key
           length == w.current_len + size
<1>0. w \in Writer /\ Indexed(w) /\ CurrentBlock(w) /\ Sorted(w) /\ Remembered(w)
  BY DEF WriterOK
<1>1. n \in Nat /\ b \in Seq(Item) /\ Len(b) \in Nat /\ w.current_len \in Nat
      /\ DOMAIN b = 1 .. Len(b) /\ w.last_key \in Nat /\ w.bloom \in Filter
      /\ w.first_key \in Keys \cup {0} /\ key \in Nat /\ 0 \notin Keys
  <2>1. b \in Seq(Item) /\ w.current_len \in Nat /\ w.last_key \in Keys \cup {0} /\ w.bloom \in Filter
        /\ w.first_key \in Keys \cup {0}
    BY <1>0 DEF Writer
  <2> HIDE DEF b
  <2>2. Len(b) \in Nat /\ DOMAIN b = 1 .. Len(b)
    BY <2>1, LenProperties
  <2>3. key \in Nat /\ 0 \notin Keys /\ w.last_key \in Nat
    BY <2>1, MemtableAssumption
  <2>4. n \in Nat
    BY <1>0, BlkIs
  <2> QED  BY <2>1, <2>2, <2>3, <2>4
<1>2. size \in Nat
  <2>1. KeyLen[key] \in Nat /\ payload_size(entry) \in Nat
    BY PayloadNat, MemtableAssumption
  <2> QED  BY <2>1 DEF encoded_entry_size, ENTRY_HEADER_LEN
<1>3. x \in Item /\ x.key = key /\ x.entry = entry
  BY DEF Item
<1>4. /\ c \in Seq(Item) /\ Len(c) = Len(b) + 1 /\ c # <<>> /\ DOMAIN c = 1 .. Len(b) + 1
      /\ \A p \in 1 .. Len(b) : c[p] = b[p]
      /\ c[Len(b) + 1] = x
  <2> HIDE DEF x, b
  <2>1. c \in Seq(Item) /\ Len(c) = Len(b) + 1 /\ c # <<>>
        /\ \A p \in 1 .. Len(b) : c[p] = b[p]
    BY <1>1, <1>3, AppendProperties
  <2>2. c[Len(b) + 1] = x
    BY <1>1, <1>3, AppendProperties
  <2>3. DOMAIN c = 1 .. Len(c)
    <3> HIDE DEF c
    <3> QED  BY <2>1, LenProperties
  <2> QED  BY <2>1, <2>2, <2>3
<1>5. bloom \in Filter /\ (bloom_bits_per_key > 0 => bloom_contains(bloom, key))
      /\ \A k : bloom_contains(w.bloom, k) => bloom_contains(bloom, k)
  BY <1>1, BloomInserted
<1> HIDE DEF x, c, size, bloom, first, length
<1>6. v = [w EXCEPT !.first_key = first, !.current_block = c, !.current_len = length,
                    !.last_key = key, !.bloom = bloom]
  BY DEF ItemAdded, first, c, b, x, length, size, bloom
<1>7. length \in Nat /\ first \in Keys \cup {0}
  BY <1>1, <1>2 DEF length, first
<1> HIDE DEF v, b
<1>8. /\ v \in Writer /\ v.file = w.file /\ v.index_entries = w.index_entries
      /\ v.next_block_offset = w.next_block_offset /\ v.first_key = first /\ v.current_block = c
      /\ v.current_len = length /\ v.last_key = key /\ v.bloom = bloom
  BY <1>0, <1>4, <1>5, <1>6, <1>7 DEF Writer
<1>9. Indexed(v)
  BY <1>0, <1>8 DEF Indexed
<1>10. CurrentBlock(v)
  <2>1. CASE b = <<>>
    <3>1. w.first_key = 0 /\ Len(b) = 0
      BY <1>0, <2>1 DEF CurrentBlock, b
    <3>2. first = key /\ c[1] = x /\ Len(c) = 1
      BY <1>4, <3>1 DEF first
    <3>3. c[1].key = key /\ ~(Len(c) > 1)
      BY <1>3, <3>2
    <3> QED  BY <1>4, <1>8, <3>2, <3>3 DEF CurrentBlock
  <2>2. CASE b # <<>>
    <3>1. Len(b) > 0 /\ w.first_key = b[1].key
      BY <1>0, <1>1, <2>2, EmptySeq DEF CurrentBlock, b
    <3>2. b[1] \in Item
      BY <1>1, <3>1, ElementOfSeq
    <3>3. w.first_key \in Keys
      BY <3>1, <3>2 DEF Item
    <3>4. first = b[1].key /\ c[1] = b[1]
      BY <1>1, <1>4, <3>1, <3>3 DEF first
    <3>5. length <= DATA_BLOCK_TARGET_SIZE
      BY <2>2 DEF length, size, b
    <3> QED  BY <1>4, <1>8, <3>4, <3>5 DEF CurrentBlock
  <2> QED  BY <2>1, <2>2
<1>11. /\ Len(v.file.extents) = n
       /\ \A i \in 1 .. n : Blk(v, i) = Blk(w, i)
       /\ Blk(v, n + 1) = c /\ Blk(w, n + 1) = b
  BY <1>1, <1>8 DEF Blk, b
<1>12. ASSUME NEW i \in 1 .. n + 1, NEW p \in DOMAIN Blk(v, i)
       PROVE  \/ p \in DOMAIN Blk(w, i) /\ Blk(v, i)[p] = Blk(w, i)[p]
              \/ i = n + 1 /\ p = Len(b) + 1 /\ Blk(v, i)[p] = x
  <2>1. CASE i = n + 1
    <3>1. p \in 1 .. Len(b) + 1 /\ Blk(v, i) = c /\ Blk(w, i) = b
      BY <1>4, <1>11, <1>12, <2>1
    <3>2. CASE p = Len(b) + 1
      BY <1>4, <2>1, <3>1, <3>2
    <3>3. CASE p # Len(b) + 1
      <4>1. p \in 1 .. Len(b)
        BY <1>1, <3>1, <3>3
      <4> QED  BY <1>1, <1>4, <3>1, <4>1
    <3> QED  BY <3>2, <3>3
  <2>2. CASE i # n + 1
    <3>1. i \in 1 .. n
      BY <1>1, <2>2
    <3> QED  BY <1>11, <1>12, <3>1
  <2> QED  BY <2>1, <2>2
<1>13. ASSUME NEW i \in 1 .. n + 1, NEW p \in DOMAIN Blk(w, i)
       PROVE  /\ p \in DOMAIN Blk(v, i) /\ Blk(v, i)[p] = Blk(w, i)[p]
              /\ Blk(w, i)[p].key <= w.last_key /\ Blk(w, i)[p].key \in Nat /\ Blk(w, i)[p].key < key
              /\ i = n + 1 => p \in Nat /\ p < Len(b) + 1
  <2>1. Blk(w, i)[p].key <= w.last_key
    BY <1>0 DEF Remembered
  <2>2. Blk(w, i)[p] \in Item
    BY <1>0, BlkIs
  <2>3. Blk(w, i)[p].key \in Nat
    BY <2>2, MemtableAssumption DEF Item
  <2>4. Blk(w, i)[p].key < key
    BY <1>1, <2>1, <2>3
  <2>5. CASE i = n + 1
    <3>1. Blk(w, i) = b /\ Blk(v, i) = c /\ p \in 1 .. Len(b)
      BY <1>1, <1>11, <1>13, <2>5
    <3>2. p \in 1 .. Len(b) + 1 /\ p < Len(b) + 1
      BY <1>1, <3>1
    <3> QED  BY <1>4, <2>1, <2>3, <2>4, <3>1, <3>2
  <2>6. CASE i # n + 1
    <3>1. i \in 1 .. n
      BY <1>1, <2>6
    <3> QED  BY <1>11, <1>13, <2>1, <2>3, <2>4, <2>6, <3>1
  <2> QED  BY <2>5, <2>6
<1>14. Sorted(v)
  <2> SUFFICES ASSUME NEW i \in 1 .. n + 1, NEW j \in 1 .. n + 1, NEW p \in DOMAIN Blk(v, i),
                      NEW q \in DOMAIN Blk(v, j), Before(i, p, j, q)
               PROVE  Blk(v, i)[p].key < Blk(v, j)[q].key
    BY <1>11 DEF Sorted
  <2>1. p \in DOMAIN Blk(w, i) /\ Blk(v, i)[p] = Blk(w, i)[p]
    <3> SUFFICES ASSUME i = n + 1, p = Len(b) + 1 PROVE FALSE
      BY <1>12
    <3>1. j = n + 1 /\ p < q
      BY <1>1 DEF Before
    <3>2. q \in 1 .. Len(b) + 1
      BY <1>4, <1>11, <3>1
    <3> QED  BY <1>1, <3>1, <3>2
  <2>2. CASE q \in DOMAIN Blk(w, j) /\ Blk(v, j)[q] = Blk(w, j)[q]
    BY <1>0, <2>1, <2>2 DEF Sorted
  <2>3. CASE Blk(v, j)[q] = x
    BY <1>3, <1>13, <2>1, <2>3
  <2> QED  BY <1>12, <2>2, <2>3
<1>15. Remembered(v)
  <2> SUFFICES ASSUME NEW i \in 1 .. n + 1, NEW p \in DOMAIN Blk(v, i)
               PROVE  Blk(v, i)[p].key <= key
                      /\ (bloom_bits_per_key > 0 => bloom_contains(bloom, Blk(v, i)[p].key))
    BY <1>8, <1>11 DEF Remembered
  <2>1. CASE p \in DOMAIN Blk(w, i) /\ Blk(v, i)[p] = Blk(w, i)[p]
    <3>1. Blk(w, i)[p].key \in Nat /\ Blk(w, i)[p].key < key
      BY <1>13, <2>1
    <3>2. bloom_bits_per_key > 0 => bloom_contains(w.bloom, Blk(w, i)[p].key)
      BY <1>0, <2>1 DEF Remembered
    <3> QED  BY <1>1, <1>5, <2>1, <3>1, <3>2
  <2>2. CASE Blk(v, i)[p] = x
    BY <1>1, <1>3, <1>5, <2>2
  <2> QED  BY <1>12, <2>1, <2>2
<1>16. ASSUME NEW k, NEW e
       PROVE  Stored(v, k, e) <=> Stored(w, k, e) \/ (k = key /\ e = entry)
  <2>1. ASSUME Stored(v, k, e) PROVE Stored(w, k, e) \/ (k = key /\ e = entry)
    <3>0. PICK i \in 1 .. n + 1 : InBlock(Blk(v, i), k, e)
      BY <1>11, <2>1 DEF Stored
    <3>1. PICK p \in DOMAIN Blk(v, i) : Blk(v, i)[p].key = k /\ Blk(v, i)[p].entry = e
      BY <3>0 DEF InBlock
    <3> QED  BY <1>3, <1>12, <3>1 DEF Stored, InBlock
  <2>2. ASSUME Stored(w, k, e) PROVE Stored(v, k, e)
    BY <1>11, <1>13, <2>2 DEF Stored, InBlock
  <2>3. Stored(v, key, entry)
    <3>1. n + 1 \in 1 .. n + 1 /\ Len(b) + 1 \in DOMAIN Blk(v, n + 1) /\ Blk(v, n + 1)[Len(b) + 1] = x
      BY <1>1, <1>4, <1>11
    <3> QED  BY <1>3, <1>11, <3>1 DEF Stored, InBlock
  <2> QED  BY <2>1, <2>2, <2>3
<1> QED  BY <1>8, <1>9, <1>10, <1>14, <1>15, <1>16 DEF WriterOK, v

\* add.
LEMMA WriterAdds ==
    ASSUME NEW w, WriterOK(w), NEW key \in Keys, Accepts(w, key), NEW entry \in Entries
    PROVE  LET v == add(w, key, entry)
           IN  /\ WriterOK(v) /\ v.last_key = key
               /\ \A k, e : Stored(v, k, e) <=> Stored(w, k, e) \/ (k = key /\ e = entry)
<1> DEFINE u == IF BlockFull(w, encoded_entry_size(key, entry)) THEN flush_current_block(w) ELSE w
<1>1. add(w, key, entry) = ItemAdded(u, key, entry)
  BY DEF add, ItemAdded
<1>2. /\ WriterOK(u) /\ u.last_key = w.last_key /\ SameContents(w, u)
      /\ u.current_block = <<>>
            \/ u.current_len + encoded_entry_size(key, entry) <= DATA_BLOCK_TARGET_SIZE
  <2>1. CASE BlockFull(w, encoded_entry_size(key, entry))
    BY <2>1, BlockFlushed DEF BlockFull
  <2>2. CASE ~BlockFull(w, encoded_entry_size(key, entry))
    <3>1. u = w /\ SameContents(w, w)
      BY <2>2 DEF SameContents
    <3>2. w.current_len + encoded_entry_size(key, entry) \in Nat
      <4>1. KeyLen[key] \in Nat /\ payload_size(entry) \in Nat
        BY PayloadNat, MemtableAssumption
      <4>2. w.current_len \in Nat
        BY DEF WriterOK, Writer
      <4> QED  BY <4>1, <4>2 DEF encoded_entry_size, ENTRY_HEADER_LEN
    <3> QED  BY <2>2, <3>1, <3>2, TableAssumption DEF BlockFull
  <2> QED  BY <2>1, <2>2
<1> HIDE DEF u
<1>3. key > u.last_key
  BY <1>2 DEF Accepts
<1> DEFINE v == ItemAdded(u, key, entry)
<1>4. WriterOK(v) /\ v.last_key = key
      /\ \A k, e : Stored(v, k, e) <=> Stored(u, k, e) \/ (k = key /\ e = entry)
  BY <1>2, <1>3, ItemAppended
<1> HIDE DEF v
<1> QED  BY <1>1, <1>2, <1>4 DEF SameContents, v

-----------------------------------------------------------------------------
(* The finished file and its reader                                        *)

LEMMA IndexLengthNat ==
    ASSUME NEW entries \in Seq(IndexEntry)
    PROVE  IndexLength(entries) \in Nat
<1> DEFINE S == DOMAIN entries
           size(i) == INDEX_ENTRY_HEADER_LEN + KeyLen[entries[i].first_key]
           f == [i \in S |-> size(i)]
           pick(s) == CHOOSE x \in s : TRUE
           A(g) == g = [s \in SUBSET S |-> IF s = {} THEN 0
                           ELSE (INDEX_ENTRY_HEADER_LEN + KeyLen[entries[pick(s)].first_key]) + g[s \ {pick(s)}]]
           B(g) == g = [s \in SUBSET S |-> IF s = {} THEN 0 ELSE f[pick(s)] + g[s \ {pick(s)}]]
<1>1. IndexLength(entries) = (CHOOSE g : A(g))[S] + CRC_LEN
  BY Zenon DEF IndexLength, MapThenSumSet, MapThenFoldSet
<1>2. Sum(f, S) = (CHOOSE g : B(g))[S]
  BY Zenon DEF Sum, SumRec
<1>3. ASSUME NEW g PROVE A(g) <=> B(g)
  <2>1. ASSUME NEW s \in SUBSET S, s # {}
        PROVE  f[pick(s)] = INDEX_ENTRY_HEADER_LEN + KeyLen[entries[pick(s)].first_key]
    <3>1. pick(s) \in s
      BY <2>1
    <3> HIDE DEF pick
    <3> QED  BY <3>1
  <2> HIDE DEF f, pick, S
  <2> QED  BY <2>1
<1> HIDE DEF A, B
<1>4. (CHOOSE g : A(g)) = (CHOOSE g : B(g))
  BY <1>3, Zenon
<1>5. IsFiniteSet(S)
  BY LenProperties, FS_Interval
<1>6. \A i \in S : f[i] \in Nat
  <2> SUFFICES ASSUME NEW i \in S PROVE size(i) \in Nat
    OBVIOUS
  <2>1. entries[i] \in IndexEntry
    BY LenProperties, ElementOfSeq
  <2>2. KeyLen[entries[i].first_key] \in Nat
    BY <2>1, MemtableAssumption DEF IndexEntry
  <2> QED  BY <2>2 DEF INDEX_ENTRY_HEADER_LEN
<1>7. Sum(f, S) \in Nat
  <2> HIDE DEF f, S
  <2> QED  BY <1>5, <1>6, SumNat
<1>8. IndexLength(entries) = Sum(f, S) + CRC_LEN
  <2> HIDE DEF f, S
  <2> QED  BY <1>1, <1>2, <1>4
<1> HIDE DEF f, S
<1> QED  BY <1>7, <1>8 DEF CRC_LEN

Footers == [index_offset : Nat, index_length : Nat, bloom_offset : Nat, bloom_length : Nat]
Extent == [at : Nat, length : Nat, type : {"data", "bloom", "index", "footer"},
           content : Seq(Item) \cup Filter \cup Seq(IndexEntry) \cup Footers]
TableFile == [len : Nat, extents : Seq(Extent), bad : SUBSET Nat]
Reader == [file : TableFile, index : Seq(IndexEntry), bloom : Filter]

\* A reader's blocks on disk, whether they can be read or not.
TBlk(r, i) == r.file.extents[i].content
BlocksOf(r) == 1 .. Len(r.index)

TableOK(r) ==
    /\ r \in Reader
    /\ {i \in DOMAIN r.file.extents : r.file.extents[i].type = "data"} = BlocksOf(r)
    /\ \A i \in BlocksOf(r) : /\ r.file.extents[i] \in DataExtent
                              /\ Describes(r.file.extents[i], r.index[i])
    /\ \A i, j \in BlocksOf(r) : i < j => r.file.extents[i].at < r.file.extents[j].at
    /\ \A i, j \in BlocksOf(r) : \A p \in DOMAIN TBlk(r, i), q \in DOMAIN TBlk(r, j) :
          Before(i, p, j, q) => TBlk(r, i)[p].key < TBlk(r, j)[q].key
    /\ bloom_bits_per_key > 0 => \A i \in BlocksOf(r) : \A p \in DOMAIN TBlk(r, i) :
          bloom_contains(r.bloom, TBlk(r, i)[p].key)

\* What is in a table.
InTable(r, k, e) == \E i \in BlocksOf(r) : InBlock(TBlk(r, i), k, e)

\* g is the file with one more extent.
Grown(g, file, type, length, content) ==
    LET n == Len(file.extents)
    IN  /\ g \in TableFile /\ g.bad = file.bad /\ g.len = file.len + length
        /\ n \in Nat /\ Len(g.extents) = n + 1 /\ DOMAIN g.extents = 1 .. n + 1
        /\ \A i \in 1 .. n : g.extents[i] = file.extents[i]
        /\ g.extents[n + 1].at = file.len /\ g.extents[n + 1].length = length
        /\ g.extents[n + 1].type = type /\ g.extents[n + 1].content = content

LEMMA FileGrows ==
    ASSUME NEW file \in TableFile, NEW type \in {"data", "bloom", "index", "footer"}, NEW length \in Nat,
           NEW content \in Seq(Item) \cup Filter \cup Seq(IndexEntry) \cup Footers
    PROVE  Grown(FileAppended(file, type, length, content), file, type, length, content)
<1> DEFINE n == Len(file.extents)
           x == [at |-> file.len, length |-> length, type |-> type, content |-> content]
           g == FileAppended(file, type, length, content)
           s == Append(file.extents, x)
<1>1. x \in Extent /\ file.extents \in Seq(Extent) /\ file.len \in Nat
  BY DEF Extent, TableFile
<1>2. x.at = file.len /\ x.length = length /\ x.type = type /\ x.content = content
  OBVIOUS
<1>3. g = [file EXCEPT !.extents = s, !.len = @ + length]
  BY DEF FileAppended
<1> HIDE DEF x, g
<1>4. s \in Seq(Extent) /\ Len(s) = n + 1 /\ \A i \in 1 .. n : s[i] = file.extents[i]
  BY <1>1, AppendProperties
<1>5. s[n + 1] = x
  BY <1>1, AppendProperties
<1>6. n \in Nat
  BY <1>1, LenProperties
<1> HIDE DEF s
<1>7. DOMAIN s = 1 .. Len(s)
  BY <1>4, LenProperties
<1>8. g \in TableFile /\ g.bad = file.bad /\ g.len = file.len + length /\ g.extents = s
  <2> DEFINE l == file.len + length
  <2>1. l \in Nat
    BY <1>1
  <2>2. g = [file EXCEPT !.extents = s, !.len = l]
    BY <1>3
  <2> HIDE DEF l
  <2>3. g \in TableFile /\ g.bad = file.bad /\ g.len = l /\ g.extents = s
    BY <1>4, <2>1, <2>2 DEF TableFile
  <2> QED  BY <2>3 DEF l
<1> HIDE DEF n
<1>9. /\ Len(g.extents) = n + 1 /\ DOMAIN g.extents = 1 .. n + 1
      /\ \A i \in 1 .. n : g.extents[i] = file.extents[i]
  BY <1>4, <1>7, <1>8
<1>10. /\ g.extents[n + 1].at = file.len /\ g.extents[n + 1].length = length
       /\ g.extents[n + 1].type = type /\ g.extents[n + 1].content = content
  BY <1>2, <1>5, <1>8
<1> QED  BY <1>6, <1>8, <1>9, <1>10 DEF Grown, n, g

\* The writer's file as a table's file.
LEMMA OpenIsTableFile ==
    ASSUME NEW file \in OpenFile
    PROVE  file \in TableFile
<1>1. DataExtent \subseteq Extent
  <2> SUFFICES ASSUME NEW x \in DataExtent PROVE x \in Extent
    OBVIOUS
  <2>1. /\ x = [at |-> x.at, length |-> x.length, type |-> x.type, content |-> x.content]
        /\ x.at \in Nat /\ x.length \in Nat /\ x.type = "data" /\ x.content \in Seq(Item)
    BY DEF DataExtent
  <2>2. x.type \in {"data", "bloom", "index", "footer"}
    BY <2>1
  <2> QED  BY <2>1, <2>2 DEF Extent
<1>2. file.extents \in Seq(DataExtent)
  BY DEF OpenFile
<1>3. file.extents \in Seq(Extent)
  BY <1>1, <1>2, SeqMonotonic
<1> QED  BY <1>3 DEF OpenFile, TableFile

\* The file behind the data blocks: filter, index and footer, each found by
\* its type, and the index where the footer says.
Trailer(file, data, filtered, bloom, entries) ==
    LET n == Len(data.extents)
        m == n + (IF filtered THEN 1 ELSE 0)
        bl == IF filtered THEN bloom_encoded_len(bloom) ELSE 0
        il == IndexLength(entries)
        x == file.extents
    IN  /\ file \in TableFile /\ file.bad = {} /\ file.len = data.len + bl + il + FOOTER_LEN
        /\ Len(x) = m + 2 /\ DOMAIN x = 1 .. m + 2
        /\ \A i \in 1 .. n : x[i] = data.extents[i]
        /\ filtered => /\ x[n + 1].at = data.len /\ x[n + 1].length = bl
                       /\ x[n + 1].type = "bloom" /\ x[n + 1].content = bloom
        /\ x[m + 1].at = data.len + bl /\ x[m + 1].length = il
        /\ x[m + 1].type = "index" /\ x[m + 1].content = entries
        /\ x[m + 2].type = "footer"
        /\ x[m + 2].content = [index_offset |-> data.len + bl, index_length |-> il,
                               bloom_offset |-> IF filtered THEN data.len ELSE 0,
                               bloom_length |-> bl]

LEMMA BloomLengthNat ==
    ASSUME NEW bf \in Filter
    PROVE  bloom_encoded_len(bf) \in Nat /\ bloom_encoded_len(bf) > 0
<1>1. bf.m \in Nat
  BY DEF Filter
<1>2. (bf.m + 8 - 1) \div 8 \in Nat
  BY <1>1
<1> QED  BY <1>2 DEF bloom_encoded_len, DivCeil, CRC_LEN

LEMMA FileFinished ==
    ASSUME NEW w, w \in Writer, w.current_block = <<>>, w.next_block_offset = w.file.len
    PROVE  Trailer(finish(w), w.file, bloom_bits_per_key > 0, w.bloom, w.index_entries)
<1> DEFINE filtered == bloom_bits_per_key > 0
           data == w.file
           n == Len(data.extents)
           m == n + (IF filtered THEN 1 ELSE 0)
           bl == IF filtered THEN bloom_encoded_len(w.bloom) ELSE 0
           il == IndexLength(w.index_entries)
           f1 == IF filtered THEN FileAppended(data, "bloom", bl, w.bloom) ELSE data
           f2 == FileAppended(f1, "index", il, w.index_entries)
           footer == [index_offset |-> w.next_block_offset + bl, index_length |-> il,
                      bloom_offset |-> IF filtered THEN w.next_block_offset ELSE 0,
                      bloom_length |-> bl]
           f3 == FileAppended(f2, "footer", FOOTER_LEN, footer)
<1>1. finish(w) = f3
  BY DEF finish, IndexOffset
<1>2. data \in TableFile /\ data.bad = {} /\ w.bloom \in Filter /\ w.index_entries \in Seq(IndexEntry)
      /\ data.len \in Nat
  <2>1. data \in OpenFile /\ w.bloom \in Filter /\ w.index_entries \in Seq(IndexEntry)
    BY DEF Writer
  <2>2. data.bad = {} /\ data.len \in Nat
    BY <2>1 DEF OpenFile
  <2> QED  BY <2>1, <2>2, OpenIsTableFile
<1>3. bl \in Nat /\ il \in Nat
  BY <1>2, BloomLengthNat, IndexLengthNat
<1> HIDE DEF data, bl, il
<1>4. /\ f1 \in TableFile /\ f1.bad = {} /\ f1.len = data.len + bl
      /\ n \in Nat /\ Len(f1.extents) = m
      /\ \A i \in 1 .. n : f1.extents[i] = data.extents[i]
      /\ filtered => /\ f1.extents[n + 1].at = data.len /\ f1.extents[n + 1].length = bl
                     /\ f1.extents[n + 1].type = "bloom" /\ f1.extents[n + 1].content = w.bloom
  <2>0. n \in Nat
    BY <1>2, LenProperties DEF TableFile
  <2>1. CASE filtered
    <3> DEFINE g == FileAppended(data, "bloom", bl, w.bloom)
    <3>1. /\ g \in TableFile /\ g.bad = data.bad /\ g.len = data.len + bl
          /\ Len(data.extents) \in Nat /\ Len(g.extents) = Len(data.extents) + 1
          /\ \A i \in 1 .. Len(data.extents) : g.extents[i] = data.extents[i]
          /\ g.extents[Len(data.extents) + 1].at = data.len
          /\ g.extents[Len(data.extents) + 1].length = bl
          /\ g.extents[Len(data.extents) + 1].type = "bloom"
          /\ g.extents[Len(data.extents) + 1].content = w.bloom
      <4>1. "bloom" \in {"data", "bloom", "index", "footer"}
            /\ w.bloom \in Seq(Item) \cup Filter \cup Seq(IndexEntry) \cup Footers
        BY <1>2
      <4>2. Grown(g, data, "bloom", bl, w.bloom)
        BY <1>2, <1>3, <4>1, FileGrows
      <4> HIDE DEF g
      <4> QED  BY <4>2 DEF Grown
    <3>2. f1 = g
      BY <2>1
    <3> HIDE DEF g, f1
    <3> QED  BY <1>2, <2>0, <2>1, <3>1, <3>2
  <2>2. CASE ~filtered
    <3>1. f1 = data /\ bl = 0
      BY <2>2 DEF bl
    <3> HIDE DEF f1
    <3> QED  BY <1>2, <2>0, <2>2, <3>1
  <2> QED  BY <2>1, <2>2
<1> HIDE DEF f1
<1>8. m \in Nat /\ n <= m /\ (filtered => m = n + 1)
  <2>1. n \in Nat
    BY <1>4
  <2>2. CASE filtered
    <3>1. m = n + 1
      BY <2>2
    <3> HIDE DEF n, m
    <3> QED  BY <2>1, <3>1
  <2>3. CASE ~filtered
    <3>1. m = n + 0
      BY <2>3
    <3> HIDE DEF n, m
    <3> QED  BY <2>1, <2>3, <3>1
  <2> QED  BY <2>2, <2>3
<1>5. /\ f2 \in TableFile /\ f2.bad = {} /\ f2.len = f1.len + il
      /\ Len(f1.extents) \in Nat /\ Len(f2.extents) = m + 1
      /\ \A i \in 1 .. m : f2.extents[i] = f1.extents[i]
      /\ f2.extents[m + 1].at = f1.len /\ f2.extents[m + 1].length = il
      /\ f2.extents[m + 1].type = "index" /\ f2.extents[m + 1].content = w.index_entries
  <2>1. /\ f2 \in TableFile /\ f2.bad = f1.bad /\ f2.len = f1.len + il
        /\ Len(f1.extents) \in Nat /\ Len(f2.extents) = Len(f1.extents) + 1
        /\ \A i \in 1 .. Len(f1.extents) : f2.extents[i] = f1.extents[i]
        /\ f2.extents[Len(f1.extents) + 1].at = f1.len
        /\ f2.extents[Len(f1.extents) + 1].length = il
        /\ f2.extents[Len(f1.extents) + 1].type = "index"
        /\ f2.extents[Len(f1.extents) + 1].content = w.index_entries
    <3>1. "index" \in {"data", "bloom", "index", "footer"}
          /\ w.index_entries \in Seq(Item) \cup Filter \cup Seq(IndexEntry) \cup Footers
      BY <1>2
    <3>2. f1 \in TableFile
      BY <1>4
    <3>3. Grown(f2, f1, "index", il, w.index_entries)
      BY <1>3, <3>1, <3>2, FileGrows
    <3> HIDE DEF f2
    <3> QED  BY <3>3 DEF Grown
  <2> HIDE DEF f2, m
  <2> QED  BY <1>4, <2>1
<1>6. footer \in Footers
  <2>1. w.next_block_offset \in Nat
    BY <1>2 DEF data
  <2> QED  BY <1>3, <2>1 DEF Footers
<1> HIDE DEF f2, footer
<1>7. /\ f3 \in TableFile /\ f3.bad = {} /\ f3.len = f2.len + FOOTER_LEN
      /\ Len(f3.extents) = m + 2 /\ DOMAIN f3.extents = 1 .. m + 2
      /\ \A i \in 1 .. m + 1 : f3.extents[i] = f2.extents[i]
      /\ f3.extents[m + 2].type = "footer" /\ f3.extents[m + 2].content = footer
  <2>1. FOOTER_LEN \in Nat
    BY DEF FOOTER_LEN
  <2>2. /\ f3 \in TableFile /\ f3.bad = f2.bad /\ f3.len = f2.len + FOOTER_LEN
        /\ Len(f2.extents) \in Nat /\ Len(f3.extents) = Len(f2.extents) + 1
        /\ DOMAIN f3.extents = 1 .. Len(f2.extents) + 1
        /\ \A i \in 1 .. Len(f2.extents) : f3.extents[i] = f2.extents[i]
        /\ f3.extents[Len(f2.extents) + 1].type = "footer"
        /\ f3.extents[Len(f2.extents) + 1].content = footer
    <3>1. "footer" \in {"data", "bloom", "index", "footer"}
          /\ footer \in Seq(Item) \cup Filter \cup Seq(IndexEntry) \cup Footers
      BY <1>6
    <3>2. f2 \in TableFile
      BY <1>5
    <3>3. Grown(f3, f2, "footer", FOOTER_LEN, footer)
      BY <2>1, <3>1, <3>2, FileGrows
    <3> HIDE DEF f3
    <3> QED  BY <3>3 DEF Grown
  <2>3. Len(f2.extents) = m + 1 /\ m + 1 + 1 = m + 2 /\ m \in Nat
    <3> HIDE DEF m
    <3> QED  BY <1>5, <1>8
  <2> HIDE DEF f3, m
  <2> QED  BY <1>5, <2>2, <2>3
<1> HIDE DEF f3
<1>9. footer = [index_offset |-> data.len + bl, index_length |-> il,
                bloom_offset |-> IF filtered THEN data.len ELSE 0, bloom_length |-> bl]
  BY DEF footer, data
<1> HIDE DEF n, m, filtered
<1>10. /\ \A i \in 1 .. n : f3.extents[i] = data.extents[i]
       /\ filtered => f3.extents[n + 1] = f1.extents[n + 1]
       /\ f3.extents[m + 1] = f2.extents[m + 1]
  <2>1. n \in Nat
    BY <1>4
  <2>2. ASSUME NEW i \in 1 .. m PROVE f3.extents[i] = f1.extents[i]
    <3>1. i \in 1 .. m + 1
      BY <1>8
    <3> QED  BY <1>5, <1>7, <3>1
  <2>3. ASSUME NEW i \in 1 .. n PROVE f3.extents[i] = data.extents[i]
    <3>1. i \in 1 .. m
      BY <1>8, <2>1
    <3> QED  BY <1>4, <2>2, <3>1
  <2>4. ASSUME filtered PROVE f3.extents[n + 1] = f1.extents[n + 1]
    <3>1. n + 1 \in 1 .. m
      BY <1>8, <2>1, <2>4
    <3> QED  BY <2>2, <3>1
  <2>5. m + 1 \in 1 .. m + 1
    BY <1>8
  <2> QED  BY <1>7, <2>3, <2>4, <2>5
<1>11. f3.len = data.len + bl + il + FOOTER_LEN
  BY <1>4, <1>5, <1>7
<1>12. filtered => /\ f3.extents[n + 1].at = data.len /\ f3.extents[n + 1].length = bl
                   /\ f3.extents[n + 1].type = "bloom" /\ f3.extents[n + 1].content = w.bloom
  BY <1>4, <1>10
<1>13. /\ f3.extents[m + 1].at = data.len + bl /\ f3.extents[m + 1].length = il
       /\ f3.extents[m + 1].type = "index" /\ f3.extents[m + 1].content = w.index_entries
  BY <1>4, <1>5, <1>10
<1>14. Trailer(f3, data, filtered, w.bloom, w.index_entries)
  BY <1>7, <1>9, <1>10, <1>11, <1>12, <1>13 DEF Trailer, n, m, bl, il
<1> QED  BY <1>1, <1>14 DEF data, filtered

\* The reader finds filter and index of the file, and nothing else.
LEMMA TrailerRead ==
    ASSUME NEW w, w \in Writer, NEW file,
           Trailer(file, w.file, bloom_bits_per_key > 0, w.bloom, w.index_entries)
    PROVE  LET n == Len(w.file.extents)
           IN  /\ Opens(file)
               /\ open(file).file = file /\ open(file).index = w.index_entries
               /\ open(file).bloom \in Filter
               /\ bloom_bits_per_key > 0 => open(file).bloom = w.bloom
               /\ open(file) \in [file : {file}, index : {w.index_entries}, bloom : Filter]
               /\ {i \in DOMAIN file.extents : file.extents[i].type = "data"} = 1 .. n
<1> DEFINE filtered == bloom_bits_per_key > 0
           data == w.file
           n == Len(data.extents)
           m == n + (IF filtered THEN 1 ELSE 0)
           bl == IF filtered THEN bloom_encoded_len(w.bloom) ELSE 0
           il == IndexLength(w.index_entries)
           x == file.extents
           f == Footer(file)
<1>1. n \in Nat /\ w.bloom \in Filter /\ w.index_entries \in Seq(IndexEntry) /\ data.len \in Nat
      /\ \A i \in 1 .. n : data.extents[i].type = "data"
  <2>1. w.bloom \in Filter /\ w.index_entries \in Seq(IndexEntry) /\ data.len \in Nat
    BY DEF Writer, OpenFile
  <2>2. n \in Nat /\ \A i \in 1 .. n : data.extents[i] \in DataExtent
    BY BlkIs
  <2> QED  BY <2>1, <2>2 DEF DataExtent
<1>2. bl \in Nat /\ il \in Nat /\ (filtered => bl > 0) /\ (~filtered => bl = 0)
  BY <1>1, BloomLengthNat, IndexLengthNat
<1>3. m \in Nat /\ n <= m /\ (filtered => m = n + 1) /\ (~filtered => m = n)
  <2>1. CASE filtered
    <3>1. m = n + 1
      BY <2>1
    <3> HIDE DEF n, m
    <3> QED  BY <1>1, <2>1, <3>1
  <2>2. CASE ~filtered
    <3>1. m = n + 0
      BY <2>2
    <3> HIDE DEF n, m
    <3> QED  BY <1>1, <2>2, <3>1
  <2> QED  BY <2>1, <2>2
<1>4. /\ file.bad = {} /\ file.len = data.len + bl + il + FOOTER_LEN
      /\ Len(x) = m + 2 /\ DOMAIN x = 1 .. m + 2
      /\ \A i \in 1 .. n : x[i] = data.extents[i]
      /\ filtered => /\ x[n + 1].at = data.len /\ x[n + 1].length = bl
                     /\ x[n + 1].type = "bloom" /\ x[n + 1].content = w.bloom
      /\ x[m + 1].at = data.len + bl /\ x[m + 1].length = il
      /\ x[m + 1].type = "index" /\ x[m + 1].content = w.index_entries
      /\ x[m + 2].type = "footer"
      /\ x[m + 2].content = [index_offset |-> data.len + bl, index_length |-> il,
                             bloom_offset |-> IF filtered THEN data.len ELSE 0,
                             bloom_length |-> bl]
  BY DEF Trailer
<1>5. f.index_offset = data.len + bl /\ f.index_length = il /\ f.bloom_length = bl
      /\ (filtered => f.bloom_offset = data.len)
  BY <1>4 DEF Footer
<1> HIDE DEF n, m, bl, il, x, f, filtered, data
<1>6. ASSUME NEW i \in 1 .. m + 2
      PROVE  \/ i \in 1 .. n /\ x[i].type = "data"
             \/ filtered /\ i = n + 1 /\ i # m + 1 /\ x[i].type = "bloom"
             \/ i = m + 1 /\ ~(i \in 1 .. n) /\ x[i].type = "index"
             \/ i = m + 2 /\ ~(i \in 1 .. n) /\ x[i].type = "footer"
  <2>1. CASE i \in 1 .. n
    BY <1>1, <1>4, <2>1
  <2>2. CASE filtered /\ i = n + 1
    <3>1. i # m + 1
      BY <1>1, <1>3, <2>2
    <3> QED  BY <1>4, <2>2, <3>1
  <2>3. CASE i = m + 1
    <3>1. ~(i \in 1 .. n)
      BY <1>1, <1>3, <2>3
    <3> QED  BY <1>4, <2>3, <3>1
  <2>4. CASE i = m + 2
    <3>1. ~(i \in 1 .. n)
      BY <1>1, <1>3, <2>4
    <3> QED  BY <1>4, <2>4, <3>1
  <2>5. i \in 1 .. n \/ (filtered /\ i = n + 1) \/ i = m + 1 \/ i = m + 2
    <3>1. CASE filtered
      <4>1. m = n + 1
        BY <1>3, <3>1
      <4> QED  BY <1>1, <1>3, <3>1, <4>1
    <3>2. CASE ~filtered
      <4>1. m = n
        BY <1>3, <3>2
      <4> QED  BY <1>1, <1>3, <4>1
    <3> QED  BY <3>1, <3>2
  <2> QED  BY <2>1, <2>2, <2>3, <2>4, <2>5
<1>7. ReadAt(file, "index", f.index_offset, f.index_length) = {m + 1}
  <2>1. m + 1 \in ReadAt(file, "index", f.index_offset, f.index_length)
    <3>1. m + 1 \in DOMAIN x
      BY <1>3, <1>4
    <3> QED  BY <1>4, <1>5, <3>1 DEF ReadAt, x
  <2>2. ASSUME NEW i \in ReadAt(file, "index", f.index_offset, f.index_length)
        PROVE  i = m + 1
    <3>1. i \in 1 .. m + 2 /\ x[i].type = "index"
      BY <1>4 DEF ReadAt, x
    <3> QED  BY <1>6, <3>1
  <2> QED  BY <2>1, <2>2
<1>8. filtered => ReadAt(file, "bloom", f.bloom_offset, f.bloom_length) = {n + 1}
  <2> SUFFICES ASSUME filtered PROVE ReadAt(file, "bloom", f.bloom_offset, f.bloom_length) = {n + 1}
    OBVIOUS
  <2>1. n + 1 \in ReadAt(file, "bloom", f.bloom_offset, f.bloom_length)
    <3>1. n + 1 \in DOMAIN x
      BY <1>1, <1>3, <1>4
    <3> QED  BY <1>4, <1>5, <3>1 DEF ReadAt, x
  <2>2. ASSUME NEW i \in ReadAt(file, "bloom", f.bloom_offset, f.bloom_length)
        PROVE  i = n + 1
    <3>1. i \in 1 .. m + 2 /\ x[i].type = "bloom"
      BY <1>4 DEF ReadAt, x
    <3> QED  BY <1>6, <3>1
  <2> QED  BY <2>1, <2>2
<1>9. ContentAt(file, "index", f.index_offset, f.index_length) = w.index_entries
  <2>1. (CHOOSE i \in {m + 1} : TRUE) = m + 1
    OBVIOUS
  <2> QED  BY <1>4, <1>7, <2>1 DEF ContentAt, x
<1>10. filtered => ContentAt(file, "bloom", f.bloom_offset, f.bloom_length) = w.bloom
  <2>1. (CHOOSE i \in {n + 1} : TRUE) = n + 1
    OBVIOUS
  <2> QED  BY <1>4, <1>8, <2>1 DEF ContentAt, x
<1>11. Opens(file)
  <2>1. f.index_offset + f.index_length + FOOTER_LEN <= file.len
    BY <1>1, <1>2, <1>4, <1>5 DEF FOOTER_LEN
  <2>2. f.bloom_length > 0 =>
           /\ f.bloom_offset + f.bloom_length + f.index_length + FOOTER_LEN <= file.len
           /\ ReadAt(file, "bloom", f.bloom_offset, f.bloom_length) # {}
    <3> SUFFICES ASSUME f.bloom_length > 0
                 PROVE  /\ f.bloom_offset + f.bloom_length + f.index_length + FOOTER_LEN <= file.len
                        /\ ReadAt(file, "bloom", f.bloom_offset, f.bloom_length) # {}
      OBVIOUS
    <3>1. filtered
      BY <1>2, <1>5
    <3>2. f.bloom_offset + f.bloom_length + f.index_length + FOOTER_LEN <= file.len
      <4>1. f.bloom_offset = data.len /\ f.bloom_length = bl /\ f.index_length = il
            /\ file.len = data.len + bl + il + FOOTER_LEN
        BY <1>4, <1>5, <3>1
      <4> QED  BY <1>1, <1>2, <4>1 DEF FOOTER_LEN
    <3>3. ReadAt(file, "bloom", f.bloom_offset, f.bloom_length) # {}
      BY <1>8, <3>1
    <3> QED  BY <3>2, <3>3
  <2>3. ReadAt(file, "index", f.index_offset, f.index_length) # {}
    BY <1>7
  <2> QED  BY <2>1, <2>2, <2>3 DEF Opens, f
<1> DEFINE b == IF f.bloom_length = 0 THEN NewFilter(0)
                ELSE ContentAt(file, "bloom", f.bloom_offset, f.bloom_length)
<1>12. open(file) = [file |-> file, index |-> w.index_entries, bloom |-> b]
  BY <1>9 DEF open, f
<1>13. b \in Filter /\ (filtered => b = w.bloom)
  <2>1. CASE filtered
    <3>1. f.bloom_length # 0
      BY <1>2, <1>5, <2>1
    <3> QED  BY <1>1, <1>10, <2>1, <3>1
  <2>2. CASE ~filtered
    <3>1. f.bloom_length = 0
      BY <1>2, <1>5, <2>2
    <3> QED  BY <2>2, <3>1, FilterNew
  <2> QED  BY <2>1, <2>2
<1>14. {i \in DOMAIN x : x[i].type = "data"} = 1 .. n
  <2>1. \A i \in 1 .. n : i \in 1 .. m + 2
    BY <1>1, <1>3
  <2>2. \A i \in 1 .. n : x[i].type = "data"
    BY <1>1, <1>4
  <2>3. ASSUME NEW i \in 1 .. m + 2, x[i].type = "data" PROVE i \in 1 .. n
    BY <1>6, <2>3
  <2> QED  BY <1>4, <2>1, <2>2, <2>3
<1> HIDE DEF b
<1> QED  BY <1>11, <1>12, <1>13, <1>14 DEF filtered, n, x, data

\* finish and open: the reader opens what the writer finished, and the table
\* holds what was added.
LEMMA TableFinished ==
    ASSUME NEW w, WriterOK(w)
    PROVE  /\ Opens(finish(w)) /\ TableOK(open(finish(w))) /\ open(finish(w)).file.bad = {}
           /\ \A k, e : InTable(open(finish(w)), k, e) <=> Stored(w, k, e)
<1> DEFINE v == IF w.current_block # <<>> THEN flush_current_block(w) ELSE w
           n == Len(v.file.extents)
           file == finish(w)
           r == open(file)
<1>1. WriterOK(v) /\ v.current_block = <<>> /\ SameContents(w, v)
  <2>1. CASE w.current_block # <<>>
    BY <2>1, BlockFlushed
  <2>2. CASE w.current_block = <<>>
    BY <2>2 DEF SameContents
  <2> QED  BY <2>1, <2>2
<1>2. finish(w) = finish(v)
  <2> DEFINE V == v
  <2> HIDE DEF V
  <2>1. (IF V.current_block # <<>> THEN flush_current_block(V) ELSE V) = V
    BY <1>1 DEF V
  <2> QED  BY <2>1 DEF finish, V
<1> HIDE DEF v
<1>3. v \in Writer /\ Indexed(v) /\ Sorted(v) /\ Remembered(v)
  BY <1>1 DEF WriterOK
<1>4. Trailer(file, v.file, bloom_bits_per_key > 0, v.bloom, v.index_entries)
  BY <1>1, <1>2, <1>3, FileFinished DEF Indexed
<1> HIDE DEF file
<1>5. /\ Opens(file)
      /\ r.file = file /\ r.index = v.index_entries
      /\ r.bloom \in Filter
      /\ bloom_bits_per_key > 0 => r.bloom = v.bloom
      /\ r \in [file : {file}, index : {v.index_entries}, bloom : Filter]
      /\ {i \in DOMAIN file.extents : file.extents[i].type = "data"} = 1 .. n
  BY <1>3, <1>4, TrailerRead
<1>6. file \in TableFile /\ file.bad = {} /\ \A i \in 1 .. n : file.extents[i] = v.file.extents[i]
  BY <1>4 DEF Trailer
<1> HIDE DEF r
<1>7. r \in Reader /\ BlocksOf(r) = 1 .. n /\ n \in Nat
  <2>1. v.index_entries \in Seq(IndexEntry) /\ Len(v.index_entries) = n
    BY <1>3 DEF Writer, Indexed
  <2>2. n \in Nat
    BY <1>3, BlkIs
  <2> QED  BY <1>5, <1>6, <2>1, <2>2 DEF Reader, BlocksOf
<1> HIDE DEF n
<1>8. /\ n + 1 \in 1 .. n + 1 /\ Blk(v, n + 1) = <<>>
      /\ \A i \in 1 .. n : i \in 1 .. n + 1 /\ Blk(v, i) = TBlk(r, i) /\ r.file.extents[i] = v.file.extents[i]
  BY <1>1, <1>5, <1>6, <1>7 DEF Blk, TBlk, n
<1>9. \A i \in BlocksOf(r) : r.file.extents[i] \in DataExtent /\ Describes(r.file.extents[i], r.index[i])
  <2> SUFFICES ASSUME NEW i \in 1 .. n
               PROVE  v.file.extents[i] \in DataExtent /\ Describes(v.file.extents[i], v.index_entries[i])
    BY <1>5, <1>7, <1>8
  <2> QED  BY <1>3, BlkIs DEF Indexed, n
<1>10. \A i, j \in BlocksOf(r) : i < j => r.file.extents[i].at < r.file.extents[j].at
  <2>1. \A i, j \in 1 .. n : i < j => v.file.extents[i].at < v.file.extents[j].at
    BY <1>3 DEF Indexed, n
  <2> QED  BY <1>7, <1>8, <2>1
<1>11. \A i, j \in BlocksOf(r) : \A p \in DOMAIN TBlk(r, i), q \in DOMAIN TBlk(r, j) :
          Before(i, p, j, q) => TBlk(r, i)[p].key < TBlk(r, j)[q].key
  <2>1. \A i, j \in 1 .. n + 1 : \A p \in DOMAIN Blk(v, i), q \in DOMAIN Blk(v, j) :
            Before(i, p, j, q) => Blk(v, i)[p].key < Blk(v, j)[q].key
    BY <1>3 DEF Sorted, n
  <2> QED  BY <1>7, <1>8, <2>1
<1>12. bloom_bits_per_key > 0 => \A i \in BlocksOf(r) : \A p \in DOMAIN TBlk(r, i) :
          bloom_contains(r.bloom, TBlk(r, i)[p].key)
  <2>1. bloom_bits_per_key > 0 => \A i \in 1 .. n + 1 : \A p \in DOMAIN Blk(v, i) :
            bloom_contains(v.bloom, Blk(v, i)[p].key)
    BY <1>3 DEF Remembered, n
  <2> QED  BY <1>5, <1>7, <1>8, <2>1
<1>13. TableOK(r)
  BY <1>5, <1>7, <1>9, <1>10, <1>11, <1>12 DEF TableOK
<1>14. ASSUME NEW k, NEW e PROVE InTable(r, k, e) <=> Stored(w, k, e)
  <2>1. ~InBlock(<<>>, k, e)
    BY DEF InBlock
  <2>2. Stored(v, k, e) <=> \E i \in 1 .. n + 1 : InBlock(Blk(v, i), k, e)
    BY DEF Stored, n
  <2>3. ASSUME NEW i \in 1 .. n + 1, InBlock(Blk(v, i), k, e) PROVE InTable(r, k, e)
    <3>1. i # n + 1
      BY <1>8, <2>1, <2>3
    <3>2. i \in 1 .. n
      BY <1>7, <3>1
    <3> QED  BY <1>7, <1>8, <2>3, <3>2 DEF InTable
  <2>4. ASSUME NEW i \in 1 .. n, InBlock(TBlk(r, i), k, e) PROVE Stored(v, k, e)
    BY <1>8, <2>2, <2>4
  <2>5. InTable(r, k, e) <=> Stored(v, k, e)
    BY <1>7, <2>2, <2>3, <2>4 DEF InTable
  <2> QED  BY <1>1, <2>5 DEF SameContents
<1> QED  BY <1>5, <1>6, <1>13, <1>14 DEF file, r

-----------------------------------------------------------------------------
(* Reading a table                                                         *)

LEMMA TableParts ==
    ASSUME NEW r, TableOK(r)
    PROVE  /\ Len(r.index) \in Nat /\ r.file.bad \in SUBSET Nat
           /\ r.file.extents \in Seq(Extent) /\ r.index \in Seq(IndexEntry)
           /\ BlocksOf(r) = 1 .. Len(r.index) /\ DOMAIN r.index = BlocksOf(r)
           /\ \A i \in BlocksOf(r) :
                 /\ i \in DOMAIN r.file.extents /\ i \in Nat /\ r.index[i] \in IndexEntry
                 /\ r.file.extents[i].type = "data" /\ r.file.extents[i].at \in Nat
                 /\ TBlk(r, i) \in Seq(Item) /\ Len(TBlk(r, i)) \in Nat /\ Len(TBlk(r, i)) > 0
                 /\ DOMAIN TBlk(r, i) = 1 .. Len(TBlk(r, i))
                 /\ \A p \in DOMAIN TBlk(r, i) :
                       /\ TBlk(r, i)[p] \in Item /\ TBlk(r, i)[p].key \in Keys
                       /\ TBlk(r, i)[p].key \in Nat /\ TBlk(r, i)[p].key > 0
                       /\ TBlk(r, i)[p].entry \in Entries
<1>1. r \in Reader /\ r.file \in TableFile /\ r.index \in Seq(IndexEntry)
  BY DEF TableOK, Reader
<1>2. r.file.bad \in SUBSET Nat /\ r.file.extents \in Seq(Extent)
  BY <1>1 DEF TableFile
<1>3. Len(r.index) \in Nat /\ DOMAIN r.index = 1 .. Len(r.index)
      /\ \A i \in 1 .. Len(r.index) : r.index[i] \in IndexEntry
  BY <1>1, LenProperties, ElementOfSeq
<1>4. ASSUME NEW i \in BlocksOf(r)
      PROVE  /\ i \in DOMAIN r.file.extents
             /\ r.file.extents[i].type = "data" /\ r.file.extents[i].at \in Nat
             /\ TBlk(r, i) \in Seq(Item) /\ TBlk(r, i) # <<>>
  <2>1. r.file.extents[i] \in DataExtent /\ r.file.extents[i].content # <<>>
    BY DEF TableOK, Describes
  <2>2. i \in DOMAIN r.file.extents
    BY DEF TableOK
  <2> QED  BY <2>1, <2>2 DEF DataExtent, TBlk
<1>5. ASSUME NEW i \in BlocksOf(r)
      PROVE  /\ Len(TBlk(r, i)) \in Nat /\ Len(TBlk(r, i)) > 0
             /\ DOMAIN TBlk(r, i) = 1 .. Len(TBlk(r, i))
             /\ \A p \in DOMAIN TBlk(r, i) :
                   /\ TBlk(r, i)[p] \in Item /\ TBlk(r, i)[p].key \in Keys
                   /\ TBlk(r, i)[p].key \in Nat /\ TBlk(r, i)[p].key > 0
                   /\ TBlk(r, i)[p].entry \in Entries
  <2> DEFINE b == TBlk(r, i)
  <2>1. b \in Seq(Item) /\ b # <<>>
    BY <1>4
  <2> HIDE DEF b
  <2>2. Len(b) \in Nat /\ Len(b) # 0 /\ DOMAIN b = 1 .. Len(b)
    BY <2>1, LenProperties, EmptySeq
  <2>3. ASSUME NEW p \in 1 .. Len(b)
        PROVE  b[p] \in Item /\ b[p].key \in Keys /\ b[p].key \in Nat /\ b[p].key > 0 /\ b[p].entry \in Entries
    <3>1. b[p] \in Item
      BY <2>1, ElementOfSeq
    <3>2. b[p].key \in Keys /\ b[p].entry \in Entries
      BY <3>1 DEF Item
    <3> QED  BY <3>1, <3>2, MemtableAssumption
  <2> QED  BY <2>2, <2>3 DEF b
<1> QED  BY <1>1, <1>2, <1>3, <1>4, <1>5 DEF BlocksOf

\* A block is found under its index entry unless it is damaged.
LEMMA BlockRead ==
    ASSUME NEW r, TableOK(r), NEW i \in BlocksOf(r)
    PROVE  /\ BlockGood(r, i) <=> i \notin r.file.bad
           /\ BlockGood(r, i) => Block(r, i) = TBlk(r, i)
<1> DEFINE found == ReadAt(r.file, "data", r.index[i].offset, r.index[i].length)
<1>1. r.index[i].offset = r.file.extents[i].at /\ r.index[i].length = r.file.extents[i].length
  BY DEF TableOK, Describes
<1>2. i \in DOMAIN r.file.extents /\ r.file.extents[i].type = "data"
  BY TableParts
<1>3. ASSUME NEW j \in found PROVE j = i /\ i \notin r.file.bad
  <2>1. j \in DOMAIN r.file.extents /\ r.file.extents[j].type = "data" /\ j \notin r.file.bad
        /\ r.file.extents[j].at = r.file.extents[i].at
    BY <1>1, <1>3 DEF ReadAt
  <2>2. j \in BlocksOf(r)
    BY <2>1 DEF TableOK
  <2>3. ~(i < j) /\ ~(j < i)
    <3>1. r.file.extents[i].at \in Nat
      BY TableParts
    <3>2. (i < j => r.file.extents[i].at < r.file.extents[j].at)
          /\ (j < i => r.file.extents[j].at < r.file.extents[i].at)
      BY <2>2 DEF TableOK
    <3> QED  BY <2>1, <3>1, <3>2
  <2>4. i \in Nat /\ j \in Nat
    BY <2>2, TableParts
  <2> QED  BY <2>1, <2>3, <2>4
<1>4. i \notin r.file.bad => i \in found
  BY <1>1, <1>2 DEF ReadAt
<1>5. BlockGood(r, i) <=> found # {}
  BY DEF BlockGood
<1>6. Block(r, i) = r.file.extents[CHOOSE j \in found : TRUE].content
  BY DEF Block, ContentAt
<1> HIDE DEF found
<1>7. found # {} => (CHOOSE j \in found : TRUE) = i
  BY <1>3
<1> QED  BY <1>3, <1>4, <1>5, <1>6, <1>7 DEF TBlk

\* What the writer promises of its tables.
LEMMA TableWellFormed ==
    ASSUME NEW r, TableOK(r)
    PROVE  WellFormed(r)
<1> DEFINE n == Len(r.index)
           block(i) == r.file.extents[i].content
<1>1. {i \in DOMAIN r.file.extents : r.file.extents[i].type = "data"} = 1 .. n
  BY DEF TableOK, BlocksOf
<1>2. n \in Nat /\ BlocksOf(r) = 1 .. n
  BY TableParts
<1>3. ASSUME NEW i \in 1 .. n
      PROVE  /\ block(i) # <<>>
             /\ r.index[i].first_key = block(i)[1].key
             /\ r.index[i].offset = r.file.extents[i].at
             /\ r.index[i].length = r.file.extents[i].length
             /\ Len(block(i)) > 1 => r.index[i].length <= DATA_BLOCK_TARGET_SIZE + CRC_LEN
             /\ \A p, q \in DOMAIN block(i) : p < q => block(i)[p].key < block(i)[q].key
  <2>1. Describes(r.file.extents[i], r.index[i])
    BY <1>2 DEF TableOK
  <2>2. \A p, q \in DOMAIN block(i) : p < q => block(i)[p].key < block(i)[q].key
    BY <1>2 DEF TableOK, TBlk, Before
  <2> QED  BY <2>1, <2>2 DEF Describes
<1>4. ASSUME NEW i \in 1 .. n - 1
      PROVE  block(i)[Len(block(i))].key < r.index[i + 1].first_key
  <2>1. i \in 1 .. n /\ i + 1 \in 1 .. n /\ i < i + 1
    BY <1>2
  <2>2. r.index[i + 1].first_key = block(i + 1)[1].key
    BY <1>3, <2>1
  <2>3. Len(block(i)) \in DOMAIN block(i) /\ 1 \in DOMAIN block(i + 1)
    <3>1. \A j \in 1 .. n : Len(block(j)) \in Nat /\ Len(block(j)) > 0 /\ DOMAIN block(j) = 1 .. Len(block(j))
      BY <1>2, TableParts DEF TBlk
    <3> HIDE DEF block, n
    <3> QED  BY <2>1, <3>1
  <2>4. block(i)[Len(block(i))].key < block(i + 1)[1].key
    BY <1>2, <2>1, <2>3 DEF TableOK, TBlk, Before
  <2> QED  BY <2>2, <2>4
<1> HIDE DEF block, n
<1> QED  BY <1>1, <1>3, <1>4 DEF WellFormed, block, n

TableHolds(r, h) ==
    h \in Maps /\ \A k \in Keys : \A e : InTable(r, k, e) <=> (h[k] = e /\ e # NoEntry)

\* An initial part of an interval has as many elements as its last one says.
LEMMA InitialPart ==
    ASSUME NEW n \in Nat, NEW S \in SUBSET (1 .. n), \A i \in S : \A j \in 1 .. i : j \in S
    PROVE  Cardinality(S) \in 0 .. n /\ S = 1 .. Cardinality(S)
<1>1. CASE S = {}
  <2>1. Cardinality(S) = 0
    BY <1>1, FS_EmptySet
  <2> QED  BY <1>1, <2>1
<1>2. CASE S # {}
  <2>1. S \in SUBSET (0 .. n)
    OBVIOUS
  <2>2. Max(S) \in S /\ \A y \in S : y <= Max(S)
    BY <1>2, <2>1, MaxOfNats
  <2> DEFINE m == Max(S)
  <2> HIDE DEF m
  <2>3. m \in 1 .. n /\ S = 1 .. m
    <3>1. m \in S /\ m \in 1 .. n /\ \A y \in S : y <= m
      BY <2>2 DEF m
    <3>2. \A y \in S : y \in 1 .. m
      BY <3>1
    <3>3. \A y \in 1 .. m : y \in S
      BY <3>1
    <3> QED  BY <3>1, <3>2, <3>3
  <2>4. Cardinality(1 .. m) = m
    BY <2>3, FS_Interval
  <2> QED  BY <2>3, <2>4
<1> QED  BY <1>1, <1>2

\* candidate_block: a key of the table is in the block it gives.
LEMMA CandidateBlock ==
    ASSUME NEW r, TableOK(r), NEW k \in Keys
    PROVE  LET c == candidate_block(r, k)
           IN  /\ c \in Nat /\ (c = 0 \/ c \in BlocksOf(r))
               /\ \A i \in BlocksOf(r) : \A p \in DOMAIN TBlk(r, i) :
                     TBlk(r, i)[p].key = k => i = c
<1> DEFINE S == NotAbove(r, k)
           n == Len(r.index)
           c == Cardinality(S)
<1>1. n \in Nat /\ BlocksOf(r) = 1 .. n /\ DOMAIN r.index = 1 .. n /\ k \in Nat
  BY TableParts, MemtableAssumption
<1>2. \A i \in 1 .. n : 1 \in DOMAIN TBlk(r, i) /\ r.index[i].first_key = TBlk(r, i)[1].key
                        /\ TBlk(r, i)[1].key \in Nat
  <2> SUFFICES ASSUME NEW i \in 1 .. n
               PROVE  1 \in DOMAIN TBlk(r, i) /\ r.index[i].first_key = TBlk(r, i)[1].key
                      /\ TBlk(r, i)[1].key \in Nat
    OBVIOUS
  <2>1. Len(TBlk(r, i)) \in Nat /\ Len(TBlk(r, i)) > 0 /\ DOMAIN TBlk(r, i) = 1 .. Len(TBlk(r, i))
    BY <1>1, TableParts
  <2>2. 1 \in DOMAIN TBlk(r, i)
    BY <2>1
  <2>3. TBlk(r, i)[1].key \in Nat
    BY <1>1, <2>2, TableParts
  <2>4. r.index[i].first_key = TBlk(r, i)[1].key
    BY <1>1 DEF TableOK, Describes, TBlk
  <2> QED  BY <2>2, <2>3, <2>4
<1>3. ASSUME NEW i \in 1 .. n, NEW j \in 1 .. n, i < j, NEW p \in DOMAIN TBlk(r, i)
      PROVE  TBlk(r, i)[p].key < r.index[j].first_key
  BY <1>1, <1>2, <1>3 DEF TableOK, Before
<1>4. S \in SUBSET (1 .. n) /\ \A i \in 1 .. n : i \in S <=> r.index[i].first_key <= k
  BY <1>1 DEF NotAbove
<1> HIDE DEF S, n
<1>5. ASSUME NEW i \in S, NEW j \in 1 .. i PROVE j \in S
  <2>1. i \in 1 .. n /\ j \in 1 .. n
    BY <1>1, <1>4
  <2>2. CASE j = i
    BY <2>2
  <2>3. CASE j # i
    <3>1. j < i
      BY <2>1, <2>3
    <3>2. TBlk(r, j)[1].key < r.index[i].first_key
      BY <1>2, <1>3, <2>1, <3>1
    <3> QED  BY <1>1, <1>2, <1>4, <2>1, <3>2
  <2> QED  BY <2>2, <2>3
<1>6. c \in 0 .. n /\ S = 1 .. c
  BY <1>1, <1>4, <1>5, InitialPart
<1> HIDE DEF c
<1>7. ASSUME NEW i \in 1 .. n, NEW p \in DOMAIN TBlk(r, i), TBlk(r, i)[p].key = k PROVE i = c
  <2>1. r.index[i].first_key <= k
    <3>1. p \in Nat /\ p >= 1
      BY <1>1, TableParts
    <3>2. CASE p = 1
      BY <1>1, <1>2, <1>7, <3>2
    <3>3. CASE p # 1
      <4>1. TBlk(r, i)[1].key < TBlk(r, i)[p].key
        BY <1>1, <1>2, <3>1, <3>3 DEF TableOK, Before
      <4> QED  BY <1>1, <1>2, <1>7, <4>1
    <3> QED  BY <3>2, <3>3
  <2>2. i \in 1 .. c
    BY <1>4, <1>6, <2>1
  <2>3. CASE i = c
    BY <2>3
  <2>4. CASE i # c
    <3>1. c \in 1 .. n /\ i < c
      BY <1>1, <1>6, <2>2, <2>4
    <3>2. k < r.index[c].first_key
      BY <1>3, <1>7, <3>1
    <3>3. r.index[c].first_key <= k /\ r.index[c].first_key \in Nat
      BY <1>1, <1>2, <1>4, <1>6, <3>1
    <3> QED  BY <1>1, <3>2, <3>3
  <2> QED  BY <2>3, <2>4
<1>8. candidate_block(r, k) = c
  BY DEF candidate_block, c, S
<1>9. c \in Nat /\ (c = 0 \/ c \in 1 .. n)
  BY <1>1, <1>6
<1> QED  BY <1>1, <1>7, <1>8, <1>9

\* get: the entry the table holds for the key, or Corruption when a block is
\* damaged.
LEMMA GetIs ==
    ASSUME NEW r, TableOK(r), NEW h, TableHolds(r, h), NEW k \in Keys
    PROVE  get(r, k) = h[k] \/ (get(r, k) = Corruption /\ r.file.bad # {})
<1> DEFINE i == candidate_block(r, k)
           absent == bloom_bits_per_key > 0 /\ ~bloom_contains(r.bloom, k)
           b == TBlk(r, i)
<1>0. k \in Nat /\ h[k] \in Entries \cup {NoEntry}
  BY MemtableAssumption DEF TableHolds, Maps
<1>1. i \in Nat /\ (i = 0 \/ i \in BlocksOf(r))
      /\ \A j \in BlocksOf(r) : \A p \in DOMAIN TBlk(r, j) : TBlk(r, j)[p].key = k => j = i
  BY CandidateBlock
<1>2. h[k] # NoEntry =>
         \E j \in BlocksOf(r) : \E p \in DOMAIN TBlk(r, j) :
            TBlk(r, j)[p].key = k /\ TBlk(r, j)[p].entry = h[k]
  <2>1. h[k] # NoEntry => InTable(r, k, h[k])
    BY DEF TableHolds
  <2> QED  BY <2>1 DEF InTable, InBlock
<1> HIDE DEF i, absent
<1>3. CASE absent
  <2>1. h[k] = NoEntry
    BY <1>2, <1>3 DEF absent, TableOK
  <2>2. get(r, k) = NoEntry
    BY <1>3, Zenon DEF get, absent
  <2> QED  BY <2>1, <2>2
<1>4. CASE ~absent /\ i = 0
  <2>1. h[k] = NoEntry
    <3>1. 0 \notin BlocksOf(r)
      BY DEF BlocksOf
    <3> QED  BY <1>1, <1>2, <1>4, <3>1
  <2>2. ~(i > 0)
    BY <1>4
  <2>3. get(r, k) = NoEntry
    BY <1>4, <2>2, Zenon DEF get, absent, i
  <2> QED  BY <2>1, <2>3
<1>5. CASE ~absent /\ i # 0 /\ ~BlockGood(r, i)
  <2>1. i > 0 /\ i \in BlocksOf(r)
    BY <1>1, <1>5
  <2>2. get(r, k) = Corruption
    BY <1>5, <2>1, Zenon DEF get, absent, i
  <2>3. i \in r.file.bad
    BY <1>5, <2>1, BlockRead
  <2> QED  BY <2>2, <2>3
<1>6. CASE ~absent /\ i # 0 /\ BlockGood(r, i)
  <2>1. i > 0 /\ i \in BlocksOf(r)
    BY <1>1, <1>6
  <2>2. get(r, k) = scan_block_for_key(Block(r, i), k)
    BY <1>6, <2>1, Zenon DEF get, absent, i
  <2>3. Block(r, i) = b
    BY <1>6, <2>1, BlockRead
  <2>4. DOMAIN b \in SUBSET Nat /\ \A p \in DOMAIN b : b[p].key \in Nat /\ b[p].entry \in Entries
    <3>1. Len(b) \in Nat /\ DOMAIN b = 1 .. Len(b)
      BY <2>1, TableParts
    <3>2. DOMAIN b \in SUBSET Nat
      BY <3>1
    <3> QED  BY <2>1, <3>2, TableParts
  <2>5. \A p, q \in DOMAIN b : p < q => b[p].key < b[q].key
    BY <2>1 DEF TableOK, Before
  <2>6. \A p \in DOMAIN b : b[p].key = k => b[p].entry = h[k]
    <3> SUFFICES ASSUME NEW p \in DOMAIN b, b[p].key = k PROVE b[p].entry = h[k]
      OBVIOUS
    <3>1. InTable(r, k, b[p].entry)
      BY <2>1 DEF InTable, InBlock
    <3> QED  BY <3>1 DEF TableHolds
  <2>7. h[k] # NoEntry => \E p \in DOMAIN b : b[p].key = k
    BY <1>1, <1>2
  <2> HIDE DEF b
  <2> DEFINE ahead == NotBelow(b, k)
             m == Min(ahead)
  <2>8. ahead = {p \in DOMAIN b : b[p].key >= k}
    BY DEF NotBelow
  <2> HIDE DEF ahead
  <2>9. ahead # {} => m \in ahead /\ \A y \in ahead : m <= y
    <3>1. ahead \in SUBSET Nat
      BY <2>4, <2>8
    <3> QED  BY <3>1, MinOfNats
  <2> HIDE DEF m
  <2>10. scan_block_for_key(b, k) = IF ahead # {} /\ b[m].key = k THEN b[m].entry ELSE NoEntry
    BY DEF scan_block_for_key, ahead, m
  <2>11. CASE ahead # {} /\ b[m].key = k
    <3>1. m \in DOMAIN b
      BY <2>8, <2>9, <2>11
    <3> QED  BY <2>2, <2>3, <2>6, <2>10, <2>11, <3>1 DEF b
  <2>12. CASE ~(ahead # {} /\ b[m].key = k)
    <3>1. h[k] = NoEntry
      <4> SUFFICES ASSUME NEW p \in DOMAIN b, b[p].key = k PROVE FALSE
        BY <2>7
      <4>1. p \in ahead /\ b[m].key # k
        BY <1>0, <2>8, <2>12
      <4>2. m \in DOMAIN b /\ m <= p /\ b[m].key >= k /\ m \in Nat /\ p \in Nat
        BY <2>4, <2>8, <2>9, <4>1
      <4>3. m < p
        BY <4>1, <4>2
      <4>4. b[m].key < k
        BY <2>5, <4>2, <4>3
      <4> QED  BY <1>0, <2>4, <4>2, <4>4
    <3> QED  BY <2>2, <2>3, <2>10, <2>12, <3>1 DEF b
  <2> QED  BY <2>11, <2>12
<1> QED  BY <1>3, <1>4, <1>5, <1>6

-----------------------------------------------------------------------------
(* Iterating over a table                                                  *)

\* The iterator stands on an item it has yielded; it has come to its end.
IterIn(r, it) ==
    /\ it \in [block_idx : BlocksOf(r), loaded : {TRUE}, pos : Nat]
    /\ it.pos \in DOMAIN TBlk(r, it.block_idx) /\ BlockGood(r, it.block_idx)
IterEnd(r, it) == it = [block_idx |-> Len(r.index) + 1, loaded |-> FALSE, pos |-> 0]
Front(r, it) == TBlk(r, it.block_idx)[it.pos]

\* The key the iterator stands on, 0 before it has yielded any.
KeyAt(r, it) == IF it = iter THEN 0 ELSE Front(r, it).key

\* Between the key the iterator stands on and key there is none in the table.
NothingUpTo(r, low, key) == \A k, e : InTable(r, k, e) => k <= low \/ k >= key
NothingBehind(r, low) == \A k, e : InTable(r, k, e) => k <= low

\* What iter_next may do.
Advanced(r, it, res) ==
    \/ /\ res.item = EndItem /\ IterEnd(r, res.it)
       /\ NothingBehind(r, KeyAt(r, it))
    \/ res.item = ErrItem /\ IterEnd(r, res.it)
    \/ /\ IterIn(r, res.it) /\ res.item = Front(r, res.it)
       /\ KeyAt(r, it) < res.item.key
       /\ NothingUpTo(r, KeyAt(r, it), res.item.key)

\* The item at a place behind another one, with none between.
LEMMA Successor ==
    ASSUME NEW r, TableOK(r), NEW i \in BlocksOf(r), NEW p \in DOMAIN TBlk(r, i),
           NEW low \in Nat,
           \A j \in BlocksOf(r) : \A q \in DOMAIN TBlk(r, j) :
               Before(j, q, i, p) => TBlk(r, j)[q].key <= low
    PROVE  NothingUpTo(r, low, TBlk(r, i)[p].key)
<1> SUFFICES ASSUME NEW k, NEW e, InTable(r, k, e)
             PROVE  k <= low \/ k >= TBlk(r, i)[p].key
  BY DEF NothingUpTo
<1>0. PICK j \in BlocksOf(r) : InBlock(TBlk(r, j), k, e)
  BY DEF InTable
<1>1. PICK q \in DOMAIN TBlk(r, j) : TBlk(r, j)[q].key = k
  BY <1>0 DEF InBlock
<1>2. i \in Nat /\ j \in Nat /\ p \in Nat /\ q \in Nat /\ k \in Nat /\ TBlk(r, i)[p].key \in Nat
  BY <1>1, TableParts
<1>3. CASE Before(j, q, i, p)
  BY <1>1, <1>3
<1>4. CASE Before(i, p, j, q)
  <2>1. TBlk(r, i)[p].key < k
    BY <1>1, <1>4 DEF TableOK
  <2> QED  BY <1>2, <2>1
<1>5. CASE i = j /\ p = q
  BY <1>1, <1>2, <1>5
<1> QED  BY <1>2, <1>3, <1>4, <1>5 DEF Before

\* Where iter_next looks next.
NextPlace(r, it, i, p) ==
    /\ i \in Nat /\ i >= 1 /\ i <= Len(r.index) + 1 /\ p \in Nat /\ p >= 1
    /\ i \in BlocksOf(r) => p \in DOMAIN TBlk(r, i)
    /\ KeyAt(r, it) \in Nat
    /\ \A j \in BlocksOf(r) : \A q \in DOMAIN TBlk(r, j) :
          Before(j, q, i, p) => TBlk(r, j)[q].key <= KeyAt(r, it)
    /\ i \in BlocksOf(r) => KeyAt(r, it) < TBlk(r, i)[p].key

LEMMA NextPlaceIs ==
    ASSUME NEW r, TableOK(r), NEW it, it = iter \/ IterIn(r, it)
    PROVE  LET atEnd == it.loaded /\ it.pos >= Len(Block(r, it.block_idx))
               i == IF atEnd THEN it.block_idx + 1 ELSE it.block_idx
               p == IF atEnd THEN 1 ELSE it.pos + 1
           IN  NextPlace(r, it, i, p) /\ (atEnd \/ ~it.loaded \/ BlockGood(r, i))
<1> DEFINE n == Len(r.index)
           atEnd == it.loaded /\ it.pos >= Len(Block(r, it.block_idx))
           i == IF atEnd THEN it.block_idx + 1 ELSE it.block_idx
           p == IF atEnd THEN 1 ELSE it.pos + 1
<1>0. n \in Nat /\ BlocksOf(r) = 1 .. n
  BY TableParts
<1>1. ASSUME NEW j \in BlocksOf(r)
      PROVE  Len(TBlk(r, j)) \in Nat /\ Len(TBlk(r, j)) > 0 /\ DOMAIN TBlk(r, j) = 1 .. Len(TBlk(r, j))
             /\ \A q \in DOMAIN TBlk(r, j) : q \in Nat /\ q >= 1 /\ TBlk(r, j)[q].key \in Nat /\ TBlk(r, j)[q].key > 0
  <2>1. Len(TBlk(r, j)) \in Nat /\ Len(TBlk(r, j)) > 0 /\ DOMAIN TBlk(r, j) = 1 .. Len(TBlk(r, j))
        /\ \A q \in DOMAIN TBlk(r, j) : TBlk(r, j)[q].key \in Nat /\ TBlk(r, j)[q].key > 0
    BY TableParts
  <2> QED  BY <2>1
<1>2. CASE it = iter
  <2>1. it.block_idx = 1 /\ it.pos = 0 /\ ~it.loaded
    BY <1>2 DEF iter
  <2>2. ~atEnd
    BY <2>1
  <2>3. i = 1 /\ p = 1
    BY <2>1, <2>2
  <2> HIDE DEF i, p, atEnd
  <2>4. KeyAt(r, it) = 0
    BY <1>2 DEF KeyAt
  <2>5. \A j \in BlocksOf(r) : \A q \in DOMAIN TBlk(r, j) : ~Before(j, q, i, p)
    <3> SUFFICES ASSUME NEW j \in BlocksOf(r), NEW q \in DOMAIN TBlk(r, j), Before(j, q, i, p) PROVE FALSE
      OBVIOUS
    <3>1. j \in Nat /\ j >= 1 /\ q \in Nat /\ q >= 1
      BY <1>0, <1>1
    <3> QED  BY <2>3, <3>1 DEF Before
  <2>6. i \in BlocksOf(r) => p \in DOMAIN TBlk(r, i)
    BY <1>1, <2>3
  <2>7. i \in BlocksOf(r) => KeyAt(r, it) < TBlk(r, i)[p].key
    BY <1>1, <2>4, <2>6
  <2>8. i <= n + 1
    BY <1>0, <2>3
  <2>9. NextPlace(r, it, i, p)
    BY <2>3, <2>4, <2>5, <2>6, <2>7, <2>8 DEF NextPlace, n
  <2> QED  BY <2>1, <2>9 DEF i, p, atEnd
<1>3. CASE IterIn(r, it)
  <2> DEFINE b == it.block_idx
             low == Front(r, it).key
  <2>1. b \in BlocksOf(r) /\ it.loaded /\ it.pos \in Nat /\ it.pos \in DOMAIN TBlk(r, b) /\ BlockGood(r, b)
    BY <1>3 DEF IterIn
  <2>2. KeyAt(r, it) = low
    <3>1. it # iter
      <4>1. ~iter.loaded
        BY DEF iter
      <4> QED  BY <2>1, <4>1
    <3> QED  BY <3>1 DEF KeyAt
  <2>3. Block(r, b) = TBlk(r, b)
    BY <2>1, BlockRead
  <2>4. low = TBlk(r, b)[it.pos].key /\ low \in Nat
    BY <1>1, <2>1 DEF Front
  <2>5. b \in Nat /\ b <= n /\ b >= 1
    BY <1>0, <2>1
  <2> HIDE DEF low
  <2>6. CASE it.pos >= Len(TBlk(r, b))
    <3>1. atEnd
      BY <2>1, <2>3, <2>6
    <3>2. i = b + 1 /\ p = 1
      BY <3>1
    <3>3. it.pos = Len(TBlk(r, b))
      BY <1>1, <2>1, <2>6
    <3> HIDE DEF i, p, atEnd, b
    <3>4. i \in Nat /\ i >= 1 /\ i <= n + 1
      BY <1>0, <2>5, <3>2
    <3>5. i \in BlocksOf(r) => p \in DOMAIN TBlk(r, i)
      <4> SUFFICES ASSUME i \in BlocksOf(r) PROVE p \in DOMAIN TBlk(r, i)
        OBVIOUS
      <4>1. Len(TBlk(r, i)) \in Nat /\ Len(TBlk(r, i)) > 0 /\ DOMAIN TBlk(r, i) = 1 .. Len(TBlk(r, i))
        BY <1>1
      <4> QED  BY <3>2, <4>1
    <3>6. ASSUME NEW j \in BlocksOf(r), NEW q \in DOMAIN TBlk(r, j), Before(j, q, i, p)
          PROVE  TBlk(r, j)[q].key <= low
      <4>1. j \in Nat /\ q \in Nat /\ q >= 1 /\ TBlk(r, j)[q].key \in Nat
        BY <1>0, <1>1
      <4>2. j < b + 1
        BY <2>5, <3>2, <3>6, <4>1 DEF Before
      <4>3. CASE Before(j, q, b, it.pos)
        <5>1. TBlk(r, j)[q].key < low
          BY <2>1, <2>4, <4>3 DEF TableOK, b
        <5> QED  BY <2>4, <4>1, <5>1
      <4>4. CASE ~Before(j, q, b, it.pos)
        <5>1. j = b /\ ~(q < it.pos)
          BY <2>5, <4>1, <4>2, <4>4 DEF Before
        <5>2. q <= Len(TBlk(r, b))
          BY <1>1, <5>1
        <5>3. q = it.pos
          BY <1>1, <2>1, <3>3, <4>1, <5>1, <5>2
        <5> QED  BY <2>4, <5>1, <5>3
      <4> QED  BY <4>3, <4>4
    <3>7. ASSUME i \in BlocksOf(r) PROVE low < TBlk(r, i)[p].key
      <4>1. Before(b, it.pos, i, p)
        BY <2>5, <3>2 DEF Before
      <4> QED  BY <2>1, <2>4, <3>5, <3>7, <4>1 DEF TableOK, b
    <3>8. NextPlace(r, it, i, p)
      BY <2>2, <2>4, <3>2, <3>4, <3>5, <3>6, <3>7 DEF NextPlace, n
    <3> QED  BY <3>1, <3>8 DEF i, p, atEnd
  <2>7. CASE ~(it.pos >= Len(TBlk(r, b)))
    <3>1. ~atEnd
      BY <2>1, <2>3, <2>7
    <3>2. i = b /\ p = it.pos + 1
      BY <3>1
    <3> HIDE DEF i, p, atEnd, b
    <3>3. p \in Nat /\ p >= 1 /\ p \in DOMAIN TBlk(r, b) /\ it.pos < p
      BY <1>1, <2>1, <2>7, <3>2
    <3>4. i \in Nat /\ i >= 1 /\ i <= n + 1 /\ i \in BlocksOf(r)
      BY <1>0, <2>1, <2>5, <3>2
    <3>6. ASSUME NEW j \in BlocksOf(r), NEW q \in DOMAIN TBlk(r, j), Before(j, q, i, p)
          PROVE  TBlk(r, j)[q].key <= low
      <4>1. j \in Nat /\ q \in Nat /\ q >= 1 /\ TBlk(r, j)[q].key \in Nat
        BY <1>0, <1>1
      <4>3. CASE Before(j, q, b, it.pos)
        <5>1. TBlk(r, j)[q].key < low
          BY <2>1, <2>4, <4>3 DEF TableOK, b
        <5> QED  BY <2>4, <4>1, <5>1
      <4>4. CASE ~Before(j, q, b, it.pos)
        <5>1. j = b /\ ~(q < it.pos) /\ q < p
          BY <3>2, <3>6, <4>4 DEF Before
        <5>3. q = it.pos
          BY <2>1, <3>2, <4>1, <5>1
        <5> QED  BY <2>4, <5>1, <5>3
      <4> QED  BY <4>3, <4>4
    <3>7. low < TBlk(r, i)[p].key
      <4>1. Before(b, it.pos, i, p)
        BY <3>2, <3>3 DEF Before
      <4> QED  BY <2>1, <2>4, <3>2, <3>3, <3>4, <4>1 DEF TableOK, b
    <3>8. NextPlace(r, it, i, p)
      BY <2>2, <2>4, <3>2, <3>3, <3>4, <3>6, <3>7 DEF NextPlace, n
    <3>9. BlockGood(r, i)
      BY <2>1, <3>2 DEF b
    <3> QED  BY <3>8, <3>9 DEF i, p, atEnd
  <2> QED  BY <2>6, <2>7
<1> QED  BY <1>2, <1>3

LEMMA IterNext ==
    ASSUME NEW r, TableOK(r), NEW it, it = iter \/ IterIn(r, it)
    PROVE  Advanced(r, it, iter_next(r, it))
<1> DEFINE n == Len(r.index)
           atEnd == it.loaded /\ it.pos >= Len(Block(r, it.block_idx))
           i == IF atEnd THEN it.block_idx + 1 ELSE it.block_idx
           p == IF atEnd THEN 1 ELSE it.pos + 1
           low == KeyAt(r, it)
           ended == [block_idx |-> n + 1, loaded |-> FALSE, pos |-> 0]
           res == iter_next(r, it)
           past == i > n
           broken == i <= n /\ ~BlockGood(r, i) /\ (atEnd \/ ~it.loaded)
<1>1. NextPlace(r, it, i, p) /\ (atEnd \/ ~it.loaded \/ BlockGood(r, i))
  BY NextPlaceIs
<1>2. res = CASE past -> [item |-> EndItem, it |-> [block_idx |-> i, loaded |-> FALSE, pos |-> 0]]
              [] broken -> [item |-> ErrItem, it |-> ended]
              [] OTHER -> [item |-> Block(r, i)[p], it |-> [block_idx |-> i, loaded |-> TRUE, pos |-> p]]
  BY Zenon DEF iter_next
<1> HIDE DEF i, p, res, atEnd
<1>3. n \in Nat /\ BlocksOf(r) = 1 .. n
  BY TableParts
<1>4. i \in Nat /\ i >= 1 /\ i <= n + 1 /\ p \in Nat /\ low \in Nat
      /\ \A j \in BlocksOf(r) : \A q \in DOMAIN TBlk(r, j) :
            Before(j, q, i, p) => TBlk(r, j)[q].key <= low
  BY <1>1 DEF NextPlace
<1>5. CASE past
  <2>1. i = n + 1
    BY <1>3, <1>4, <1>5
  <2>2. res = [item |-> EndItem, it |-> [block_idx |-> i, loaded |-> FALSE, pos |-> 0]]
    <3>1. ~broken
      BY <1>3, <1>4, <1>5
    <3> HIDE DEF past, broken
    <3> QED  BY <1>2, <1>5, <3>1, Zenon
  <2>3. res.item = EndItem /\ res.it = ended
    BY <2>1, <2>2, Zenon
  <2>4. NothingBehind(r, low)
    <3> SUFFICES ASSUME NEW k, NEW e, InTable(r, k, e) PROVE k <= low
      BY DEF NothingBehind
    <3>0. PICK j \in BlocksOf(r) : InBlock(TBlk(r, j), k, e)
      BY DEF InTable
    <3>1. PICK q \in DOMAIN TBlk(r, j) : TBlk(r, j)[q].key = k
      BY <3>0 DEF InBlock
    <3>2. Before(j, q, i, p)
      BY <1>3, <2>1 DEF Before
    <3> QED  BY <1>4, <3>1, <3>2
  <2> HIDE DEF ended, low
  <2>5. IterEnd(r, res.it)
    BY <2>3, Zenon DEF IterEnd, ended
  <2> QED  BY <2>3, <2>4, <2>5, Zenon DEF Advanced, low, res
<1>6. CASE ~past /\ broken
  <2>1. res = [item |-> ErrItem, it |-> ended]
    <3> HIDE DEF past, broken
    <3> QED  BY <1>2, <1>6, Zenon
  <2>2. res.item = ErrItem /\ res.it = ended
    BY <2>1, Zenon
  <2> HIDE DEF ended, low
  <2>3. IterEnd(r, res.it)
    BY <2>2, Zenon DEF IterEnd, ended
  <2> QED  BY <2>2, <2>3, Zenon DEF Advanced, res
<1>7. CASE ~past /\ ~broken
  <2>1. res = [item |-> Block(r, i)[p], it |-> [block_idx |-> i, loaded |-> TRUE, pos |-> p]]
    <3> HIDE DEF past, broken
    <3> QED  BY <1>2, <1>7, Zenon
  <2>2. res.item = Block(r, i)[p] /\ res.it = [block_idx |-> i, loaded |-> TRUE, pos |-> p]
    BY <2>1, Zenon
  <2>3. i <= n
    BY <1>3, <1>4, <1>7
  <2>4. i \in BlocksOf(r) /\ BlockGood(r, i)
    <3>1. i \in 1 .. n
      BY <1>3, <1>4, <2>3
    <3>2. BlockGood(r, i)
      BY <1>1, <1>7, <2>3, Zenon
    <3> QED  BY <1>3, <3>1, <3>2
  <2>5. Block(r, i) = TBlk(r, i)
    BY <2>4, BlockRead
  <2>6. p \in DOMAIN TBlk(r, i) /\ low < TBlk(r, i)[p].key
    BY <1>1, <2>4 DEF NextPlace
  <2>7. NothingUpTo(r, low, TBlk(r, i)[p].key)
    <3> HIDE DEF low
    <3> QED  BY <1>4, <2>4, <2>6, Successor
  <2>8. res.it.block_idx = i /\ res.it.pos = p
    BY <2>2
  <2>9. IterIn(r, res.it)
    <3>1. res.it \in [block_idx : BlocksOf(r), loaded : {TRUE}, pos : Nat]
      BY <1>4, <2>2, <2>4
    <3> QED  BY <2>4, <2>6, <2>8, <3>1 DEF IterIn
  <2>10. res.item = Front(r, res.it)
    BY <2>2, <2>5, <2>8 DEF Front
  <2>11. low < res.item.key /\ NothingUpTo(r, low, res.item.key)
    BY <2>2, <2>5, <2>6, <2>7
  <2> HIDE DEF low
  <2> QED  BY <2>9, <2>10, <2>11, Zenon DEF Advanced, low, res
<1> HIDE DEF past, broken
<1> QED  BY <1>5, <1>6, <1>7, Zenon

\* A block damaged on disk changes nothing but what can be read.
LEMMA DamagedTable ==
    ASSUME NEW r, TableOK(r), NEW i \in DOMAIN r.index, NEW h, TableHolds(r, h)
    PROVE  LET s == [r EXCEPT !.file.bad = @ \cup {i}]
           IN  TableOK(s) /\ TableHolds(s, h) /\ s.file.bad # {}
<1> DEFINE s == [r EXCEPT !.file.bad = @ \cup {i}]
           bad == r.file.bad \cup {i}
           file == [r.file EXCEPT !.bad = bad]
<1>1. r \in Reader /\ r.file \in TableFile /\ i \in Nat
  BY TableParts DEF TableOK, Reader
<1>2. bad \in SUBSET Nat /\ bad # {}
  BY <1>1, TableParts
<1>3. s = [r EXCEPT !.file = file]
  BY <1>1 DEF Reader
<1> HIDE DEF s, bad
<1>4. file \in TableFile /\ file.bad = bad /\ file.extents = r.file.extents
  BY <1>1, <1>2 DEF TableFile
<1> HIDE DEF file
<1>5. s \in Reader /\ s.file = file /\ s.index = r.index /\ s.bloom = r.bloom
  BY <1>1, <1>3, <1>4 DEF Reader
<1>6. BlocksOf(s) = BlocksOf(r) /\ s.file.extents = r.file.extents /\ \A j : TBlk(s, j) = TBlk(r, j)
  BY <1>4, <1>5 DEF BlocksOf, TBlk
<1>7. TableOK(s)
  BY <1>5, <1>6 DEF TableOK
<1>8. \A k, e : InTable(s, k, e) <=> InTable(r, k, e)
  BY <1>6 DEF InTable
<1>9. TableHolds(s, h)
  BY <1>8 DEF TableHolds
<1> QED  BY <1>2, <1>4, <1>5, <1>7, <1>9 DEF s

\* What a writer holds it was given, up to the last key.
LEMMA StoredKeys ==
    ASSUME NEW w, WriterOK(w), NEW k, NEW e, Stored(w, k, e)
    PROVE  k \in Keys /\ k \in Nat /\ k > 0 /\ k <= w.last_key /\ e \in Entries /\ e # NoEntry
<1>1. PICK i \in 1 .. Len(w.file.extents) + 1 : InBlock(Blk(w, i), k, e)
  BY DEF Stored
<1>2. PICK p \in DOMAIN Blk(w, i) : Blk(w, i)[p].key = k /\ Blk(w, i)[p].entry = e
  BY <1>1 DEF InBlock
<1>3. Blk(w, i)[p] \in Item
  BY BlkIs DEF WriterOK
<1>4. k <= w.last_key
  BY <1>2 DEF WriterOK, Remembered
<1>5. e # NoEntry
  BY <1>2, <1>3 DEF Item, Entries, Put, Vector, Tombstone, NoEntry
<1>6. k \in Keys /\ e \in Entries
  BY <1>2, <1>3 DEF Item
<1>7. k \in Nat /\ k > 0
  BY <1>6, MemtableAssumption
<1> QED  BY <1>4, <1>5, <1>6, <1>7
=============================================================================

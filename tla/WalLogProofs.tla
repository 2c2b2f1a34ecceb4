---------------------------- MODULE WalLogProofs ----------------------------
(***************************************************************************)
(* Theorems about WalLog, for every limit on keys and values, every length *)
(* clients use, and any number of appends, failed appends, crashes that    *)
(* cut or zero the unsynced tail, and reopenings.                          *)
(***************************************************************************)
EXTENDS WalLog, SetLemmas, SequenceTheorems, TLAPS

-----------------------------------------------------------------------------
(* The codec                                                               *)

Whole(r) == HEADER_LEN + r.key_len + r.value_len

\* The cells of an encoded record: their number, their types and places.
LEMMA EncodeIs ==
    ASSUME NEW r \in Records
    PROVE  /\ encode(r) \in Seq(Cells) /\ Whole(r) \in Nat /\ Whole(r) >= HEADER_LEN
           /\ Len(encode(r)) = Whole(r)
           /\ encode(r)[1] = Cell("crc", r, 0) /\ encode(r)[2] = Cell("kind", r, 0)
           /\ encode(r)[3] = Cell("key_len", r, r.key_len)
           /\ encode(r)[4] = Cell("value_len", r, r.value_len)
           /\ \A p \in 1 .. Whole(r) : encode(r)[p] \in Cells /\ encode(r)[p].rec = r
<1> DEFINE n == r.key_len + r.value_len
           head == <<Cell("crc", r, 0), Cell("kind", r, 0),
                     Cell("key_len", r, r.key_len), Cell("value_len", r, r.value_len)>>
           tail == [i \in 1 .. n |-> Cell("byte", r, i)]
<1>1. r.key_len \in Nat /\ r.value_len \in Nat /\ n \in Nat
  BY DEF Records
<1>2. \A x \in {"crc", "kind", "key_len", "value_len", "byte"}, i \in Nat :
         Cell(x, r, i) \in Cells /\ Cell(x, r, i).rec = r
  BY DEF Cell, Cells
<1>3. head \in Seq(Cells) /\ Len(head) = 4
  BY <1>1, <1>2
<1>4. tail \in Seq(Cells) /\ Len(tail) = n
  <2>1. \A i \in 1 .. n : Cell("byte", r, i) \in Cells
    BY <1>1, <1>2
  <2>2. tail \in [1 .. n -> Cells]
    BY <2>1
  <2> HIDE DEF tail, n
  <2> QED  BY <1>1, <2>2
<1>5. encode(r) = head \o tail
  BY DEF encode
<1> HIDE DEF head, tail, n
<1>6. /\ encode(r) \in Seq(Cells) /\ Len(encode(r)) = 4 + n
      /\ \A i \in 1 .. 4 + n : encode(r)[i] = IF i <= 4 THEN head[i] ELSE tail[i - 4]
  <2>1. /\ head \o tail \in Seq(Cells) /\ Len(head \o tail) = Len(head) + Len(tail)
        /\ \A i \in 1 .. Len(head) + Len(tail) :
              (head \o tail)[i] = IF i <= Len(head) THEN head[i] ELSE tail[i - Len(head)]
    BY <1>3, <1>4, ConcatProperties
  <2> QED  BY <1>3, <1>4, <1>5, <2>1
<1>7. Whole(r) = 4 + n /\ Whole(r) \in Nat /\ Whole(r) >= HEADER_LEN
  BY <1>1 DEF Whole, HEADER_LEN, n
<1>8. /\ encode(r)[1] = head[1] /\ encode(r)[2] = head[2]
      /\ encode(r)[3] = head[3] /\ encode(r)[4] = head[4]
  BY <1>1, <1>6
<1>9. /\ head[1] = Cell("crc", r, 0) /\ head[2] = Cell("kind", r, 0)
      /\ head[3] = Cell("key_len", r, r.key_len) /\ head[4] = Cell("value_len", r, r.value_len)
  BY DEF head
<1>10. ASSUME NEW p \in 1 .. Whole(r) PROVE encode(r)[p] \in Cells /\ encode(r)[p].rec = r
  <2>1. encode(r)[p] \in Cells
    BY <1>6, <1>7
  <2>2. CASE p <= 4
    <3>1. p \in {1, 2, 3, 4}
      BY <1>7, <2>2
    <3> QED  BY <1>1, <1>2, <1>8, <1>9, <2>1, <3>1
  <2>3. CASE p > 4
    <3>1. p - 4 \in 1 .. n /\ encode(r)[p] = tail[p - 4]
      BY <1>1, <1>6, <1>7, <2>3
    <3>2. tail[p - 4] = Cell("byte", r, p - 4)
      BY <3>1 DEF tail
    <3> QED  BY <1>1, <1>2, <2>1, <3>1, <3>2
  <2> QED  BY <1>1, <1>7, <2>2, <2>3
<1> QED  BY <1>6, <1>7, <1>8, <1>9, <1>10

-----------------------------------------------------------------------------
(* What the file holds                                                     *)

\* The cells of f behind c.at are those of the chunk: the encoded record, its
\* beginning if the append was torn, or zeros.
RecordIn(c, f) ==
    /\ c.rec \in Records /\ Encodable(c.rec.kind, c.rec.key_len, c.rec.value_len)
    /\ c.size <= Whole(c.rec) /\ (c.ok <=> c.size = Whole(c.rec))
    /\ \A p \in 1 .. c.size : f[c.at + p] = encode(c.rec)[p]
ZerosIn(c, f) == /\ c.rec = NoRecord /\ ~c.ok
                 /\ \A p \in 1 .. c.size : f[c.at + p] = Cell("zero", NoRecord, 0)
ChunkIn(c, f) == /\ c.size > 0 /\ c.at >= FILE_HEADER_LEN /\ c.at + c.size <= Len(f)
                 /\ RecordIn(c, f) \/ ZerosIn(c, f)

HeaderAt(f) == Len(f) >= FILE_HEADER_LEN /\ f[1] = Header[1] /\ f[2] = Header[2]

\* Where chunk i begins: behind the header and the chunks before it.
Position(l, i) == IF i = 1 THEN FILE_HEADER_LEN ELSE l[i - 1].at + l[i - 1].size

\* The file is the header and the chunks of the log, of different records.
Layout(l, f) ==
    /\ \A i \in 1 .. Len(l) : ChunkIn(l[i], f) /\ l[i].at = Position(l, i)
    /\ \A i, j \in 1 .. Len(l) : i < j => /\ l[i].at + l[i].size <= l[j].at
                                          /\ l[i].rec # l[j].rec \/ l[j].rec = NoRecord
    /\ Position(l, Len(l) + 1) = Len(f)

LEMMA ChunkFields ==
    ASSUME NEW l \in Seq(Chunks), NEW i \in 1 .. Len(l)
    PROVE  /\ l[i] \in Chunks /\ l[i].at \in Nat /\ l[i].size \in Nat /\ l[i].ok \in BOOLEAN
           /\ l[i] = [rec |-> l[i].rec, at |-> l[i].at, size |-> l[i].size, ok |-> l[i].ok]
<1>1. l[i] \in Chunks
  BY ElementOfSeq
<1> QED  BY <1>1 DEF Chunks

LEMMA PositionIs ==
    ASSUME NEW l \in Seq(Chunks), NEW f \in Seq(Cells), Layout(l, f), NEW i \in 1 .. Len(l) + 1
    PROVE  Position(l, i) \in Nat /\ Position(l, i) <= Len(f) /\ Position(l, i) >= FILE_HEADER_LEN
<1>0. Len(l) \in Nat /\ Len(f) \in Nat
  OBVIOUS
<1>1. CASE i = 1
  <2>1. Position(l, i) = 2
    BY <1>1 DEF Position, FILE_HEADER_LEN
  <2>2. CASE Len(l) = 0
    <3>1. Position(l, i) = Len(f)
      BY <1>1, <2>2 DEF Layout
    <3>2. Len(f) = 2
      BY <2>1, <3>1
    <3> QED  BY <2>1, <3>2 DEF FILE_HEADER_LEN
  <2>3. CASE Len(l) # 0
    <3>1. 1 \in 1 .. Len(l)
      BY <1>0, <2>3
    <3>2. ChunkIn(l[1], f) /\ l[1].at = Position(l, 1)
      BY <3>1 DEF Layout
    <3>3. l[1].at \in Nat /\ l[1].size \in Nat
      BY <3>1, ChunkFields
    <3> QED  BY <1>0, <1>1, <2>1, <3>2, <3>3 DEF ChunkIn, FILE_HEADER_LEN
  <2> QED  BY <2>2, <2>3
<1>2. CASE i # 1
  <2> DEFINE j == i - 1
  <2>1. j \in 1 .. Len(l) /\ Position(l, i) = l[j].at + l[j].size
    BY <1>0, <1>2 DEF Position
  <2> HIDE DEF j
  <2>2. ChunkIn(l[j], f)
    BY <2>1 DEF Layout
  <2>3. l[j].at \in Nat /\ l[j].size \in Nat
    BY <2>1, ChunkFields
  <2> QED  BY <1>0, <2>1, <2>2, <2>3 DEF ChunkIn, FILE_HEADER_LEN
<1> QED  BY <1>1, <1>2

\* A chunk stays where it is when the file grows or is cut behind it.
LEMMA ChunkStays ==
    ASSUME NEW l \in Seq(Chunks), NEW i \in 1 .. Len(l), NEW f \in Seq(Cells), NEW g \in Seq(Cells),
           ChunkIn(l[i], f), l[i].at + l[i].size <= Len(g),
           \A p \in 1 .. l[i].at + l[i].size : g[p] = f[p]
    PROVE  ChunkIn(l[i], g)
<1>1. l[i].at \in Nat /\ l[i].size \in Nat
  BY ChunkFields
<1>2. \A p \in 1 .. l[i].size : g[l[i].at + p] = f[l[i].at + p]
  <2> SUFFICES ASSUME NEW p \in 1 .. l[i].size PROVE g[l[i].at + p] = f[l[i].at + p]
    OBVIOUS
  <2>1. l[i].at + p \in 1 .. l[i].at + l[i].size
    BY <1>1
  <2> QED  BY <2>1
<1> QED  BY <1>2 DEF ChunkIn, RecordIn, ZerosIn

\* An append, whole or torn, and a zeroed tail add a chunk.
LEMMA LayoutAppend ==
    ASSUME NEW l \in Seq(Chunks), NEW f \in Seq(Cells), NEW g \in Seq(Cells), Layout(l, f),
           NEW c \in Chunks, c.at = Len(f), Len(g) = Len(f) + c.size, ChunkIn(c, g),
           \A p \in 1 .. Len(f) : g[p] = f[p],
           \A i \in 1 .. Len(l) : l[i].rec # c.rec \/ c.rec = NoRecord
    PROVE  Append(l, c) \in Seq(Chunks) /\ Layout(Append(l, c), g)
<1> DEFINE m == Append(l, c)
           n == Len(l)
<1>0. n \in Nat /\ c.size \in Nat /\ c.at \in Nat /\ Len(f) \in Nat
  BY DEF Chunks
<1>1. /\ m \in Seq(Chunks) /\ Len(m) = n + 1 /\ m[n + 1] = c
      /\ \A i \in 1 .. n : m[i] = l[i]
  BY AppendProperties
<1> HIDE DEF m
<1>2. \A i \in 1 .. n + 1 : Position(m, i) = Position(l, i)
  <2> SUFFICES ASSUME NEW i \in 1 .. n + 1 PROVE Position(m, i) = Position(l, i)
    OBVIOUS
  <2>1. CASE i = 1
    BY <2>1 DEF Position
  <2>2. CASE i # 1
    <3>1. m[i - 1] = l[i - 1]
      BY <1>0, <1>1, <2>2
    <3> QED  BY <2>2, <3>1 DEF Position
  <2> QED  BY <2>1, <2>2
<1>3. ASSUME NEW i \in 1 .. n
      PROVE  ChunkIn(m[i], g) /\ m[i].at = Position(m, i) /\ l[i].at + l[i].size <= Len(f)
             /\ l[i].at \in Nat /\ l[i].size \in Nat
  <2>1. ChunkIn(l[i], f) /\ l[i].at = Position(l, i) /\ l[i].at \in Nat /\ l[i].size \in Nat
    BY ChunkFields DEF Layout
  <2>2. l[i].at + l[i].size <= Len(f)
    BY <2>1 DEF ChunkIn
  <2>3. ChunkIn(l[i], g)
    <3>1. l[i].at + l[i].size <= Len(g)
      BY <1>0, <2>1, <2>2
    <3>2. \A p \in 1 .. l[i].at + l[i].size : g[p] = f[p]
      <4> SUFFICES ASSUME NEW p \in 1 .. l[i].at + l[i].size PROVE g[p] = f[p]
        OBVIOUS
      <4>1. p \in 1 .. Len(f)
        BY <1>0, <2>1, <2>2
      <4> QED  BY <4>1
    <3> QED  BY <2>1, <3>1, <3>2, ChunkStays
  <2> QED  BY <1>0, <1>1, <1>2, <2>1, <2>2, <2>3
<1>4. ChunkIn(m[n + 1], g) /\ m[n + 1].at = Position(m, n + 1)
  BY <1>0, <1>1, <1>2 DEF Layout
<1>5. \A i \in 1 .. Len(m) : ChunkIn(m[i], g) /\ m[i].at = Position(m, i)
  <2> SUFFICES ASSUME NEW i \in 1 .. n + 1 PROVE ChunkIn(m[i], g) /\ m[i].at = Position(m, i)
    BY <1>1
  <2>1. i = n + 1 \/ i \in 1 .. n
    BY <1>0
  <2> QED  BY <1>3, <1>4, <2>1
<1>6. ASSUME NEW i \in 1 .. n + 1, NEW j \in 1 .. n + 1, i < j
      PROVE  m[i].at + m[i].size <= m[j].at /\ (m[i].rec # m[j].rec \/ m[j].rec = NoRecord)
  <2>1. i \in 1 .. n
    BY <1>0, <1>6
  <2>2. CASE j \in 1 .. n
    BY <1>1, <1>6, <2>1, <2>2 DEF Layout
  <2>3. CASE j = n + 1
    BY <1>1, <1>3, <2>1, <2>3
  <2> QED  BY <1>0, <2>2, <2>3
<1>7. Position(m, Len(m) + 1) = Len(g)
  BY <1>0, <1>1 DEF Position
<1>8. Layout(m, g)
  BY <1>1, <1>5, <1>6, <1>7 DEF Layout
<1> QED  BY <1>1, <1>8 DEF m

-----------------------------------------------------------------------------
(* Crashes                                                                 *)

\* CutLog by its meaning: the chunks that begin before n, the last of them
\* cut at n.
CutChunk(c, n) == IF c.at + c.size <= n THEN c ELSE [c EXCEPT !.size = n - c.at, !.ok = FALSE]
Cut(l, n) == [i \in {j \in DOMAIN l : l[j].at < n} |-> CutChunk(l[i], n)]

LEMMA CutChunkIs ==
    ASSUME NEW c \in Chunks, NEW n \in Nat, c.at < n, c.size > 0
    PROVE  /\ CutChunk(c, n) \in Chunks /\ CutChunk(c, n).rec = c.rec /\ CutChunk(c, n).at = c.at
           /\ CutChunk(c, n).size \in Nat /\ CutChunk(c, n).size > 0 /\ CutChunk(c, n).size <= c.size
           /\ c.at + c.size <= n => CutChunk(c, n) = c
           /\ c.at + c.size > n => CutChunk(c, n).size = n - c.at /\ ~CutChunk(c, n).ok
<1>1. /\ c.at \in Nat /\ c.size \in Nat
      /\ c = [rec |-> c.rec, at |-> c.at, size |-> c.size, ok |-> c.ok]
      /\ c.rec \in Records \cup {NoRecord} /\ c.ok \in BOOLEAN
  BY DEF Chunks
<1>2. CASE c.at + c.size <= n
  BY <1>1, <1>2 DEF CutChunk
<1>3. CASE c.at + c.size > n
  <2> DEFINE k == n - c.at
             d == [c EXCEPT !.size = k, !.ok = FALSE]
  <2>1. k \in Nat /\ k > 0 /\ k <= c.size /\ ~(c.at + c.size <= n)
    BY <1>1, <1>3
  <2>2. CutChunk(c, n) = d
    BY <2>1 DEF CutChunk
  <2> HIDE DEF k
  <2>3. d.rec = c.rec /\ d.at = c.at /\ d.size = k
    BY DEF Chunks
  <2>4. ~d.ok
    BY DEF Chunks
  <2>5. d \in Chunks
    BY <2>1 DEF Chunks
  <2> QED  BY <1>1, <1>3, <2>1, <2>2, <2>3, <2>4, <2>5 DEF k
<1> QED  BY <1>1, <1>2, <1>3

LEMMA CutIs ==
    ASSUME NEW l \in Seq(Chunks), NEW n \in Nat, \A i \in 1 .. Len(l) : l[i].size > 0,
           \A i, j \in 1 .. Len(l) : i < j => l[i].at <= l[j].at
    PROVE  \E m \in 0 .. Len(l) :
              /\ Cut(l, n) \in Seq(Chunks) /\ Len(Cut(l, n)) = m
              /\ \A i \in 1 .. m : Cut(l, n)[i] = CutChunk(l[i], n) /\ l[i].at < n
              /\ \A i \in 1 .. Len(l) : i > m => l[i].at >= n
<1> DEFINE D == {j \in 1 .. Len(l) : l[j].at < n}
<1>0. Len(l) \in Nat /\ DOMAIN l = 1 .. Len(l)
  BY LenProperties
<1>1. \A i \in 1 .. Len(l) : l[i] \in Chunks /\ l[i].at \in Nat /\ l[i].size \in Nat
  BY ChunkFields
<1>2. PICK m \in 0 .. Len(l) : D = 1 .. m
  <2>1. CASE D = {}
    BY <1>0, <2>1
  <2>2. CASE D # {}
    <3>1. D \in SUBSET (0 .. Len(l))
      BY <1>0
    <3>2. Max(D) \in D /\ \A y \in D : y <= Max(D)
      BY <1>0, <2>2, <3>1, MaxOfNats
    <3> DEFINE m == Max(D)
    <3>3. m \in 1 .. Len(l) /\ l[m].at < n
      BY <3>2
    <3>4. \A i \in 1 .. m : i \in D
      <4> SUFFICES ASSUME NEW i \in 1 .. m PROVE i \in D
        OBVIOUS
      <4> HIDE DEF m
      <4>1. i \in 1 .. Len(l) /\ (i = m \/ i < m)
        BY <1>0, <3>3
      <4>2. l[i].at <= l[m].at /\ l[i].at \in Nat /\ l[m].at \in Nat
        BY <1>1, <3>3, <4>1
      <4>3. l[i].at < n
        BY <3>3, <4>2
      <4> QED  BY <4>1, <4>3
    <3>5. \A i \in D : i \in 1 .. m
      BY <1>0, <3>2, <3>3
    <3>6. D = 1 .. m
      BY <3>4, <3>5
    <3> QED  BY <1>0, <3>3, <3>6
  <2> QED  BY <2>1, <2>2
<1> DEFINE c == Cut(l, n)
<1>3. c = [i \in 1 .. m |-> CutChunk(l[i], n)]
  BY <1>0, <1>2 DEF Cut
<1>4. \A i \in 1 .. m : l[i].at < n /\ i \in 1 .. Len(l)
  <2>1. \A i \in 1 .. m : i \in D
    BY <1>2
  <2> QED  BY <2>1
<1>5. \A i \in 1 .. m : CutChunk(l[i], n) \in Chunks
  BY <1>1, <1>4, CutChunkIs
<1>6. c \in [1 .. m -> Chunks]
  BY <1>3, <1>5
<1> HIDE DEF c
<1>7. c \in Seq(Chunks) /\ Len(c) = m
  <2>1. m \in Nat
    BY <1>0
  <2> QED  BY <1>6, <2>1
<1>8. ASSUME NEW i \in 1 .. Len(l), i > m PROVE l[i].at >= n
  <2>1. i \notin D
    BY <1>0, <1>2, <1>8
  <2> QED  BY <1>1, <2>1
<1> QED  BY <1>3, <1>4, <1>7, <1>8 DEF c

\* Cutting the file behind its nth cell cuts the log.
LEMMA LayoutCut ==
    ASSUME NEW l \in Seq(Chunks), NEW f \in Seq(Cells), NEW g \in Seq(Cells), Layout(l, f),
           NEW n \in FILE_HEADER_LEN .. Len(f), Len(g) = n, \A p \in 1 .. n : g[p] = f[p]
    PROVE  Layout(Cut(l, n), g)
<1> DEFINE c == Cut(l, n)
<1>0. /\ n \in Nat /\ Len(f) \in Nat /\ Len(l) \in Nat /\ FILE_HEADER_LEN = 2 /\ n >= 2 /\ n <= Len(f)
      /\ \A i \in 1 .. Len(l) : l[i].at \in Nat /\ l[i].size \in Nat /\ l[i].size > 0 /\ l[i] \in Chunks
                                /\ ChunkIn(l[i], f) /\ l[i].at = Position(l, i)
  <2>1. \A i \in 1 .. Len(l) : ChunkIn(l[i], f) /\ l[i].at = Position(l, i) /\ l[i].size > 0
    BY DEF Layout, ChunkIn
  <2>2. \A i \in 1 .. Len(l) : l[i].at \in Nat /\ l[i].size \in Nat /\ l[i] \in Chunks
    BY ChunkFields
  <2>3. n \in Nat /\ Len(f) \in Nat /\ Len(l) \in Nat /\ n >= 2 /\ n <= Len(f)
    BY DEF FILE_HEADER_LEN
  <2> QED  BY <2>1, <2>2, <2>3 DEF FILE_HEADER_LEN
<1>1. \A i, j \in 1 .. Len(l) : i < j => /\ l[i].at + l[i].size <= l[j].at /\ l[i].at <= l[j].at
                                         /\ l[i].rec # l[j].rec \/ l[j].rec = NoRecord
  <2> SUFFICES ASSUME NEW i \in 1 .. Len(l), NEW j \in 1 .. Len(l), i < j
               PROVE  /\ l[i].at + l[i].size <= l[j].at /\ l[i].at <= l[j].at
                      /\ l[i].rec # l[j].rec \/ l[j].rec = NoRecord
    OBVIOUS
  <2>1. l[i].at + l[i].size <= l[j].at /\ (l[i].rec # l[j].rec \/ l[j].rec = NoRecord)
    BY DEF Layout
  <2>2. l[i].at \in Nat /\ l[i].size \in Nat /\ l[j].at \in Nat
    BY <1>0
  <2> QED  BY <2>1, <2>2
<1>2. PICK m \in 0 .. Len(l) :
         /\ c \in Seq(Chunks) /\ Len(c) = m
         /\ \A i \in 1 .. m : c[i] = CutChunk(l[i], n) /\ l[i].at < n
         /\ \A i \in 1 .. Len(l) : i > m => l[i].at >= n
  BY <1>0, <1>1, CutIs
<1> HIDE DEF c
<1>3. \A i \in 1 .. m : i \in 1 .. Len(l)
  BY <1>0
<1>4. \A i \in 1 .. m : i < m => c[i] = l[i]
  <2> SUFFICES ASSUME NEW i \in 1 .. m, i < m PROVE c[i] = l[i]
    OBVIOUS
  <2>1. m \in 1 .. Len(l) /\ i \in 1 .. Len(l) /\ m \in 1 .. m
    BY <1>0, <1>3
  <2>2. l[i].at + l[i].size <= l[m].at /\ l[m].at < n /\ l[i].at < n
    BY <1>1, <1>2, <2>1
  <2>3. l[i].at + l[i].size <= n
    BY <1>0, <2>1, <2>2
  <2>4. CutChunk(l[i], n) = l[i]
    BY <1>0, <2>1, <2>2, <2>3, CutChunkIs
  <2> QED  BY <1>2, <2>4
<1>5. \A i \in 1 .. m : /\ c[i].rec = l[i].rec /\ c[i].at = l[i].at /\ c[i].size > 0
                        /\ c[i].size \in Nat /\ c[i].size <= l[i].size
                        /\ (l[i].at + l[i].size <= n => c[i] = l[i])
                        /\ (l[i].at + l[i].size > n => c[i].size = n - l[i].at /\ ~c[i].ok)
  <2> SUFFICES ASSUME NEW i \in 1 .. m
               PROVE  /\ c[i].rec = l[i].rec /\ c[i].at = l[i].at /\ c[i].size > 0
                      /\ c[i].size \in Nat /\ c[i].size <= l[i].size
                      /\ (l[i].at + l[i].size <= n => c[i] = l[i])
                      /\ (l[i].at + l[i].size > n => c[i].size = n - l[i].at /\ ~c[i].ok)
    OBVIOUS
  <2>1. l[i] \in Chunks /\ l[i].at < n /\ l[i].size > 0 /\ c[i] = CutChunk(l[i], n)
    BY <1>0, <1>2, <1>3
  <2> QED  BY <1>0, <2>1, CutChunkIs
<1>6. ASSUME NEW i \in 1 .. m PROVE ChunkIn(c[i], g)
  <2>0. /\ i \in 1 .. Len(l) /\ ChunkIn(l[i], f) /\ l[i].at \in Nat /\ l[i].size \in Nat
        /\ l[i] \in Chunks /\ l[i].at < n
    BY <1>0, <1>2, <1>3
  <2>1. CASE l[i].at + l[i].size <= n
    <3>1. \A p \in 1 .. l[i].at + l[i].size : g[p] = f[p]
      <4> SUFFICES ASSUME NEW p \in 1 .. l[i].at + l[i].size PROVE g[p] = f[p]
        OBVIOUS
      <4>1. p \in 1 .. n
        BY <1>0, <2>0, <2>1
      <4> QED  BY <4>1
    <3>2. ChunkIn(l[i], g)
      BY <2>0, <2>1, <3>1, ChunkStays
    <3> QED  BY <1>5, <2>1, <3>2
  <2>2. CASE l[i].at + l[i].size > n
    <3>1. /\ c[i].rec = l[i].rec /\ c[i].at = l[i].at /\ c[i].size = n - l[i].at /\ ~c[i].ok
          /\ c[i].size > 0 /\ c[i].size \in Nat /\ c[i].size < l[i].size
      BY <1>0, <1>5, <2>0, <2>2
    <3>2. \A p \in 1 .. c[i].size : g[c[i].at + p] = f[l[i].at + p] /\ p \in 1 .. l[i].size
      <4> SUFFICES ASSUME NEW p \in 1 .. c[i].size
                   PROVE  g[c[i].at + p] = f[l[i].at + p] /\ p \in 1 .. l[i].size
        OBVIOUS
      <4>1. l[i].at + p \in 1 .. n /\ p \in 1 .. l[i].size
        BY <1>0, <2>0, <3>1
      <4> QED  BY <3>1, <4>1
    <3>3. c[i].at + c[i].size <= Len(g) /\ c[i].at >= FILE_HEADER_LEN
      BY <1>0, <2>0, <3>1 DEF ChunkIn
    <3>4. CASE RecordIn(l[i], f)
      <4>1. Whole(l[i].rec) \in Nat
        BY <3>4, EncodeIs DEF RecordIn
      <4>2. c[i].size <= Whole(c[i].rec) /\ (c[i].ok <=> c[i].size = Whole(c[i].rec))
        BY <2>0, <3>1, <3>4, <4>1 DEF RecordIn
      <4>3. RecordIn(c[i], g)
        BY <3>1, <3>2, <3>4, <4>2 DEF RecordIn
      <4> QED  BY <3>1, <3>3, <4>3 DEF ChunkIn
    <3>5. CASE ZerosIn(l[i], f)
      <4>1. ZerosIn(c[i], g)
        BY <3>1, <3>2, <3>5 DEF ZerosIn
      <4> QED  BY <3>1, <3>3, <4>1 DEF ChunkIn
    <3> QED  BY <2>0, <3>4, <3>5 DEF ChunkIn
  <2> QED  BY <1>0, <2>0, <2>1, <2>2
<1>7. ASSUME NEW i \in 1 .. m PROVE c[i].at = Position(c, i)
  <2>1. CASE i = 1
    BY <1>0, <1>3, <1>5, <2>1 DEF Position
  <2>2. CASE i # 1
    <3> DEFINE h == i - 1
    <3>1. h \in 1 .. m /\ h < m /\ i \in 1 .. Len(l)
      BY <1>0, <1>3, <2>2
    <3>2. c[h] = l[h]
      BY <1>4, <3>1
    <3>3. Position(c, i) = c[h].at + c[h].size /\ Position(l, i) = l[h].at + l[h].size
      BY <2>2 DEF Position
    <3> HIDE DEF h
    <3> QED  BY <1>0, <1>5, <3>1, <3>2, <3>3
  <2> QED  BY <2>1, <2>2
<1>8. ASSUME NEW i \in 1 .. m, NEW j \in 1 .. m, i < j
      PROVE  c[i].at + c[i].size <= c[j].at /\ (c[i].rec # c[j].rec \/ c[j].rec = NoRecord)
  <2>1. i < m /\ i \in 1 .. Len(l) /\ j \in 1 .. Len(l)
    BY <1>0, <1>3, <1>8
  <2>2. c[i] = l[i] /\ c[j].at = l[j].at /\ c[j].rec = l[j].rec
    BY <1>4, <1>5, <2>1
  <2> QED  BY <1>1, <1>8, <2>1, <2>2
<1>9. Position(l, m + 1) >= n /\ Position(l, m + 1) \in Nat
  <2>1. m + 1 \in 1 .. Len(l) + 1 /\ Position(l, m + 1) \in Nat
    BY <1>0, PositionIs
  <2>2. CASE m = Len(l)
    <3>1. Position(l, m + 1) = Len(f)
      BY <2>2 DEF Layout
    <3> QED  BY <1>0, <3>1
  <2>3. CASE m # Len(l)
    <3>1. m + 1 \in 1 .. Len(l) /\ m + 1 > m
      BY <1>0, <2>3
    <3> QED  BY <1>0, <1>2, <2>1, <3>1
  <2> QED  BY <2>2, <2>3
<1>10. Position(c, m + 1) = n
  <2>1. CASE m = 0
    <3>1. Position(c, m + 1) = 2 /\ Position(l, m + 1) = 2
      BY <1>0, <2>1 DEF Position
    <3> QED  BY <1>0, <1>9, <3>1
  <2>2. CASE m # 0
    <3>1. m \in 1 .. m /\ m \in 1 .. Len(l) /\ (m + 1) - 1 = m /\ m + 1 # 1
      BY <1>0, <2>2
    <3>2. Position(c, m + 1) = c[m].at + c[m].size /\ Position(l, m + 1) = l[m].at + l[m].size
      BY <3>1 DEF Position
    <3>3. l[m].at \in Nat /\ l[m].size \in Nat /\ l[m].at < n
      BY <1>0, <1>2, <3>1
    <3>4. l[m].at + l[m].size >= n
      BY <1>9, <3>2
    <3>5. CASE l[m].at + l[m].size = n
      BY <1>0, <1>5, <3>1, <3>2, <3>3, <3>5
    <3>6. CASE l[m].at + l[m].size > n
      BY <1>0, <1>5, <3>1, <3>2, <3>3, <3>6
    <3>7. l[m].at + l[m].size = n \/ l[m].at + l[m].size > n
      BY <1>0, <3>3, <3>4
    <3> QED  BY <3>5, <3>6, <3>7
  <2> QED  BY <2>1, <2>2
<1> QED
  <2>1. Layout(c, g)
    BY <1>2, <1>6, <1>7, <1>8, <1>10 DEF Layout
  <2> QED  BY <2>1 DEF c

-----------------------------------------------------------------------------
(* The inductive invariant                                                 *)

\* The reader has yielded the records of the first chunks, all of them whole.
ReadTo(l, o) == Len(o) <= Len(l) /\ \A i \in 1 .. Len(o) : l[i].ok /\ o[i] = l[i].rec

\* Every acknowledged record is a whole chunk in front of the durable length.
Kept(l, a, s) == \A r \in a : \E i \in 1 .. Len(l) :
                     l[i].ok /\ l[i].rec = r /\ l[i].at + l[i].size <= s

Named(l, n) == \A i \in 1 .. Len(l) : l[i].rec.id <= n

\* Why the reader stopped at a record: it is damaged, and more follows it or
\* it is a zeroed tail.
Damaged(l, m) == m <= Len(l) /\ ~l[m].ok /\ (m < Len(l) \/ l[m].rec = NoRecord)

\* A log whose header is there lies in its file chunk by chunk.
FileInv ==
    /\ ~exists => file = <<>> /\ pc = "Down"
    /\ ~exists \/ pc \in {"Header", "HeaderSync", "HeaderDir"} => log = <<>> /\ acked = {}
    /\ pc = "Header" => file = <<>>
    /\ pc \in {"HeaderSync", "HeaderDir"} => file = Header
    /\ pc \in {"Reading", "Done", "Up"} => HeaderAt(file)
    /\ HeaderAt(file) => Layout(log, file)
    /\ Named(log, ops)

AckedInv == HeaderAt(file) => Kept(log, acked, synced)

ReaderInv ==
    /\ pc \in {"Reading", "Done"} => ReadTo(log, out) /\ offset = Position(log, Len(out) + 1)
    /\ pc = "Done" /\ Len(out) < Len(log) => ~log[Len(out) + 1].ok
    /\ pc = "Corrupt" => IF HeaderAt(file) THEN ReadTo(log, out) /\ Damaged(log, Len(out) + 1)
                         ELSE out = <<>>

WInv == TypeOK /\ FileInv /\ AckedInv /\ ReaderInv

LEMMA HeaderIs == /\ Header \in Seq(Cells) /\ Len(Header) = 2 /\ HeaderAt(Header) /\ FILE_HEADER_LEN = 2
                  /\ Header[1].type = "magic" /\ Header[2].type = "version"
<1>1. \A x \in {"magic", "version"} : Cell(x, NoRecord, 0) \in Cells /\ Cell(x, NoRecord, 0).type = x
  BY DEF Cell, Cells
<1> QED  BY <1>1 DEF Header, HeaderAt, FILE_HEADER_LEN

LEMMA EmptyLayout ==
    ASSUME NEW f \in Seq(Cells), Len(f) = 2
    PROVE  Layout(<<>>, f) /\ <<>> \in Seq(Chunks) /\ Len(<<>>) = 0
BY DEF Layout, Position, FILE_HEADER_LEN

LEMMA InitW == Init => WInv
<1> SUFFICES ASSUME Init PROVE WInv
  OBVIOUS
<1>1. TypeOK
  <2>1. file \in Seq(Cells) /\ out \in Seq(Records) /\ log \in Seq(Chunks) /\ Len(file) = 0
    BY DEF Init
  <2>2. synced \in 0 .. Len(file)
    BY <2>1 DEF Init
  <2> QED  BY <2>1, <2>2 DEF Init, TypeOK, Steps
<1>2. ~HeaderAt(file)
  BY DEF Init, HeaderAt, FILE_HEADER_LEN
<1>3. Named(log, ops)
  BY DEF Init, Named
<1> QED  BY <1>1, <1>2, <1>3 DEF Init, WInv, FileInv, AckedInv, ReaderInv

LEMMA CreateW == ASSUME WInv, Create PROVE WInv'
<1> USE DEF WInv, Create, Goto, reader, ghosts, bounds
<1>1. TypeOK'
  BY DEF TypeOK, Steps
<1>2. FileInv'
  BY DEF FileInv
<1>3. AckedInv'
  BY DEF AckedInv
<1>4. ReaderInv'
  BY DEF ReaderInv
<1> QED  BY <1>1, <1>2, <1>3, <1>4

LEMMA WriteHeaderW == ASSUME WInv, WriteHeader PROVE WInv'
<1>0. TypeOK /\ FileInv /\ AckedInv /\ ReaderInv /\ pc = "Header" /\ file = <<>> /\ log = <<>> /\ acked = {}
  BY DEF WInv, WriteHeader, FileInv
<1>1. /\ pc' \in {"HeaderSync", "Down"} /\ (pc' = "HeaderSync" => file' = Header) /\ fails' \in Nat
      /\ file' \in Seq(Cells) /\ Len(file') <= 2 /\ exists' = exists
      /\ UNCHANGED <<exists, synced, offset, out, log, acked, ops, crashes>>
  <2>0. UNCHANGED <<exists, synced, offset, out, log, acked, ops, crashes>>
    BY DEF WriteHeader, reader, ghosts
  <2>1. CASE file' = Header /\ Goto("HeaderSync") /\ UNCHANGED fails
    BY <1>0, <2>0, <2>1, HeaderIs DEF Goto, TypeOK
  <2>2. CASE /\ fails < MaxFails /\ fails' = fails + 1
             /\ \E n \in 0 .. FILE_HEADER_LEN : file' = SubSeq(Header, 1, n)
             /\ Goto("Down")
    <3>1. PICK n \in 0 .. FILE_HEADER_LEN : file' = SubSeq(Header, 1, n)
      BY <2>2
    <3>2. SubSeq(Header, 1, n) \in Seq(Cells) /\ Len(SubSeq(Header, 1, n)) <= 2
      BY HeaderIs, <3>1
    <3> QED  BY <1>0, <2>0, <2>2, <3>1, <3>2 DEF Goto, TypeOK
  <2> QED  BY <2>1, <2>2 DEF WriteHeader
<1>2. TypeOK'
  BY <1>0, <1>1 DEF TypeOK, Steps
<1>3. HeaderAt(file') => Layout(log', file')
  <2> SUFFICES ASSUME HeaderAt(file') PROVE Layout(log', file')
    OBVIOUS
  <2>1. Len(file') = 2
    <3>1. Len(file') \in Nat /\ Len(file') >= 2 /\ Len(file') <= 2
      BY <1>1 DEF HeaderAt, FILE_HEADER_LEN
    <3> QED  BY <3>1
  <2> QED  BY <1>0, <1>1, <2>1, EmptyLayout
<1>4. FileInv'
  BY <1>0, <1>1, <1>3 DEF FileInv
<1>5. AckedInv'
  BY <1>0, <1>1 DEF AckedInv, Kept
<1>6. ReaderInv'
  BY <1>1 DEF ReaderInv
<1> QED  BY <1>2, <1>4, <1>5, <1>6 DEF WInv

LEMMA SyncHeaderW == ASSUME WInv, SyncHeader PROVE WInv'
<1>0. /\ TypeOK /\ FileInv /\ AckedInv /\ ReaderInv /\ pc = "HeaderSync" /\ pc' = "HeaderDir"
      /\ log = <<>> /\ acked = {} /\ file = Header /\ exists /\ synced' = Len(file)
      /\ UNCHANGED <<exists, file, offset, out, log, acked, ops, crashes, fails>>
  BY DEF WInv, SyncHeader, FileInv, Goto, reader, ghosts, bounds
<1>1. TypeOK'
  BY <1>0 DEF TypeOK, Steps
<1>2. FileInv'
  BY <1>0 DEF FileInv
<1>3. AckedInv'
  BY <1>0 DEF AckedInv, Kept
<1>4. ReaderInv'
  BY <1>0 DEF ReaderInv
<1> QED  BY <1>1, <1>2, <1>3, <1>4 DEF WInv

LEMMA SyncParentW == ASSUME WInv, SyncParent PROVE WInv'
<1>0. /\ TypeOK /\ FileInv /\ AckedInv /\ ReaderInv /\ pc = "HeaderDir" /\ pc' = "Up" /\ file = Header /\ exists
      /\ UNCHANGED <<exists, file, synced, offset, out, log, acked, ops, crashes, fails>>
  BY DEF WInv, SyncParent, FileInv, Goto, disk, reader, ghosts, bounds
<1>1. TypeOK'
  BY <1>0 DEF TypeOK, Steps
<1>2. FileInv'
  BY <1>0, HeaderIs DEF FileInv
<1>3. AckedInv'
  BY <1>0 DEF AckedInv
<1>4. ReaderInv'
  BY <1>0 DEF ReaderInv
<1> QED  BY <1>1, <1>2, <1>3, <1>4 DEF WInv

LEMMA OpenWriterW == ASSUME WInv, OpenWriter PROVE WInv'
<1>0. /\ TypeOK /\ FileInv /\ AckedInv /\ ReaderInv /\ pc = "Done" /\ pc' = "Up" /\ offset' = 0 /\ out' = <<>>
      /\ UNCHANGED <<exists, file, synced, log, acked, ops, crashes, fails>>
  BY DEF WInv, OpenWriter, Goto, disk, ghosts, bounds
<1>1. TypeOK'
  BY <1>0 DEF TypeOK, Steps
<1>2. FileInv'
  BY <1>0 DEF FileInv
<1>3. AckedInv'
  BY <1>0 DEF AckedInv
<1>4. ReaderInv'
  BY <1>0 DEF ReaderInv
<1> QED  BY <1>1, <1>2, <1>3, <1>4 DEF WInv

\* The beginning of a sequence.
LEMMA PrefixIs ==
    ASSUME NEW s \in Seq(Cells), NEW n \in 0 .. Len(s)
    PROVE  /\ SubSeq(s, 1, n) \in Seq(Cells) /\ Len(SubSeq(s, 1, n)) = n
           /\ \A p \in 1 .. n : SubSeq(s, 1, n)[p] = s[p]
<1> DEFINE t == SubSeq(s, 1, n)
<1>0. Len(s) \in Nat /\ n \in Nat
  OBVIOUS
<1>1. \A i \in 1 .. n : s[i] \in Cells
  BY <1>0, ElementOfSeq
<1>2. /\ t \in Seq(Cells) /\ Len(t) = IF 1 <= n THEN n - 1 + 1 ELSE 0
      /\ \A p \in 1 .. n - 1 + 1 : t[p] = s[1 + p - 1]
  BY <1>0, <1>1, SubSeqProperties
<1>3. n - 1 + 1 = n /\ \A p \in 1 .. n : 1 + p - 1 = p
  BY <1>0
<1> HIDE DEF t
<1>4. t \in Seq(Cells) /\ Len(t) = n /\ \A p \in 1 .. n : t[p] = s[p]
  BY <1>0, <1>2, <1>3
<1> QED  BY <1>4 DEF t

\* What a torn or whole append writes.
LEMMA PrefixOf ==
    ASSUME NEW s \in Seq(Cells), NEW f \in Seq(Cells), NEW n \in 0 .. Len(s)
    PROVE  LET g == f \o SubSeq(s, 1, n)
           IN  /\ g \in Seq(Cells) /\ Len(g) = Len(f) + n
               /\ \A p \in 1 .. Len(f) : g[p] = f[p]
               /\ \A p \in 1 .. n : g[Len(f) + p] = s[p]
<1> DEFINE t == SubSeq(s, 1, n)
           g == f \o t
<1>0. Len(s) \in Nat /\ Len(f) \in Nat /\ n \in Nat
  OBVIOUS
<1>1. t \in Seq(Cells) /\ Len(t) = n /\ \A p \in 1 .. n : t[p] = s[p]
  BY PrefixIs
<1> HIDE DEF t
<1>2. /\ g \in Seq(Cells) /\ Len(g) = Len(f) + Len(t)
      /\ \A i \in 1 .. Len(f) + Len(t) : g[i] = IF i <= Len(f) THEN f[i] ELSE t[i - Len(f)]
  BY <1>1, ConcatProperties
<1> HIDE DEF g
<1>3. ASSUME NEW p \in 1 .. Len(f) PROVE g[p] = f[p]
  BY <1>0, <1>1, <1>2
<1>4. ASSUME NEW p \in 1 .. n PROVE g[Len(f) + p] = s[p]
  <2>1. Len(f) + p \in 1 .. Len(f) + Len(t) /\ ~(Len(f) + p <= Len(f)) /\ (Len(f) + p) - Len(f) = p
    BY <1>0, <1>1
  <2>2. g[Len(f) + p] = t[p]
    BY <1>2, <2>1
  <2> QED  BY <1>1, <2>2
<1> QED  BY <1>1, <1>2, <1>3, <1>4 DEF g, t

\* The first cells of a file decide whether its header is there.
LEMMA HeaderStays ==
    ASSUME NEW f \in Seq(Cells), NEW g \in Seq(Cells), HeaderAt(f), Len(g) >= 2,
           \A p \in 1 .. 2 : g[p] = f[p]
    PROVE  HeaderAt(g)
BY DEF HeaderAt, FILE_HEADER_LEN

LEMMA AppendW ==
    ASSUME WInv, NEW kind \in Kinds, NEW kl \in KeyLens, NEW vl \in ValueLens, append(kind, kl, vl)
    PROVE  WInv'
<1> DEFINE r == Record(kind, kl, vl, ops + 1)
           whole == Len(encode(r))
<1>0. /\ TypeOK /\ FileInv /\ AckedInv /\ ReaderInv /\ pc = "Up" /\ HeaderAt(file) /\ Layout(log, file)
      /\ Named(log, ops) /\ Kept(log, acked, synced) /\ ops' = ops + 1 /\ Encodable(kind, kl, vl)
      /\ UNCHANGED <<pc, exists, synced, offset, out, acked, crashes>>
  BY DEF WInv, append, FileInv, AckedInv, reader
<1>1. /\ r \in Records /\ r.id = ops' /\ ops \in Nat /\ ops' \in Nat /\ r # NoRecord
      /\ r.kind = kind /\ r.key_len = kl /\ r.value_len = vl
  BY <1>0, WalAssumption DEF Record, Records, TypeOK, NoRecord, Kinds
<1>2. PICK n \in 0 .. whole :
         /\ file' = file \o SubSeq(encode(r), 1, n)
         /\ fails' = IF n = whole THEN fails ELSE fails + 1
         /\ log' = IF n = 0 THEN log
                   ELSE Append(log, [rec |-> r, at |-> Len(file), size |-> n, ok |-> n = whole])
  BY DEF append
<1> HIDE DEF r
<1>3. encode(r) \in Seq(Cells) /\ whole \in Nat /\ whole = Whole(r) /\ n \in Nat /\ n <= whole
  BY <1>1, EncodeIs
<1>4. file \in Seq(Cells) /\ Len(file) \in Nat /\ log \in Seq(Chunks) /\ Len(log) \in Nat /\ synced \in 0 .. Len(file)
      /\ fails \in Nat
  BY <1>0 DEF TypeOK
<1>5. /\ file' \in Seq(Cells) /\ Len(file') = Len(file) + n
      /\ \A p \in 1 .. Len(file) : file'[p] = file[p]
      /\ \A p \in 1 .. n : file'[Len(file) + p] = encode(r)[p]
  BY <1>2, <1>3, <1>4, PrefixOf
<1>6. fails' \in Nat
  BY <1>2, <1>4
<1>7. HeaderAt(file')
  <2>1. Len(file) >= 2
    BY <1>0 DEF HeaderAt, FILE_HEADER_LEN
  <2>2. Len(file') >= 2
    BY <1>3, <1>4, <1>5, <2>1
  <2>3. \A p \in 1 .. 2 : p \in 1 .. Len(file)
    BY <1>4, <2>1
  <2>4. \A p \in 1 .. 2 : file'[p] = file[p]
    BY <1>5, <2>3
  <2> QED  BY <1>0, <1>4, <1>5, <2>2, <2>4, HeaderStays
<1>8. /\ log' \in Seq(Chunks) /\ Layout(log', file') /\ Named(log', ops')
      /\ Len(log') \in Nat /\ Len(log) <= Len(log') /\ \A i \in 1 .. Len(log) : log'[i] = log[i]
  <2>1. CASE n = 0
    <3>1. log' = log
      BY <1>2, <2>1
    <3>2. file' = file
      <4>1. Len(file') = Len(file)
        BY <1>4, <1>5, <2>1
      <4> QED  BY <1>4, <1>5, <4>1, SeqEqual
    <3>3. Named(log, ops')
      <4> SUFFICES ASSUME NEW i \in 1 .. Len(log) PROVE log[i].rec.id <= ops'
        BY DEF Named
      <4>1. log[i].rec.id <= ops /\ log[i].rec.id \in Nat
        <5>1. log[i] \in Chunks
          BY <1>4, ChunkFields
        <5>2. log[i].rec \in Records \cup {NoRecord}
          BY <5>1 DEF Chunks
        <5> QED  BY <1>0, <5>2 DEF Named, Records, NoRecord
      <4> QED  BY <1>0, <1>1, <4>1
    <3> QED  BY <1>0, <1>4, <3>1, <3>2, <3>3
  <2>2. CASE n # 0
    <3> DEFINE whl == (n = whole)
               c == [rec |-> r, at |-> Len(file), size |-> n, ok |-> whl]
    <3>1. log' = Append(log, c)
      BY <1>2, <2>2
    <3>2. whl \in BOOLEAN
      OBVIOUS
    <3>3. c \in Chunks
      <4> HIDE DEF whl
      <4> QED  BY <1>1, <1>3, <1>4, <3>2 DEF Chunks
    <3>4. c.rec = r /\ c.at = Len(file) /\ c.size = n
      OBVIOUS
    <3>5. c.ok <=> n = whole
      BY Zenon
    <3> HIDE DEF c, whl
    <3>6. RecordIn(c, file')
      <4>1. Encodable(c.rec.kind, c.rec.key_len, c.rec.value_len)
        BY <1>0, <1>1, <3>4
      <4>2. c.size <= Whole(c.rec) /\ (c.ok <=> c.size = Whole(c.rec))
        BY <1>3, <3>4, <3>5
      <4>3. \A p \in 1 .. c.size : file'[c.at + p] = encode(c.rec)[p]
        BY <1>5, <3>4
      <4> QED  BY <1>1, <3>4, <4>1, <4>2, <4>3 DEF RecordIn
    <3>7. ChunkIn(c, file')
      <4>1. c.size > 0 /\ c.at >= FILE_HEADER_LEN /\ c.at + c.size <= Len(file')
        BY <1>0, <1>3, <1>4, <1>5, <2>2, <3>4 DEF HeaderAt
      <4> QED  BY <3>6, <4>1 DEF ChunkIn
    <3>8. \A i \in 1 .. Len(log) : log[i].rec.id <= ops /\ log[i].rec.id \in Nat /\ log[i].rec # c.rec
      <4> SUFFICES ASSUME NEW i \in 1 .. Len(log)
                   PROVE  log[i].rec.id <= ops /\ log[i].rec.id \in Nat /\ log[i].rec # c.rec
        OBVIOUS
      <4>1. log[i] \in Chunks
        BY <1>4, ChunkFields
      <4>2. log[i].rec \in Records \cup {NoRecord}
        BY <4>1 DEF Chunks
      <4>3. log[i].rec.id <= ops /\ log[i].rec.id \in Nat
        BY <1>0, <4>2 DEF Named, Records, NoRecord
      <4> QED  BY <1>0, <1>1, <3>4, <4>3
    <3>9. Append(log, c) \in Seq(Chunks) /\ Layout(Append(log, c), file')
      <4>1. Len(file') = Len(file) + c.size
        BY <1>5, <3>4
      <4> QED  BY <1>0, <1>4, <1>5, <3>3, <3>4, <3>7, <3>8, <4>1, LayoutAppend
    <3>10. /\ Len(log') = Len(log) + 1 /\ log'[Len(log) + 1] = c
           /\ \A i \in 1 .. Len(log) : log'[i] = log[i]
      BY <1>4, <3>1, <3>3, AppendProperties
    <3>11. Named(log', ops')
      <4> SUFFICES ASSUME NEW i \in 1 .. Len(log) + 1 PROVE log'[i].rec.id <= ops'
        BY <3>10 DEF Named
      <4>1. CASE i = Len(log) + 1
        BY <1>1, <3>4, <3>10, <4>1
      <4>2. CASE i \in 1 .. Len(log)
        BY <1>0, <1>1, <3>8, <3>10, <4>2
      <4> QED  BY <1>4, <4>1, <4>2
    <3> QED  BY <1>4, <3>1, <3>9, <3>10, <3>11
  <2> QED  BY <2>1, <2>2
<1>9. TypeOK'
  <2>1. synced' \in 0 .. Len(file')
    BY <1>0, <1>3, <1>4, <1>5
  <2> QED  BY <1>0, <1>1, <1>5, <1>6, <1>8, <2>1 DEF TypeOK, Steps
<1>10. FileInv'
  BY <1>0, <1>7, <1>8 DEF FileInv
<1>11. AckedInv'
  <2>1. Kept(log', acked, synced)
    <3> SUFFICES ASSUME NEW x \in acked
                 PROVE  \E i \in 1 .. Len(log') : log'[i].ok /\ log'[i].rec = x
                                                  /\ log'[i].at + log'[i].size <= synced
      BY DEF Kept
    <3>1. PICK i \in 1 .. Len(log) : log[i].ok /\ log[i].rec = x /\ log[i].at + log[i].size <= synced
      BY <1>0 DEF Kept
    <3>2. i \in 1 .. Len(log') /\ log'[i] = log[i]
      BY <1>4, <1>8
    <3> QED  BY <3>1, <3>2
  <2> QED  BY <1>0, <2>1 DEF AckedInv
<1>12. ReaderInv'
  BY <1>0 DEF ReaderInv
<1> QED  BY <1>9, <1>10, <1>11, <1>12 DEF WInv

LEMMA SyncW == ASSUME WInv, sync PROVE WInv'
<1>0. /\ TypeOK /\ FileInv /\ AckedInv /\ ReaderInv /\ pc = "Up" /\ HeaderAt(file) /\ Layout(log, file)
      /\ Kept(log, acked, synced) /\ synced' = Len(file)
      /\ UNCHANGED <<pc, exists, file, offset, out, log, ops, crashes, fails>>
      /\ acked' = acked \cup {log[i].rec : i \in {j \in DOMAIN log : log[j].ok}}
  BY DEF WInv, sync, FileInv, AckedInv, reader, bounds, SyncedLen
<1>1. /\ file \in Seq(Cells) /\ Len(file) \in Nat /\ log \in Seq(Chunks) /\ Len(log) \in Nat
      /\ DOMAIN log = 1 .. Len(log) /\ synced \in 0 .. Len(file) /\ acked \subseteq Records
  BY <1>0, LenProperties DEF TypeOK
<1>2. ASSUME NEW i \in 1 .. Len(log), log[i].ok
      PROVE  log[i].rec \in Records /\ log[i].at + log[i].size <= Len(file)
  BY <1>0, <1>2 DEF Layout, ChunkIn, RecordIn, ZerosIn
<1>3. TypeOK'
  BY <1>0, <1>1, <1>2 DEF TypeOK, Steps
<1>4. FileInv'
  BY <1>0 DEF FileInv
<1>5. AckedInv'
  <2> SUFFICES ASSUME NEW x \in acked'
               PROVE  \E i \in 1 .. Len(log) : log[i].ok /\ log[i].rec = x
                                               /\ log[i].at + log[i].size <= Len(file)
    BY <1>0 DEF AckedInv, Kept
  <2>1. CASE x \in acked
    BY <1>0, <1>2, <2>1 DEF Kept
  <2>2. CASE x \notin acked
    <3>1. PICK i \in 1 .. Len(log) : log[i].ok /\ x = log[i].rec
      BY <1>0, <1>1, <2>2
    <3> QED  BY <1>2, <3>1
  <2> QED  BY <2>1, <2>2
<1>6. ReaderInv'
  BY <1>0 DEF ReaderInv
<1> QED  BY <1>3, <1>4, <1>5, <1>6 DEF WInv

\* The records in front of the cut are still there.
LEMMA CutKeeps ==
    ASSUME NEW l \in Seq(Chunks), NEW f \in Seq(Cells), Layout(l, f) \/ l = <<>>, NEW n \in Nat
    PROVE  /\ Cut(l, n) \in Seq(Chunks) /\ Len(Cut(l, n)) \in 0 .. Len(l)
           /\ \A i \in 1 .. Len(Cut(l, n)) : i \in 1 .. Len(l) /\ Cut(l, n)[i].rec = l[i].rec
           /\ \A i \in 1 .. Len(l) : l[i].at + l[i].size <= n =>
                 i \in 1 .. Len(Cut(l, n)) /\ Cut(l, n)[i] = l[i]
<1>0. Len(l) \in Nat /\ \A i \in 1 .. Len(l) : l[i] \in Chunks /\ l[i].at \in Nat /\ l[i].size \in Nat
  <2>1. \A i \in 1 .. Len(l) : l[i] \in Chunks /\ l[i].at \in Nat /\ l[i].size \in Nat
    BY ChunkFields
  <2> QED  BY <2>1
<1>1. \A i \in 1 .. Len(l) : l[i].size > 0
  BY DEF Layout, ChunkIn
<1>2. \A i, j \in 1 .. Len(l) : i < j => l[i].at <= l[j].at
  <2> SUFFICES ASSUME NEW i \in 1 .. Len(l), NEW j \in 1 .. Len(l), i < j PROVE l[i].at <= l[j].at
    OBVIOUS
  <2>1. l[i].at + l[i].size <= l[j].at
    BY DEF Layout
  <2> QED  BY <1>0, <2>1
<1>3. PICK m \in 0 .. Len(l) :
         /\ Cut(l, n) \in Seq(Chunks) /\ Len(Cut(l, n)) = m
         /\ \A i \in 1 .. m : Cut(l, n)[i] = CutChunk(l[i], n) /\ l[i].at < n
         /\ \A i \in 1 .. Len(l) : i > m => l[i].at >= n
  BY <1>1, <1>2, CutIs
<1>4. ASSUME NEW i \in 1 .. m PROVE i \in 1 .. Len(l) /\ Cut(l, n)[i].rec = l[i].rec
  <2>1. i \in 1 .. Len(l)
    BY <1>0
  <2>2. l[i] \in Chunks /\ l[i].at < n /\ l[i].size > 0
    BY <1>0, <1>1, <1>3, <2>1
  <2>3. CutChunk(l[i], n).rec = l[i].rec
    BY <2>2, CutChunkIs
  <2> QED  BY <1>3, <2>1, <2>3
<1>5. ASSUME NEW i \in 1 .. Len(l), l[i].at + l[i].size <= n
      PROVE  i \in 1 .. m /\ Cut(l, n)[i] = l[i]
  <2>1. l[i] \in Chunks /\ l[i].at < n /\ l[i].size > 0
    BY <1>0, <1>1, <1>5
  <2>2. ~(i > m)
    BY <1>0, <1>3, <2>1
  <2>3. i \in 1 .. m
    BY <1>0, <2>2
  <2>4. CutChunk(l[i], n) = l[i]
    BY <1>5, <2>1, CutChunkIs
  <2> QED  BY <1>3, <2>3, <2>4
<1> QED  BY <1>3, <1>4, <1>5

\* The unsynced tail is gone.
LEMMA CutW ==
    ASSUME WInv, pc \notin {"Down", "Corrupt"}, NEW n \in synced .. Len(file)
    PROVE  LET g == SubSeq(file, 1, n)
               l == Cut(log, n)
           IN  /\ g \in Seq(Cells) /\ Len(g) = n /\ l \in Seq(Chunks) /\ Named(l, ops)
               /\ HeaderAt(g) => HeaderAt(file) /\ Layout(l, g) /\ Kept(l, acked, n)
<1> DEFINE g == SubSeq(file, 1, n)
           l == Cut(log, n)
<1>0. /\ TypeOK /\ FileInv /\ AckedInv /\ n \in Nat /\ n <= Len(file) /\ synced <= n /\ synced \in Nat
      /\ file \in Seq(Cells) /\ Len(file) \in Nat /\ log \in Seq(Chunks) /\ Len(log) \in Nat
  BY DEF WInv, TypeOK
<1>1. Layout(log, file) \/ log = <<>>
  BY <1>0 DEF FileInv, TypeOK, Steps
<1>2. g \in Seq(Cells) /\ Len(g) = n /\ \A p \in 1 .. n : g[p] = file[p]
  BY <1>0, PrefixIs
<1>3. /\ l \in Seq(Chunks) /\ Len(l) \in 0 .. Len(log)
      /\ \A i \in 1 .. Len(l) : i \in 1 .. Len(log) /\ l[i].rec = log[i].rec
      /\ \A i \in 1 .. Len(log) : log[i].at + log[i].size <= n => i \in 1 .. Len(l) /\ l[i] = log[i]
  BY <1>0, <1>1, CutKeeps
<1> HIDE DEF g, l
<1>4. Named(l, ops)
  BY <1>0, <1>3 DEF Named, FileInv
<1>5. ASSUME HeaderAt(g) PROVE HeaderAt(file) /\ Layout(l, g) /\ Kept(l, acked, n)
  <2>1. n >= 2 /\ FILE_HEADER_LEN = 2
    BY <1>2, <1>5 DEF HeaderAt, FILE_HEADER_LEN
  <2>2. HeaderAt(file)
    <3>1. g[1] = file[1] /\ g[2] = file[2] /\ Len(file) >= 2
      BY <1>0, <1>2, <2>1
    <3> QED  BY <1>5, <3>1 DEF HeaderAt, FILE_HEADER_LEN
  <2>3. Layout(log, file) /\ Kept(log, acked, synced)
    BY <1>0, <2>2 DEF FileInv, AckedInv
  <2>4. Layout(l, g)
    <3>1. n \in FILE_HEADER_LEN .. Len(file)
      BY <1>0, <2>1
    <3> QED  BY <1>0, <1>2, <2>3, <3>1, LayoutCut DEF l
  <2>5. Kept(l, acked, n)
    <3> SUFFICES ASSUME NEW x \in acked
                 PROVE  \E i \in 1 .. Len(l) : l[i].ok /\ l[i].rec = x /\ l[i].at + l[i].size <= n
      BY DEF Kept
    <3>1. PICK i \in 1 .. Len(log) : log[i].ok /\ log[i].rec = x /\ log[i].at + log[i].size <= synced
      BY <2>3 DEF Kept
    <3>2. log[i].at + log[i].size <= n
      <4>1. log[i].at \in Nat /\ log[i].size \in Nat
        BY <1>0, ChunkFields
      <4> QED  BY <1>0, <3>1, <4>1
    <3>3. i \in 1 .. Len(l) /\ l[i] = log[i]
      BY <1>3, <3>2
    <3> QED  BY <3>1, <3>2, <3>3
  <2> QED  BY <2>2, <2>4, <2>5
<1> QED  BY <1>2, <1>3, <1>4, <1>5 DEF g, l

\* The unsynced tail, or a part of it, reads as zeros.
LEMMA ZeroW ==
    ASSUME WInv, pc \notin {"Down", "Corrupt"}, NEW n \in synced .. Len(file) - 1
    PROVE  LET z == Len(file) - n
               g == SubSeq(file, 1, n) \o Zeros(z)
               l == Append(Cut(log, n), ZeroChunk(n, z))
           IN  /\ g \in Seq(Cells) /\ l \in Seq(Chunks) /\ Named(l, ops)
               /\ HeaderAt(g) => Layout(l, g) /\ Kept(l, acked, Len(g))
<1> DEFINE z == Len(file) - n
           b == SubSeq(file, 1, n)
           k == Cut(log, n)
           c == ZeroChunk(n, z)
           zs == Zeros(z)
           g == b \o zs
           l == Append(k, c)
<1>0. /\ TypeOK /\ n \in Nat /\ n < Len(file) /\ n \in synced .. Len(file) /\ file \in Seq(Cells)
      /\ Len(file) \in Nat /\ synced \in Nat /\ ops \in Nat
  BY DEF WInv, TypeOK
<1>1. /\ b \in Seq(Cells) /\ Len(b) = n /\ k \in Seq(Chunks) /\ Named(k, ops)
      /\ HeaderAt(b) => HeaderAt(file) /\ Layout(k, b) /\ Kept(k, acked, n)
  BY <1>0, CutW
<1>2. z \in Nat /\ z > 0 /\ n + z = Len(file)
  BY <1>0
<1> HIDE DEF z, b, k
<1>3. Cell("zero", NoRecord, 0) \in Cells /\ Cell("zero", NoRecord, 0).type = "zero"
  BY DEF Cell, Cells
<1>4. zs \in Seq(Cells) /\ Len(zs) = z /\ \A p \in 1 .. z : zs[p] = Cell("zero", NoRecord, 0)
  <2>1. zs = [i \in 1 .. z |-> Cell("zero", NoRecord, 0)]
    BY DEF Zeros
  <2>2. zs \in [1 .. z -> Cells]
    BY <1>3, <2>1
  <2> QED  BY <1>2, <2>1, <2>2
<1> HIDE DEF zs
<1>5. /\ g \in Seq(Cells) /\ Len(g) = n + z
      /\ \A i \in 1 .. n + z : g[i] = IF i <= n THEN b[i] ELSE zs[i - n]
  <2>1. /\ g \in Seq(Cells) /\ Len(g) = Len(b) + Len(zs)
        /\ \A i \in 1 .. Len(b) + Len(zs) : g[i] = IF i <= Len(b) THEN b[i] ELSE zs[i - Len(b)]
    BY <1>1, <1>4, ConcatProperties
  <2> QED  BY <1>1, <1>4, <2>1
<1> HIDE DEF g
<1>6. \A p \in 1 .. n : g[p] = b[p]
  BY <1>0, <1>2, <1>5
<1>7. \A p \in 1 .. z : g[n + p] = Cell("zero", NoRecord, 0)
  <2> SUFFICES ASSUME NEW p \in 1 .. z PROVE g[n + p] = Cell("zero", NoRecord, 0)
    OBVIOUS
  <2>1. n + p \in 1 .. n + z /\ ~(n + p <= n) /\ (n + p) - n = p
    BY <1>0, <1>2
  <2> QED  BY <1>4, <1>5, <2>1
<1>8. c \in Chunks /\ c.rec = NoRecord /\ c.at = n /\ c.size = z
  BY <1>0, <1>2 DEF ZeroChunk, Chunks
<1>9. ~c.ok
  BY DEF ZeroChunk
<1> HIDE DEF c
<1>10. /\ l \in Seq(Chunks) /\ Len(l) = Len(k) + 1 /\ l[Len(k) + 1] = c
       /\ \A i \in 1 .. Len(k) : l[i] = k[i]
  BY <1>1, <1>8, AppendProperties
<1>11. Len(k) \in Nat
  BY <1>1
<1>12. Named(l, ops)
  <2> SUFFICES ASSUME NEW i \in 1 .. Len(k) + 1 PROVE l[i].rec.id <= ops
    BY <1>10 DEF Named
  <2>1. CASE i = Len(k) + 1
    BY <1>0, <1>8, <1>10, <2>1 DEF NoRecord
  <2>2. CASE i \in 1 .. Len(k)
    BY <1>1, <1>10, <2>2 DEF Named
  <2> QED  BY <1>11, <2>1, <2>2
<1>13. ASSUME HeaderAt(g) PROVE Layout(l, g) /\ Kept(l, acked, Len(g))
  <2>1. n >= 2
    <3> SUFFICES ASSUME n < 2 PROVE FALSE
      BY <1>0
    <3>1. 1 \in 1 .. z /\ n + 1 \in {1, 2}
      BY <1>0, <1>2
    <3>2. g[n + 1].type = "zero"
      BY <1>3, <1>7, <3>1
    <3>3. g[n + 1] \in {Header[1], Header[2]}
      BY <1>13, <3>1 DEF HeaderAt
    <3> QED  BY <3>2, <3>3, HeaderIs
  <2>2. HeaderAt(b)
    <3>1. Len(b) >= 2 /\ b[1] = g[1] /\ b[2] = g[2]
      BY <1>0, <1>1, <1>6, <2>1
    <3> QED  BY <1>13, <3>1 DEF HeaderAt, FILE_HEADER_LEN
  <2>3. Layout(k, b) /\ Kept(k, acked, n)
    BY <1>1, <2>2
  <2>4. ChunkIn(c, g)
    <3>1. ZerosIn(c, g)
      BY <1>7, <1>8, <1>9 DEF ZerosIn
    <3>2. c.size > 0 /\ c.at >= FILE_HEADER_LEN /\ c.at + c.size <= Len(g)
      BY <1>0, <1>2, <1>5, <1>8, <2>1 DEF FILE_HEADER_LEN
    <3> QED  BY <3>1, <3>2 DEF ChunkIn
  <2>5. Layout(l, g)
    <3>1. c.at = Len(b) /\ Len(g) = Len(b) + c.size /\ \A p \in 1 .. Len(b) : g[p] = b[p]
      BY <1>1, <1>5, <1>6, <1>8
    <3> QED  BY <1>1, <1>5, <1>8, <2>3, <2>4, <3>1, LayoutAppend
  <2>6. Kept(l, acked, Len(g))
    <3> SUFFICES ASSUME NEW x \in acked
                 PROVE  \E i \in 1 .. Len(l) : l[i].ok /\ l[i].rec = x /\ l[i].at + l[i].size <= Len(g)
      BY DEF Kept
    <3>1. PICK i \in 1 .. Len(k) : k[i].ok /\ k[i].rec = x /\ k[i].at + k[i].size <= n
      BY <2>3 DEF Kept
    <3>2. k[i].at + k[i].size <= Len(g)
      <4>1. k[i].at \in Nat /\ k[i].size \in Nat
        BY <1>1, ChunkFields
      <4> QED  BY <1>0, <1>2, <1>5, <3>1, <4>1
    <3>3. i \in 1 .. Len(l) /\ l[i] = k[i]
      BY <1>10, <1>11
    <3> QED  BY <3>1, <3>2, <3>3
  <2> QED  BY <2>5, <2>6
<1> QED  BY <1>5, <1>10, <1>12, <1>13 DEF g, zs, b, c, k, z

\* What a crash leaves: a file, perhaps none, in which the acknowledged
\* records are where they were.
LeftBehind(e, f, l) ==
    /\ f \in Seq(Cells) /\ l \in Seq(Chunks) /\ Named(l, ops)
    /\ HeaderAt(f) => Layout(l, f) /\ Kept(l, acked, Len(f))
    /\ e \in BOOLEAN
    /\ ~e => f = <<>> /\ l = <<>> /\ acked = {}

LEMMA CrashW == ASSUME WInv, Crash PROVE WInv'
<1>0. /\ TypeOK /\ FileInv /\ pc \notin {"Down", "Corrupt"} /\ crashes' = crashes + 1 /\ pc' = "Down"
      /\ offset' = 0 /\ out' = <<>> /\ synced' = Len(file') /\ UNCHANGED <<acked, ops, fails>>
  BY DEF WInv, Crash, Dies, Goto
<1>1. exists
  BY <1>0 DEF FileInv
<1>2. LeftBehind(exists', file', log')
  <2>1. ASSUME NEW n \in synced .. Len(file), file' = SubSeq(file, 1, n), log' = CutLog(n), UNCHANGED exists
        PROVE  LeftBehind(exists', file', log')
    <3>1. log' = Cut(log, n)
      BY <2>1 DEF CutLog, Cut, CutChunk
    <3>2. /\ file' \in Seq(Cells) /\ Len(file') = n /\ log' \in Seq(Chunks) /\ Named(log', ops)
          /\ HeaderAt(file') => Layout(log', file') /\ Kept(log', acked, n)
      BY <1>0, <2>1, <3>1, CutW
    <3> QED  BY <1>1, <2>1, <3>2 DEF LeftBehind
  <2>2. ASSUME NEW n \in synced .. Len(file) - 1, UNCHANGED exists,
               file' = SubSeq(file, 1, n) \o Zeros(Len(file) - n),
               log' = Append(CutLog(n), ZeroChunk(n, Len(file) - n))
        PROVE  LeftBehind(exists', file', log')
    <3>1. CutLog(n) = Cut(log, n)
      BY DEF CutLog, Cut, CutChunk
    <3>2. log' = Append(Cut(log, n), ZeroChunk(n, Len(file) - n))
      BY <2>2, <3>1
    <3>3. /\ file' \in Seq(Cells) /\ log' \in Seq(Chunks) /\ Named(log', ops)
          /\ HeaderAt(file') => Layout(log', file') /\ Kept(log', acked, Len(file'))
      BY <1>0, <2>2, <3>2, ZeroW
    <3> QED  BY <1>1, <2>2, <3>3 DEF LeftBehind
  <2>3. ASSUME pc \in {"Header", "HeaderSync", "HeaderDir"}, exists' = FALSE, file' = <<>>, log' = <<>>
        PROVE  LeftBehind(exists', file', log')
    <3>1. acked = {}
      BY <1>0, <2>3 DEF FileInv
    <3>2. file' \in Seq(Cells) /\ log' \in Seq(Chunks) /\ Len(file') = 0 /\ Len(log') = 0
      BY <2>3
    <3>3. ~HeaderAt(file') /\ Named(log', ops)
      BY <3>2 DEF HeaderAt, Named, FILE_HEADER_LEN
    <3> QED  BY <2>3, <3>1, <3>2, <3>3 DEF LeftBehind
  <2>4. CASE \E n \in synced .. Len(file) :
               file' = SubSeq(file, 1, n) /\ log' = CutLog(n) /\ UNCHANGED exists
    BY <2>1, <2>4
  <2>5. CASE \E n \in synced .. Len(file) - 1 :
               /\ file' = SubSeq(file, 1, n) \o Zeros(Len(file) - n)
               /\ log' = Append(CutLog(n), ZeroChunk(n, Len(file) - n)) /\ UNCHANGED exists
    BY <2>2, <2>5
  <2>6. CASE pc \in {"Header", "HeaderSync", "HeaderDir"} /\ exists' = FALSE /\ file' = <<>> /\ log' = <<>>
    BY <2>3, <2>6
  <2> QED  BY <2>4, <2>5, <2>6 DEF Crash
<1>3. TypeOK'
  <2>1. synced' \in 0 .. Len(file')
    BY <1>0, <1>2 DEF LeftBehind
  <2> QED  BY <1>0, <1>2, <2>1 DEF LeftBehind, TypeOK, Steps
<1>4. FileInv'
  BY <1>0, <1>2 DEF LeftBehind, FileInv
<1>5. AckedInv'
  BY <1>0, <1>2 DEF LeftBehind, AckedInv
<1>6. ReaderInv'
  BY <1>0 DEF ReaderInv
<1> QED  BY <1>3, <1>4, <1>5, <1>6 DEF WInv

LEMMA KillW == ASSUME WInv, Kill PROVE WInv'
<1>0. /\ TypeOK /\ FileInv /\ AckedInv /\ pc' = "Down" /\ crashes' = crashes + 1
      /\ pc \notin {"Down", "Corrupt"} /\ offset' = 0 /\ out' = <<>>
      /\ UNCHANGED <<exists, file, synced, log, acked, ops, fails>>
  BY DEF WInv, Kill, Dies, Goto, disk
<1>1. TypeOK'
  BY <1>0 DEF TypeOK, Steps
<1>2. FileInv'
  BY <1>0 DEF FileInv
<1>3. AckedInv'
  BY <1>0 DEF AckedInv
<1>4. ReaderInv'
  BY <1>0 DEF ReaderInv
<1> QED  BY <1>1, <1>2, <1>3, <1>4 DEF WInv

LEMMA HeaderValidIs ==
    ASSUME file \in Seq(Cells)
    PROVE  HeaderValid <=> HeaderAt(file)
<1>1. CASE Len(file) >= 2
  <2>1. SubSeq(file, 1, 2) \in Seq(Cells) /\ Len(SubSeq(file, 1, 2)) = 2
        /\ \A p \in 1 .. 2 : SubSeq(file, 1, 2)[p] = file[p]
    BY <1>1, PrefixIs
  <2> DEFINE s == SubSeq(file, 1, 2)
  <2>2. s = Header <=> \A p \in 1 .. 2 : s[p] = Header[p]
    <3> HIDE DEF s
    <3>1. s \in Seq(Cells) /\ Len(s) = Len(Header)
      BY <2>1, HeaderIs DEF s
    <3> QED  BY <3>1, HeaderIs, SeqEqual
  <2> QED  BY <1>1, <2>1, <2>2 DEF HeaderValid, HeaderAt, FILE_HEADER_LEN
<1>2. CASE ~(Len(file) >= 2)
  BY <1>2 DEF HeaderValid, HeaderAt, FILE_HEADER_LEN
<1> QED  BY <1>1, <1>2

LEMMA OpenReaderW == ASSUME WInv, OpenReader PROVE WInv'
<1>0. /\ TypeOK /\ FileInv /\ AckedInv /\ exists /\ offset' = 2 /\ out' = <<>>
      /\ pc' = IF HeaderAt(file) THEN "Reading" ELSE "Corrupt"
      /\ UNCHANGED <<exists, file, synced, log, acked, ops, crashes, fails>>
  BY HeaderValidIs DEF WInv, OpenReader, Goto, TypeOK, FILE_HEADER_LEN, disk, ghosts, bounds
<1>1. log \in Seq(Chunks) /\ Len(log) \in Nat /\ out' \in Seq(Records) /\ Len(out') = 0
  BY <1>0 DEF TypeOK
<1>2. TypeOK'
  <2>1. pc' \in {"Reading", "Done"} => offset' <= Len(file)
    BY <1>0 DEF HeaderAt, FILE_HEADER_LEN
  <2> QED  BY <1>0, <1>1, <2>1 DEF TypeOK, Steps
<1>3. FileInv'
  BY <1>0 DEF FileInv
<1>4. AckedInv'
  BY <1>0 DEF AckedInv
<1>5. ReaderInv'
  <2>1. ReadTo(log, out') /\ offset' = Position(log, Len(out') + 1)
    BY <1>0, <1>1 DEF ReadTo, Position, FILE_HEADER_LEN
  <2> QED  BY <1>0, <2>1 DEF ReaderInv
<1> QED  BY <1>2, <1>3, <1>4, <1>5 DEF WInv

-----------------------------------------------------------------------------
(* The reader                                                              *)

\* The lengths and checks decode goes through before it looks at the CRC.
LEMMA DecodeLengths ==
    ASSUME NEW off \in Nat, NEW kl \in Nat, NEW vl \in Nat, Len(file) \in Nat
    PROVE  /\ decode(off, kl, vl) = "Ok" => /\ off + (HEADER_LEN + kl + vl) <= Len(file)
                                            /\ CrcMatches(off, HEADER_LEN + kl + vl)
           /\ kl > 0 /\ WithinLimits(kl, vl) /\ off + (HEADER_LEN + kl + vl) > Len(file) =>
                 decode(off, kl, vl) = "Truncated"
<1> DEFINE e == kl = 0
           k == kl > 0
           w == WithinLimits(kl, vl)
           t == off + (HEADER_LEN + kl + vl) > Len(file)
           c == CrcMatches(off, HEADER_LEN + kl + vl)
           b == file[off + 2].type # "kind"
           d == IF file[off + 2].rec.kind = "Delete" /\ vl > 0 THEN "UnexpectedDeleteValue" ELSE "Ok"
           tail == CASE ~c -> "BadCrc" [] c /\ b -> "BadKind" [] OTHER -> d
           all == CASE e -> "EmptyKey" [] k /\ ~w -> "LengthExceedsMax"
                    [] k /\ w /\ t -> "Truncated" [] OTHER -> tail
<1>1. decode(off, kl, vl) = all
  BY Zenon DEF decode
<1>2. (e <=> ~k) /\ (~t => off + (HEADER_LEN + kl + vl) <= Len(file))
  BY DEF HEADER_LEN
<1> HIDE DEF e, k, w, t, c, b, d
<1>3. tail = "Ok" => c
  <2>1. CASE ~c
    <3>1. tail = "BadCrc"
      BY <2>1, Zenon
    <3> QED  BY <3>1
  <2> QED  BY <2>1
<1> HIDE DEF tail
<1>4. k /\ w /\ t => all = "Truncated"
  BY <1>2, Zenon
<1>5. all = "Ok" => ~t /\ c
  <2>1. CASE e
    <3>1. all = "EmptyKey"
      BY <1>2, <2>1, Zenon
    <3> QED  BY <3>1
  <2>2. CASE k /\ ~w
    <3>1. all = "LengthExceedsMax"
      BY <1>2, <2>2, Zenon
    <3> QED  BY <3>1
  <2>3. CASE k /\ w /\ t
    BY <1>4, <2>3
  <2>4. CASE ~e /\ ~(k /\ ~w) /\ ~(k /\ w /\ t)
    <3>1. all = tail
      BY <2>4, Zenon
    <3> QED  BY <1>2, <1>3, <2>4, <3>1
  <2> QED  BY <2>1, <2>2, <2>3, <2>4
<1> HIDE DEF all
<1>6. all = "Ok" => off + (HEADER_LEN + kl + vl) <= Len(file) /\ CrcMatches(off, HEADER_LEN + kl + vl)
  BY <1>2, <1>5 DEF c
<1> QED  BY <1>1, <1>4, <1>6 DEF k, w, t

LEMMA DecodeWhole ==
    ASSUME NEW off \in Nat, NEW kl \in Nat, NEW vl \in Nat, Len(file) \in Nat, kl > 0, WithinLimits(kl, vl),
           off + (HEADER_LEN + kl + vl) <= Len(file), CrcMatches(off, HEADER_LEN + kl + vl),
           file[off + 2].type = "kind", file[off + 2].rec.kind = "Delete" => vl = 0
    PROVE  decode(off, kl, vl) = "Ok"
<1> DEFINE e == kl = 0
           k == kl > 0
           w == WithinLimits(kl, vl)
           t == off + (HEADER_LEN + kl + vl) > Len(file)
           c == CrcMatches(off, HEADER_LEN + kl + vl)
           b == file[off + 2].type # "kind"
           d == file[off + 2].rec.kind = "Delete" /\ vl > 0
           tail == CASE ~c -> "BadCrc" [] c /\ b -> "BadKind"
                     [] OTHER -> IF d THEN "UnexpectedDeleteValue" ELSE "Ok"
           all == CASE e -> "EmptyKey" [] k /\ ~w -> "LengthExceedsMax"
                    [] k /\ w /\ t -> "Truncated" [] OTHER -> tail
<1>1. decode(off, kl, vl) = all
  BY Zenon DEF decode
<1>2. ~e /\ k /\ w /\ ~t /\ c /\ ~b /\ ~d
  BY DEF HEADER_LEN
<1> HIDE DEF e, k, w, t, c, b, d
<1>3. tail = "Ok"
  BY <1>2, Zenon
<1> HIDE DEF tail
<1>4. all = tail
  BY <1>2, Zenon
<1> QED  BY <1>1, <1>3, <1>4

\* A CRC matches exactly the cells it was computed from.
LEMMA CrcIs ==
    ASSUME file \in Seq(Cells), NEW r \in Records, NEW off \in Nat, NEW total \in Nat, total >= 4,
           off + total <= Len(file), file[off + 1] = encode(r)[1]
    PROVE  CrcMatches(off, total) <=>
              total = Whole(r) /\ \A p \in 1 .. total : file[off + p] = encode(r)[p]
<1> DEFINE s == SubSeq(file, off + 2, off + total)
           e == encode(r)
           t == Tail(e)
<1>1. /\ e \in Seq(Cells) /\ Len(e) = Whole(r) /\ Whole(r) \in Nat /\ Whole(r) >= 4
      /\ file[off + 1].type = "crc" /\ file[off + 1].rec = r
  <2>1. e \in Seq(Cells) /\ Len(e) = Whole(r) /\ Whole(r) \in Nat /\ Whole(r) >= 4
    BY EncodeIs DEF HEADER_LEN
  <2>2. file[off + 1] = Cell("crc", r, 0)
    BY EncodeIs
  <2> HIDE DEF e
  <2> QED  BY <2>1, <2>2 DEF Cell
<1>2. CrcMatches(off, total) <=> s = t
  BY <1>1 DEF CrcMatches
<1>3. /\ s \in Seq(Cells) /\ Len(s) = total - 1
      /\ \A i \in 1 .. total - 1 : s[i] = file[off + 1 + i]
  <2> DEFINE a == off + 2
             b == off + total
  <2>0. Len(file) \in Nat /\ a \in 1 .. Len(file) + 1 /\ b \in 0 .. Len(file) /\ a <= b /\ b - a + 1 = total - 1
    OBVIOUS
  <2>1. \A i \in 1 .. total - 1 : a + i - 1 = off + 1 + i
    OBVIOUS
  <2>2. \A i \in a .. b : file[i] \in Cells
    <3> SUFFICES ASSUME NEW i \in a .. b PROVE file[i] \in Cells
      OBVIOUS
    <3>1. i \in 1 .. Len(file)
      BY <2>0
    <3> QED  BY <3>1, ElementOfSeq
  <2> HIDE DEF a, b
  <2>3. /\ SubSeq(file, a, b) \in Seq(Cells)
        /\ Len(SubSeq(file, a, b)) = IF a <= b THEN b - a + 1 ELSE 0
        /\ \A i \in 1 .. b - a + 1 : SubSeq(file, a, b)[i] = file[a + i - 1]
    BY <2>0, <2>2, SubSeqProperties
  <2> QED  BY <2>0, <2>1, <2>3 DEF a, b
<1>4. /\ t \in Seq(Cells) /\ Len(t) = Whole(r) - 1
      /\ \A i \in 1 .. Whole(r) - 1 : t[i] = e[i + 1]
  <2> HIDE DEF e
  <2>1. e # <<>>
    BY <1>1
  <2>2. t \in Seq(Cells) /\ Len(t) = Len(e) - 1 /\ \A i \in 1 .. Len(t) : t[i] = e[i + 1]
    BY <1>1, <2>1, HeadTailProperties
  <2> QED  BY <1>1, <2>2
<1>5. s = t <=> Len(s) = Len(t) /\ \A i \in 1 .. Len(s) : s[i] = t[i]
  BY <1>3, <1>4, SeqEqual
<1> HIDE DEF s, t, e
<1>6. ASSUME s = t PROVE total = Whole(r) /\ \A p \in 1 .. total : file[off + p] = e[p]
  <2>1. total = Whole(r)
    BY <1>1, <1>3, <1>4, <1>6
  <2> SUFFICES ASSUME NEW p \in 1 .. total PROVE file[off + p] = e[p]
    BY <2>1
  <2>2. CASE p = 1
    BY <2>2 DEF e
  <2>3. CASE p # 1
    <3> DEFINE i == p - 1
    <3>1. i \in 1 .. total - 1 /\ off + 1 + i = off + p /\ i + 1 = p
      BY <2>3
    <3>2. s[i] = file[off + 1 + i] /\ t[i] = e[i + 1]
      BY <1>3, <1>4, <2>1, <3>1
    <3> QED  BY <1>6, <3>1, <3>2
  <2> QED  BY <2>2, <2>3
<1>7. ASSUME total = Whole(r), \A p \in 1 .. total : file[off + p] = e[p] PROVE s = t
  <2>1. Len(s) = Len(t)
    BY <1>3, <1>4, <1>7
  <2>2. ASSUME NEW i \in 1 .. total - 1 PROVE s[i] = t[i]
    <3>1. i + 1 \in 1 .. total /\ off + (i + 1) = off + 1 + i
      OBVIOUS
    <3>2. file[off + (i + 1)] = e[i + 1]
      BY <1>7, <3>1
    <3> QED  BY <1>3, <1>4, <1>7, <3>1, <3>2
  <2> QED  BY <1>3, <1>5, <2>1, <2>2
<1> QED  BY <1>2, <1>6, <1>7 DEF e

LEMMA LengthsAre ==
    ASSUME NEW cell \in Cells, NEW field, field # "zero", NEW max \in Nat
    PROVE  /\ Lengths(cell, field, max) \subseteq Nat
           /\ cell.type = field => Lengths(cell, field, max) = {cell.n}
<1> DEFINE f == cell.type = field
           z == cell.type = "zero"
           a == {cell.n}
           b == 0 .. max + 1
<1>1. Lengths(cell, field, max) = CASE f -> a [] z -> {0} [] OTHER -> b
  BY Zenon DEF Lengths
<1>2. a \subseteq Nat /\ b \subseteq Nat /\ {0} \subseteq Nat
  BY DEF Cells
<1>3. f => ~z
  OBVIOUS
<1> DEFINE r == CASE f -> a [] z -> {0} [] OTHER -> b
<1> HIDE DEF f, z, a, b
<1>4. r \in {a, {0}, b} \/ r = a
  BY Zenon
<1>5. f => r = a
  BY <1>3, Zenon
<1> HIDE DEF r
<1>6. r \subseteq Nat
  BY <1>2, <1>4
<1> QED  BY <1>1, <1>5, <1>6 DEF r, f, z, a

\* The chunk the reader stands at.
Here == log[Len(out) + 1]

LEMMA AtHere ==
    ASSUME WInv, pc = "Reading"
    PROVE  /\ file \in Seq(Cells) /\ Len(file) \in Nat /\ log \in Seq(Chunks) /\ Len(log) \in Nat
           /\ out \in Seq(Records) /\ Len(out) \in Nat /\ Len(out) <= Len(log) /\ offset \in Nat
           /\ HeaderAt(file) /\ Layout(log, file) /\ ReadTo(log, out)
           /\ Len(out) = Len(log) => offset = Len(file)
           /\ Len(out) < Len(log) => /\ Len(out) + 1 \in 1 .. Len(log) /\ Here \in Chunks /\ ChunkIn(Here, file)
                                     /\ Here.at = offset /\ Here.size \in Nat
           /\ Len(file) - offset >= 4 => /\ file[offset + 3] \in Cells /\ file[offset + 4] \in Cells
                                         /\ offset + 4 \in 1 .. Len(file)
<1>1. /\ file \in Seq(Cells) /\ Len(file) \in Nat /\ log \in Seq(Chunks) /\ Len(log) \in Nat
      /\ out \in Seq(Records) /\ Len(out) \in Nat /\ offset \in Nat
  BY DEF WInv, TypeOK
<1>2. /\ HeaderAt(file) /\ Layout(log, file) /\ ReadTo(log, out) /\ Len(out) <= Len(log)
      /\ offset = Position(log, Len(out) + 1)
  BY DEF WInv, FileInv, ReaderInv, ReadTo
<1>3. Len(out) = Len(log) => offset = Len(file)
  BY <1>2 DEF Layout
<1>4. ASSUME Len(out) < Len(log)
      PROVE  /\ Len(out) + 1 \in 1 .. Len(log) /\ Here \in Chunks /\ ChunkIn(Here, file)
             /\ Here.at = offset /\ Here.size \in Nat
  <2>1. Len(out) + 1 \in 1 .. Len(log)
    BY <1>1, <1>4
  <2> QED  BY <1>1, <1>2, <2>1, ChunkFields DEF Layout, Here
<1>5. ASSUME Len(file) - offset >= 4
      PROVE  /\ file[offset + 3] \in Cells /\ file[offset + 4] \in Cells
             /\ offset + 4 \in 1 .. Len(file)
  <2>1. offset + 3 \in 1 .. Len(file) /\ offset + 4 \in 1 .. Len(file)
    BY <1>1, <1>5
  <2> QED  BY <1>1, <2>1, ElementOfSeq
<1> QED  BY <1>1, <1>2, <1>3, <1>4, <1>5

\* A record that is wholly there has exact lengths.
LEMMA HereLengths ==
    ASSUME WInv, pc = "Reading", Len(out) < Len(log), RecordIn(Here, file), Here.size >= 4
    PROVE  /\ Lengths(file[offset + 3], "key_len", MAX_KEY_LEN) = {Here.rec.key_len}
           /\ Lengths(file[offset + 4], "value_len", MAX_VALUE_LEN) = {Here.rec.value_len}
           /\ file[offset + 1] = encode(Here.rec)[1] /\ file[offset + 2] = Cell("kind", Here.rec, 0)
           /\ Len(file) - offset >= 4
<1> DEFINE r == Here.rec
<1>1. r \in Records /\ offset \in Nat /\ Here.at = offset /\ Here.size \in Nat /\ Len(file) \in Nat
      /\ offset + Here.size <= Len(file)
  BY AtHere DEF RecordIn, ChunkIn
<1>2. \A p \in 1 .. 4 : file[offset + p] = encode(r)[p]
  BY <1>1 DEF RecordIn
<1>3. /\ file[offset + 1] = encode(r)[1] /\ file[offset + 2] = Cell("kind", r, 0)
      /\ file[offset + 3] = Cell("key_len", r, r.key_len)
      /\ file[offset + 4] = Cell("value_len", r, r.value_len)
  <2> HIDE DEF r
  <2>1. /\ file[offset + 1] = encode(r)[1] /\ file[offset + 2] = encode(r)[2]
        /\ file[offset + 3] = encode(r)[3] /\ file[offset + 4] = encode(r)[4]
    BY <1>2
  <2> QED  BY <1>1, <2>1, EncodeIs
<1>4. Len(file) - offset >= 4
  BY <1>1
<1>5. file[offset + 3] \in Cells /\ file[offset + 4] \in Cells
  BY <1>4, AtHere
<1> HIDE DEF r
<1>6. /\ file[offset + 3].type = "key_len" /\ file[offset + 3].n = r.key_len
      /\ file[offset + 4].type = "value_len" /\ file[offset + 4].n = r.value_len
  BY <1>3 DEF Cell
<1>7. Lengths(file[offset + 3], "key_len", MAX_KEY_LEN) = {r.key_len}
  BY <1>5, <1>6, LengthsAre, WalAssumption
<1>8. Lengths(file[offset + 4], "value_len", MAX_VALUE_LEN) = {r.value_len}
  BY <1>5, <1>6, LengthsAre, WalAssumption
<1> QED  BY <1>3, <1>4, <1>7, <1>8 DEF r

\* It decodes, to itself, and the reader moves on to the chunk behind it.
LEMMA ReadWhole ==
    ASSUME WInv, pc = "Reading", Len(out) < Len(log), Here.ok
    PROVE  LET r == Here.rec
           IN  /\ r \in Records /\ Len(file) - offset >= 4
               /\ Lengths(file[offset + 3], "key_len", MAX_KEY_LEN) = {r.key_len}
               /\ Lengths(file[offset + 4], "value_len", MAX_VALUE_LEN) = {r.value_len}
               /\ decode(offset, r.key_len, r.value_len) = "Ok" /\ file[offset + 1].rec = r
               /\ HEADER_LEN + r.key_len + r.value_len = Here.size
<1> DEFINE r == Here.rec
           kl == r.key_len
           vl == r.value_len
<1>1. RecordIn(Here, file) /\ offset \in Nat /\ Here.at = offset /\ Here.size \in Nat /\ Len(file) \in Nat
      /\ offset + Here.size <= Len(file) /\ file \in Seq(Cells)
  BY AtHere DEF ChunkIn, ZerosIn
<1>2. r \in Records /\ Whole(r) \in Nat /\ Whole(r) >= 4 /\ Here.size = Whole(r)
      /\ Encodable(r.kind, kl, vl) /\ kl \in Nat /\ vl \in Nat
      /\ \A p \in 1 .. Whole(r) : file[offset + p] = encode(r)[p]
  BY <1>1, EncodeIs DEF RecordIn, Records, HEADER_LEN
<1>3. /\ Lengths(file[offset + 3], "key_len", MAX_KEY_LEN) = {kl}
      /\ Lengths(file[offset + 4], "value_len", MAX_VALUE_LEN) = {vl}
      /\ file[offset + 1] = encode(r)[1] /\ file[offset + 2] = Cell("kind", r, 0)
      /\ Len(file) - offset >= 4
  BY <1>1, <1>2, HereLengths
<1> HIDE DEF r
<1>4. HEADER_LEN + kl + vl = Whole(r)
  BY DEF Whole
<1>5. CrcMatches(offset, Whole(r))
  BY <1>1, <1>2, <1>3, CrcIs
<1>6. file[offset + 2].type = "kind" /\ file[offset + 2].rec = r /\ file[offset + 1].rec = r
  <2>1. file[offset + 1] = Cell("crc", r, 0)
    BY <1>2, <1>3, EncodeIs
  <2> QED  BY <1>3, <2>1 DEF Cell
<1>7. kl > 0 /\ WithinLimits(kl, vl) /\ (r.kind = "Delete" => vl = 0)
  BY <1>2 DEF Encodable, WithinLimits
<1>8. decode(offset, kl, vl) = "Ok"
  <2>1. offset + (HEADER_LEN + kl + vl) <= Len(file) /\ CrcMatches(offset, HEADER_LEN + kl + vl)
    BY <1>1, <1>2, <1>4, <1>5
  <2>2. file[offset + 2].rec.kind = "Delete" => vl = 0
    BY <1>6, <1>7
  <2> HIDE DEF kl, vl
  <2> QED  BY <1>1, <1>2, <1>6, <1>7, <2>1, <2>2, DecodeWhole
<1> QED  BY <1>2, <1>3, <1>4, <1>6, <1>8 DEF r

\* A chunk that is not whole never decodes, and the log is refused for it only
\* when something follows it or it is zeros.
LEMMA ReadTorn ==
    ASSUME WInv, pc = "Reading", Len(out) < Len(log), ~Here.ok, Len(file) - offset >= 4,
           NEW kl \in Lengths(file[offset + 3], "key_len", MAX_KEY_LEN),
           NEW vl \in Lengths(file[offset + 4], "value_len", MAX_VALUE_LEN)
    PROVE  /\ decode(offset, kl, vl) # "Ok"
           /\ decode(offset, kl, vl) = "Truncated" \/ Damaged(log, Len(out) + 1)
<1> DEFINE m == Len(out) + 1
           total == HEADER_LEN + kl + vl
<1>1. /\ ChunkIn(Here, file) /\ offset \in Nat /\ Here.at = offset /\ Here.size \in Nat /\ Here.size > 0
      /\ Len(file) \in Nat /\ offset + Here.size <= Len(file) /\ file \in Seq(Cells) /\ Layout(log, file)
      /\ m \in 1 .. Len(log) /\ Len(log) \in Nat /\ log \in Seq(Chunks)
  BY AtHere DEF ChunkIn
<1>2. kl \in Nat /\ vl \in Nat
  <2>1. file[offset + 3] \in Cells /\ file[offset + 4] \in Cells
    BY AtHere
  <2>2. Lengths(file[offset + 3], "key_len", MAX_KEY_LEN) \subseteq Nat
    BY <2>1, LengthsAre, WalAssumption
  <2>3. Lengths(file[offset + 4], "value_len", MAX_VALUE_LEN) \subseteq Nat
    BY <2>1, LengthsAre, WalAssumption
  <2> QED  BY <2>2, <2>3
<1>3. total \in Nat /\ total >= 4
  BY <1>2 DEF HEADER_LEN
<1>4. CASE ZerosIn(Here, file)
  <2>1. Here.rec = NoRecord /\ file[offset + 1] = Cell("zero", NoRecord, 0)
    BY <1>1, <1>4 DEF ZerosIn
  <2>2. ~CrcMatches(offset, total)
    BY <2>1 DEF CrcMatches, Cell
  <2>3. decode(offset, kl, vl) # "Ok"
    BY <1>1, <1>2, <2>2, DecodeLengths
  <2>4. Damaged(log, m)
    BY <1>1, <2>1 DEF Damaged, Here
  <2> QED  BY <2>3, <2>4
<1>5. CASE RecordIn(Here, file)
  <2> DEFINE r == Here.rec
  <2>1. /\ r \in Records /\ Whole(r) \in Nat /\ Here.size < Whole(r) /\ r.key_len \in Nat /\ r.value_len \in Nat
        /\ Encodable(r.kind, r.key_len, r.value_len)
        /\ \A p \in 1 .. Here.size : file[offset + p] = encode(r)[p]
    <3>1. /\ r \in Records /\ Here.size <= Whole(r) /\ Here.size # Whole(r)
          /\ Encodable(r.kind, r.key_len, r.value_len)
          /\ \A p \in 1 .. Here.size : file[offset + p] = encode(r)[p]
      BY <1>1, <1>5 DEF RecordIn
    <3> HIDE DEF r
    <3>2. Whole(r) \in Nat /\ r.key_len \in Nat /\ r.value_len \in Nat
      BY <3>1, EncodeIs DEF Records
    <3> QED  BY <1>1, <3>1, <3>2
  <2>2. file[offset + 1] = encode(r)[1]
    BY <1>1, <2>1
  <2>3. m < Len(log) => /\ log[m + 1] \in Chunks /\ ChunkIn(log[m + 1], file)
                        /\ log[m + 1].at = offset + Here.size
                        /\ r # log[m + 1].rec \/ log[m + 1].rec = NoRecord
    <3> SUFFICES ASSUME m < Len(log)
                 PROVE  /\ log[m + 1] \in Chunks /\ ChunkIn(log[m + 1], file)
                        /\ log[m + 1].at = offset + Here.size
                        /\ r # log[m + 1].rec \/ log[m + 1].rec = NoRecord
      OBVIOUS
    <3>1. m + 1 \in 1 .. Len(log) /\ m < m + 1 /\ m + 1 # 1 /\ (m + 1) - 1 = m
      BY <1>1
    <3>2. ChunkIn(log[m + 1], file) /\ log[m + 1].at = Position(log, m + 1)
      BY <1>1, <3>1 DEF Layout
    <3>3. Position(log, m + 1) = offset + Here.size
      <4>1. Position(log, m + 1) = log[m].at + log[m].size
        BY <3>1 DEF Position
      <4> QED  BY <1>1, <4>1 DEF Here
    <3>4. log[m].rec # log[m + 1].rec \/ log[m + 1].rec = NoRecord
      BY <1>1, <3>1 DEF Layout
    <3> QED  BY <1>1, <3>1, <3>2, <3>3, <3>4, ChunkFields DEF Here
  <2>4. m = Len(log) => offset + Here.size = Len(file)
    <3> SUFFICES ASSUME m = Len(log) PROVE offset + Here.size = Len(file)
      OBVIOUS
    <3>1. Position(log, m + 1) = Len(file) /\ m + 1 # 1 /\ (m + 1) - 1 = m
      BY <1>1 DEF Layout
    <3>2. Position(log, m + 1) = log[m].at + log[m].size
      BY <3>1 DEF Position
    <3> QED  BY <1>1, <3>1, <3>2 DEF Here
  <2>5. decode(offset, kl, vl) # "Ok"
    <3> SUFFICES ASSUME decode(offset, kl, vl) = "Ok" PROVE FALSE
      OBVIOUS
    <3>1. offset + total <= Len(file) /\ CrcMatches(offset, total)
      BY <1>1, <1>2, DecodeLengths
    <3> HIDE DEF m, r, total
    <3>2. total = Whole(r) /\ \A p \in 1 .. total : file[offset + p] = encode(r)[p]
      BY <1>1, <1>3, <2>1, <2>2, <3>1, CrcIs
    <3> DEFINE p == Here.size + 1
               d == log[m + 1]
    <3>3. p \in 1 .. total /\ p \in 1 .. Whole(r)
      <4>1. Here.size \in Nat /\ Whole(r) \in Nat /\ Here.size < Whole(r) /\ total = Whole(r)
        BY <1>1, <2>1, <3>2
      <4> QED  BY <4>1
    <3>4. m < Len(log)
      <4>1. m # Len(log)
        BY <1>1, <2>1, <2>4, <3>1, <3>2
      <4> QED  BY <1>1, <4>1
    <3>5. d \in Chunks /\ ChunkIn(d, file) /\ d.at = offset + Here.size /\ (r # d.rec \/ d.rec = NoRecord)
      BY <2>3, <3>4
    <3>6. d.size \in Nat /\ d.size > 0
      BY <3>5 DEF Chunks, ChunkIn
    <3> HIDE DEF d, p
    <3>7. file[offset + p].rec = r
      <4>1. file[offset + p] = encode(r)[p]
        BY <3>2, <3>3
      <4> QED  BY <2>1, <3>3, <4>1, EncodeIs
    <3>8. offset + p = d.at + 1 /\ 1 \in 1 .. d.size
      BY <1>1, <3>5, <3>6 DEF p
    <3>9. NoRecord \notin Records
      BY DEF NoRecord, Records, Kinds
    <3>10. file[d.at + 1].rec = d.rec
      <4>1. CASE RecordIn(d, file)
        <5>1. d.rec \in Records /\ file[d.at + 1] = encode(d.rec)[1]
          BY <3>8, <4>1 DEF RecordIn
        <5>2. encode(d.rec)[1] = Cell("crc", d.rec, 0)
          BY <5>1, EncodeIs
        <5> QED  BY <5>1, <5>2 DEF Cell
      <4>2. CASE ZerosIn(d, file)
        BY <3>8, <4>2 DEF ZerosIn, Cell
      <4> QED  BY <3>5, <4>1, <4>2 DEF ChunkIn
    <3>11. r = d.rec
      BY <3>7, <3>8, <3>10
    <3> QED  BY <2>1, <3>5, <3>9, <3>11
  <2>6. decode(offset, kl, vl) = "Truncated" \/ Damaged(log, m)
    <3>1. CASE m < Len(log)
      BY <1>1, <3>1 DEF Damaged, Here
    <3>2. CASE ~(m < Len(log))
      <4>1. m = Len(log)
        BY <1>1, <3>2
      <4>2. Here.size >= 4
        BY <1>1, <2>4, <4>1
      <4>3. kl = r.key_len /\ vl = r.value_len
        BY <1>5, <4>2, HereLengths
      <4>4. total = Whole(r) /\ offset + total > Len(file)
        <5>1. total = Whole(r)
          BY <4>3 DEF Whole
        <5> HIDE DEF r, total, m
        <5> QED  BY <1>1, <2>1, <2>4, <4>1, <5>1
      <4>5. kl > 0 /\ WithinLimits(kl, vl)
        BY <2>1, <4>3 DEF Encodable, WithinLimits
      <4> QED  BY <1>1, <1>2, <4>4, <4>5, DecodeLengths
    <3> QED  BY <3>1, <3>2
  <2> QED  BY <2>5, <2>6
<1> QED  BY <1>1, <1>4, <1>5 DEF ChunkIn

\* What a call of next_record comes to.
LEMMA NextRecordIs ==
    ASSUME WInv, next_record
    PROVE  \/ /\ pc' = "Done" /\ UNCHANGED <<offset, out>>
              /\ Len(out) < Len(log) => ~Here.ok
           \/ /\ pc' = "Corrupt" /\ UNCHANGED <<offset, out>>
              /\ Damaged(log, Len(out) + 1)
           \/ /\ pc' = "Reading" /\ out' = Append(out, Here.rec) /\ offset' = Here.at + Here.size
              /\ Len(out) < Len(log) /\ Here.ok
<1>0. pc = "Reading"
  BY DEF next_record
<1>1. /\ Len(file) \in Nat /\ offset \in Nat /\ Len(log) \in Nat /\ Len(out) \in Nat
      /\ Len(out) <= Len(log) /\ (Len(out) = Len(log) => offset = Len(file))
      /\ Len(out) < Len(log) => Here.at = offset /\ Here.size \in Nat
  BY <1>0, AtHere
<1>2. CASE Len(file) - offset < HEADER_LEN /\ Goto("Done") /\ UNCHANGED reader
  <2>1. ~(Len(file) - offset >= 4)
    BY <1>1, <1>2 DEF HEADER_LEN
  <2>2. Len(out) < Len(log) => ~Here.ok
    BY <1>0, <2>1, ReadWhole
  <2> QED  BY <1>2, <2>2 DEF Goto, reader
<1>3. CASE ~(Len(file) - offset < HEADER_LEN /\ Goto("Done") /\ UNCHANGED reader)
  <2>1. Len(file) - offset >= 4
    BY <1>3 DEF next_record, HEADER_LEN
  <2>2. PICK kl \in Lengths(file[offset + 3], "key_len", MAX_KEY_LEN),
             vl \in Lengths(file[offset + 4], "value_len", MAX_VALUE_LEN) :
               CASE decode(offset, kl, vl) = "Ok" ->
                      /\ out' = Append(out, file[offset + 1].rec)
                      /\ offset' = Advanced(offset, HEADER_LEN + kl + vl)
                      /\ UNCHANGED pc
                 [] decode(offset, kl, vl) = "Truncated" -> Goto("Done") /\ UNCHANGED reader
                 [] OTHER -> Goto("Corrupt") /\ UNCHANGED reader
    BY <1>3 DEF next_record
  <2> DEFINE d == decode(offset, kl, vl)
  <2>3. /\ d = "Ok" => /\ out' = Append(out, file[offset + 1].rec)
                       /\ offset' = Advanced(offset, HEADER_LEN + kl + vl)
                       /\ UNCHANGED pc
        /\ d = "Truncated" => Goto("Done") /\ UNCHANGED reader
        /\ d # "Ok" /\ d # "Truncated" => Goto("Corrupt") /\ UNCHANGED reader
    <3> DEFINE isOk == d = "Ok"
               isTorn == d = "Truncated"
               x == /\ out' = Append(out, file[offset + 1].rec)
                    /\ offset' = Advanced(offset, HEADER_LEN + kl + vl)
                    /\ UNCHANGED pc
               y == Goto("Done") /\ UNCHANGED reader
               z == Goto("Corrupt") /\ UNCHANGED reader
    <3>1. (CASE isOk -> x [] isTorn -> y [] OTHER -> z)
      BY <2>2
    <3>2. ~(isOk /\ isTorn)
      OBVIOUS
    <3> HIDE DEF isOk, isTorn, x, y, z
    <3>3. /\ isOk => x
          /\ isTorn => y
          /\ ~isOk /\ ~isTorn => z
      BY <3>1, <3>2, Zenon
    <3> QED  BY <3>3 DEF isOk, isTorn, x, y, z
  <2> HIDE DEF d
  <2>4. Len(out) < Len(log)
    BY <1>1, <2>1
  <2>5. CASE Here.ok
    <3>1. /\ kl = Here.rec.key_len /\ vl = Here.rec.value_len /\ d = "Ok"
          /\ file[offset + 1].rec = Here.rec /\ HEADER_LEN + kl + vl = Here.size
      BY <1>0, <2>4, <2>5, ReadWhole DEF d
    <3>2. offset' = Here.at + Here.size
      BY <1>1, <2>3, <2>4, <3>1 DEF Advanced
    <3> QED  BY <1>0, <2>3, <2>4, <2>5, <3>1, <3>2
  <2>6. CASE ~Here.ok
    <3>1. d # "Ok" /\ (d = "Truncated" \/ Damaged(log, Len(out) + 1))
      BY <1>0, <2>1, <2>4, <2>6, ReadTorn DEF d
    <3> QED  BY <2>3, <2>6, <3>1 DEF Goto, reader
  <2> QED  BY <2>5, <2>6
<1> QED  BY <1>2, <1>3

LEMMA NextRecordW == ASSUME WInv, next_record PROVE WInv'
<1>0. /\ TypeOK /\ FileInv /\ AckedInv /\ pc = "Reading"
      /\ UNCHANGED <<exists, file, synced, log, acked, ops, crashes, fails>>
  BY DEF WInv, next_record, disk, ghosts, bounds
<1>1. /\ file \in Seq(Cells) /\ Len(file) \in Nat /\ log \in Seq(Chunks) /\ Len(log) \in Nat
      /\ out \in Seq(Records) /\ Len(out) \in Nat /\ Len(out) <= Len(log) /\ offset \in Nat
      /\ offset <= Len(file) /\ HeaderAt(file) /\ Layout(log, file) /\ ReadTo(log, out)
      /\ offset = Position(log, Len(out) + 1)
  BY <1>0, AtHere DEF WInv, ReaderInv, TypeOK
<1>2. FileInv'
  <2> SUFFICES ASSUME pc' \in {"Done", "Corrupt", "Reading"} PROVE FileInv'
    BY NextRecordIs
  <2> QED  BY <1>0, <1>1 DEF FileInv
<1>3. AckedInv'
  BY <1>0 DEF AckedInv
<1>4. CASE pc' = "Done" /\ UNCHANGED <<offset, out>> /\ (Len(out) < Len(log) => ~Here.ok)
  <2>1. TypeOK'
    BY <1>0, <1>1, <1>4 DEF TypeOK, Steps
  <2>2. ReaderInv'
    BY <1>0, <1>1, <1>4 DEF ReaderInv, Here
  <2> QED  BY <1>2, <1>3, <2>1, <2>2 DEF WInv
<1>5. CASE pc' = "Corrupt" /\ UNCHANGED <<offset, out>> /\ Damaged(log, Len(out) + 1)
  <2>1. TypeOK'
    BY <1>0, <1>1, <1>5 DEF TypeOK, Steps
  <2>2. ReaderInv'
    BY <1>0, <1>1, <1>5 DEF ReaderInv
  <2> QED  BY <1>2, <1>3, <2>1, <2>2 DEF WInv
<1>6. CASE /\ pc' = "Reading" /\ out' = Append(out, Here.rec) /\ offset' = Here.at + Here.size
           /\ Len(out) < Len(log) /\ Here.ok
  <2> DEFINE m == Len(out) + 1
  <2>1. m \in 1 .. Len(log) /\ Here \in Chunks /\ ChunkIn(Here, file) /\ Here = log[m]
    BY <1>0, <1>6, AtHere DEF Here
  <2>2. Here.rec \in Records /\ Here.at \in Nat /\ Here.size \in Nat /\ Here.at + Here.size <= Len(file)
    BY <1>6, <2>1 DEF Chunks, ChunkIn, RecordIn, ZerosIn
  <2>3. /\ out' \in Seq(Records) /\ Len(out') = m /\ out'[m] = Here.rec
        /\ \A i \in 1 .. Len(out) : out'[i] = out[i]
    BY <1>1, <1>6, <2>2, AppendProperties
  <2>4. TypeOK'
    BY <1>0, <1>6, <2>2, <2>3 DEF TypeOK, Steps
  <2>5. offset' = Position(log, m + 1)
    <3>1. m + 1 # 1 /\ (m + 1) - 1 = m
      BY <1>1
    <3>2. Position(log, m + 1) = log[m].at + log[m].size
      BY <3>1 DEF Position
    <3> QED  BY <1>6, <2>1, <3>2
  <2>6. ReadTo(log, out')
    <3> SUFFICES ASSUME NEW i \in 1 .. m PROVE log[i].ok /\ out'[i] = log[i].rec
      BY <2>1, <2>3 DEF ReadTo
    <3>1. CASE i = m
      BY <1>6, <2>1, <2>3, <3>1
    <3>2. CASE i # m
      <4>1. i \in 1 .. Len(out)
        BY <1>1, <3>2
      <4> QED  BY <1>1, <2>3, <4>1 DEF ReadTo
    <3> QED  BY <3>1, <3>2
  <2>7. ReaderInv'
    <3> HIDE DEF m
    <3> QED  BY <1>0, <1>6, <2>3, <2>5, <2>6 DEF ReaderInv
  <2> QED  BY <1>2, <1>3, <2>4, <2>7 DEF WInv
<1> QED  BY <1>4, <1>5, <1>6, NextRecordIs

LEMMA NextW == ASSUME WInv, [Next]_vars PROVE WInv'
<1>1. CASE Next
  BY <1>1, CreateW, WriteHeaderW, SyncHeaderW, SyncParentW, OpenWriterW, AppendW, SyncW, OpenReaderW,
     NextRecordW, CrashW, KillW DEF Next
<1>2. CASE UNCHANGED vars
  <2>1. UNCHANGED <<pc, exists, file, synced, offset, out, log, acked, ops, crashes, fails>>
    BY <1>2 DEF vars, disk, reader, ghosts, bounds
  <2>2. TypeOK'
    BY <2>1 DEF WInv, TypeOK
  <2>3. FileInv'
    BY <2>1 DEF WInv, FileInv
  <2>4. AckedInv'
    BY <2>1 DEF WInv, AckedInv
  <2>5. ReaderInv'
    BY <2>1 DEF WInv, ReaderInv
  <2> QED  BY <2>2, <2>3, <2>4, <2>5 DEF WInv
<1> QED  BY <1>1, <1>2

-----------------------------------------------------------------------------
(* The theorems                                                            *)

LEMMA Inductive == Spec => []WInv
<1>1. Init => WInv
  BY InitW
<1>2. WInv /\ [Next]_vars => WInv'
  BY NextW
<1> QED  BY <1>1, <1>2, PTL DEF Spec

\* The reader never passes the end of the file (WalReader::next_record), and
\* what it yields are records, whatever the crashes left of the file.
THEOREM WalTypeCorrect == Spec => []TypeOK
<1>1. WInv => TypeOK
  BY DEF WInv
<1> QED  BY <1>1, Inductive, PTL

\* The index of the first torn chunk, or one more than there are.
Intact == LET torn == {i \in DOMAIN log : ~log[i].ok}
          IN  IF torn = {} THEN Len(log) ELSE Min(torn) - 1

LEMMA ReadableIs ==
    ASSUME log \in Seq(Chunks)
    PROVE  /\ Intact \in 0 .. Len(log) /\ Len(Readable) = Intact /\ Readable \in Seq(Records \cup {NoRecord})
           /\ \A i \in 1 .. Intact : log[i].ok /\ Readable[i] = log[i].rec
           /\ Intact < Len(log) => ~log[Intact + 1].ok
<1> DEFINE torn == {i \in DOMAIN log : ~log[i].ok}
           k == IF torn = {} THEN Len(log) ELSE Min(torn) - 1
<1>0. Len(log) \in Nat /\ DOMAIN log = 1 .. Len(log)
  BY LenProperties
<1>1. k \in 0 .. Len(log) /\ (\A i \in 1 .. k : log[i].ok) /\ (k < Len(log) => ~log[k + 1].ok)
  <2>1. CASE torn = {}
    <3>1. \A i \in 1 .. Len(log) : log[i].ok
      BY <1>0, <2>1
    <3> QED  BY <1>0, <2>1, <3>1
  <2>2. CASE torn # {}
    <3>1. torn \subseteq Nat
      BY <1>0
    <3>2. Min(torn) \in torn /\ \A y \in torn : Min(torn) <= y
      BY <2>2, <3>1, MinOfNats
    <3> DEFINE h == Min(torn)
    <3>3. h \in 1 .. Len(log) /\ ~log[h].ok
      BY <1>0, <3>2
    <3>4. k = h - 1
      BY <2>2
    <3>5. \A i \in 1 .. h - 1 : log[i].ok
      <4> SUFFICES ASSUME NEW i \in 1 .. h - 1, ~log[i].ok PROVE FALSE
        OBVIOUS
      <4> HIDE DEF h
      <4>1. i \in 1 .. Len(log) /\ ~(h <= i)
        BY <1>0, <3>3
      <4>2. i \in torn
        BY <1>0, <4>1
      <4> QED  BY <3>2, <4>1, <4>2 DEF h
    <3> HIDE DEF h, k
    <3> QED  BY <1>0, <3>3, <3>4, <3>5
  <2> QED  BY <2>1, <2>2
<1>2. Intact = k /\ Readable = [i \in 1 .. k |-> log[i].rec]
  BY DEF Intact, Readable
<1> HIDE DEF k
<1>3. \A i \in 1 .. k : log[i].rec \in Records \cup {NoRecord}
  <2> SUFFICES ASSUME NEW i \in 1 .. k PROVE log[i].rec \in Records \cup {NoRecord}
    OBVIOUS
  <2>1. i \in 1 .. Len(log)
    BY <1>0, <1>1
  <2>2. log[i] \in Chunks
    BY <2>1, ChunkFields
  <2> QED  BY <2>2 DEF Chunks
<1>4. Readable \in [1 .. k -> Records \cup {NoRecord}]
  BY <1>2, <1>3
<1>5. Readable \in Seq(Records \cup {NoRecord}) /\ Len(Readable) = k
  BY <1>0, <1>1, <1>4
<1> QED  BY <1>1, <1>2, <1>5

\* What the reader has yielded is a beginning of what is readable.
LEMMA ReadPrefix ==
    ASSUME log \in Seq(Chunks), out \in Seq(Records), ReadTo(log, out)
    PROVE  Len(out) <= Len(Readable) /\ out = SubSeq(Readable, 1, Len(out))
<1> DEFINE n == Len(out)
           s == SubSeq(Readable, 1, n)
<1>1. n \in Nat /\ Len(log) \in Nat /\ n <= Len(log) /\ Intact \in 0 .. Len(log) /\ Len(Readable) = Intact
      /\ Readable \in Seq(Records \cup {NoRecord})
  BY ReadableIs DEF ReadTo
<1>2. n <= Intact
  <2> SUFFICES ASSUME n > Intact PROVE FALSE
    BY <1>1
  <2>1. Intact < Len(log) /\ Intact + 1 \in 1 .. n
    BY <1>1
  <2> QED  BY <2>1, ReadableIs DEF ReadTo
<1>3. s \in Seq(Records \cup {NoRecord}) /\ Len(s) = n /\ \A p \in 1 .. n : s[p] = Readable[p]
  <2> HIDE DEF n
  <2>1. \A i \in 1 .. n : Readable[i] \in Records \cup {NoRecord}
    <3> SUFFICES ASSUME NEW i \in 1 .. n PROVE Readable[i] \in Records \cup {NoRecord}
      OBVIOUS
    <3>1. i \in 1 .. Len(Readable)
      BY <1>1, <1>2
    <3> QED  BY <1>1, <3>1, ElementOfSeq
  <2>2. 1 \in 1 .. Len(Readable) + 1 /\ n \in 0 .. Len(Readable)
    BY <1>1, <1>2
  <2>3. /\ s \in Seq(Records \cup {NoRecord}) /\ Len(s) = IF 1 <= n THEN n - 1 + 1 ELSE 0
        /\ \A p \in 1 .. n - 1 + 1 : s[p] = Readable[1 + p - 1]
    BY <1>1, <2>1, <2>2, SubSeqProperties
  <2>4. n - 1 + 1 = n /\ \A p \in 1 .. n : 1 + p - 1 = p
    BY <1>1
  <2> HIDE DEF s
  <2> QED  BY <1>1, <2>3, <2>4
<1>4. \A p \in 1 .. n : out[p] = Readable[p]
  <2> SUFFICES ASSUME NEW p \in 1 .. n PROVE out[p] = Readable[p]
    OBVIOUS
  <2>1. p \in 1 .. Intact
    BY <1>1, <1>2
  <2> QED  BY <2>1, ReadableIs DEF ReadTo
<1> HIDE DEF s
<1>5. out = s
  <2>1. out \in Seq(Records \cup {NoRecord})
    BY ElementOfSeq, <1>1
  <2> QED  BY <1>3, <1>4, <2>1, SeqEqual
<1> QED  BY <1>1, <1>2, <1>5 DEF s

\* Replay yields exactly the appends in front of the first damaged one
\* (WalReader::next_record with record::decode, as replay_wal drives them),
\* whatever was torn, cut or zeroed and wherever.
THEOREM ReplayIsExact == Spec => []ReplayExact
<1>1. ASSUME WInv PROVE ReplayExact
  <2>1. log \in Seq(Chunks) /\ out \in Seq(Records) /\ Len(out) \in Nat /\ Len(log) \in Nat /\ ReaderInv
    BY <1>1 DEF WInv, TypeOK
  <2>2. ASSUME pc \in {"Reading", "Corrupt"}
        PROVE  Len(out) <= Len(Readable) /\ out = SubSeq(Readable, 1, Len(out))
    <3>1. ReadTo(log, out)
      BY <2>1, <2>2 DEF ReaderInv, ReadTo
    <3> QED  BY <2>1, <3>1, ReadPrefix
  <2>3. ASSUME pc = "Done" PROVE out = Readable
    <3>1. ReadTo(log, out) /\ (Len(out) < Len(log) => ~log[Len(out) + 1].ok)
      BY <2>1, <2>3 DEF ReaderInv
    <3>2. Len(out) <= Len(Readable) /\ out = SubSeq(Readable, 1, Len(out))
      BY <2>1, <3>1, ReadPrefix
    <3>3. /\ Intact \in 0 .. Len(log) /\ Len(Readable) = Intact
          /\ Readable \in Seq(Records \cup {NoRecord})
          /\ \A i \in 1 .. Intact : log[i].ok /\ Readable[i] = log[i].rec
      BY <2>1, ReadableIs
    <3>4. Len(out) = Intact
      <4>1. Len(out) <= Intact /\ Intact \in Nat /\ Intact <= Len(log)
        BY <2>1, <3>2, <3>3
      <4>2. ~(Len(out) < Intact)
        <5> SUFFICES ASSUME Len(out) < Intact PROVE FALSE
          OBVIOUS
        <5>1. Len(out) < Len(log) /\ Len(out) + 1 \in 1 .. Intact
          BY <2>1, <4>1
        <5> QED  BY <3>1, <3>3, <5>1
      <4> QED  BY <2>1, <4>1, <4>2
    <3>5. \A p \in 1 .. Len(out) : out[p] = Readable[p]
      BY <3>1, <3>3, <3>4 DEF ReadTo
    <3>6. out \in Seq(Records \cup {NoRecord})
      BY <2>1, ElementOfSeq
    <3> QED  BY <3>3, <3>4, <3>5, <3>6, SeqEqual
  <2> QED  BY <2>2, <2>3 DEF ReplayExact
<1> QED  BY <1>1, Inductive, PTL

\* An open is refused only for a header that was never finished, or at the
\* first damaged append, for bytes behind a torn record or for a zeroed tail
\* (WalReader::next_record, replay_wal).
THEOREM RefusalsJustified == Spec => []RefusedOnlyIfDamaged
<1>1. ASSUME WInv PROVE RefusedOnlyIfDamaged
  <2> DEFINE next == Len(out) + 1
  <2> SUFFICES ASSUME pc = "Corrupt", HeaderAt(file)
               PROVE  /\ next \in DOMAIN log /\ ~log[next].ok
                      /\ next < Len(log) \/ log[next].rec = NoRecord
    BY <1>1, HeaderValidIs DEF WInv, TypeOK, RefusedOnlyIfDamaged
  <2>1. Damaged(log, next) /\ DOMAIN log = 1 .. Len(log) /\ Len(log) \in Nat /\ next \in Nat \ {0}
    BY <1>1, LenProperties DEF WInv, TypeOK, ReaderInv
  <2> HIDE DEF next
  <2> QED  BY <2>1 DEF Damaged
<1> QED  BY <1>1, Inductive, PTL

\* A replay that comes to its end yields every record whose sync returned
\* (WalWriter::sync), but for those behind a damaged append, and these are in
\* the file: the reader stopped at the first damaged chunk, and every
\* acknowledged record is a whole one, in front of it or behind.
THEOREM AckedSurvive == Spec => []AckedReplayed
<1>1. ASSUME WInv PROVE AckedReplayed
  <2> DEFINE next == Len(out) + 1
  <2> SUFFICES ASSUME pc = "Done", NEW r \in acked, r \notin Range(out)
               PROVE  BehindTear(r)
    BY DEF AckedReplayed
  <2>1. /\ Len(out) \in Nat /\ Len(log) \in Nat /\ DOMAIN log = 1 .. Len(log)
        /\ DOMAIN out = 1 .. Len(out) /\ ReadTo(log, out) /\ Kept(log, acked, synced)
        /\ Len(out) < Len(log) => ~log[next].ok
    BY <1>1, LenProperties DEF WInv, TypeOK, FileInv, ReaderInv, AckedInv
  <2>2. PICK i \in 1 .. Len(log) : log[i].ok /\ log[i].rec = r
    BY <2>1 DEF Kept
  <2>3. i \notin 1 .. Len(out)
    BY <2>1, <2>2 DEF ReadTo, Range
  <2>4. next \in 1 .. Len(log) /\ ~log[next].ok /\ next <= i
    BY <2>1, <2>3
  <2>5. next < i
    BY <2>1, <2>2, <2>4
  <2> HIDE DEF next
  <2> QED  BY <2>1, <2>2, <2>4, <2>5 DEF BehindTear
<1> QED  BY <1>1, Inductive, PTL
=============================================================================

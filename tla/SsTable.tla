------------------------------ MODULE SsTable ------------------------------
(***************************************************************************)
(* An SSTable file (src/sstable/writer.rs, reader.rs, bloom.rs): the       *)
(* writer that cuts sorted entries into blocks, the reader that looks a    *)
(* key up or walks through all entries, and the bloom filter.              *)
(*                                                                         *)
(* A file is a sequence of extents, one for each append, with the place    *)
(* and length it really has; the writer's own offsets are separate, and a  *)
(* read at a recorded offset and length that is no extent finds bytes      *)
(* whose CRC does not match.  bad holds the data blocks (by number) that   *)
(* were damaged on disk since.                                             *)
(*                                                                         *)
(* OneHashMore, TargetPassed, IndexBehindData and FirstKeyAbove are        *)
(* deliberately wrong variants of the operators they stand above.          *)
(***************************************************************************)
EXTENDS Memtable, Sequences

CONSTANTS
    DATA_BLOCK_TARGET_SIZE,
    bloom_bits_per_key,   \* 0: no filter
    Hash,                 \* [Keys -> [h1 : 0 .. HashSpace - 1, h2 : same]]
    HashSpace             \* hashes are taken modulo this (2^64 in the code)

CRC_LEN == 4
FOOTER_LEN == 40
ENTRY_HEADER_LEN == 9        \* key_len, value_len, kind
INDEX_ENTRY_HEADER_LEN == 16 \* key_len, offset, length
MIN_BITS == 64

ASSUME TableAssumption ==
    /\ DATA_BLOCK_TARGET_SIZE \in Nat /\ bloom_bits_per_key \in Nat
    /\ HashSpace \in Nat \ {0}
    /\ Hash \in [Keys -> [h1 : 0 .. HashSpace - 1, h2 : 0 .. HashSpace - 1]]

-----------------------------------------------------------------------------
(* Bloom filter: m bits, k hash functions, the positions of the bits set   *)

\* BloomFilter::new.
NewFilter(expected_keys) ==
    [m |-> Max({expected_keys * bloom_bits_per_key, MIN_BITS}),
     k |-> Min({30, Max({1, (bloom_bits_per_key * 69) \div 100})}),
     bits |-> {}]

synth_index(hash, i, m) == ((hash.h1 + ((i * hash.h2) % HashSpace)) % HashSpace) % m
bloom_insert(bf, key) ==
    [bf EXCEPT !.bits = @ \cup {synth_index(Hash[key], i, bf.m) : i \in 0 .. bf.k - 1}]
OneHashMore(bf, key) == \A i \in 0 .. bf.k : synth_index(Hash[key], i, bf.m) \in bf.bits
bloom_contains(bf, key) == \A i \in 0 .. bf.k - 1 : synth_index(Hash[key], i, bf.m) \in bf.bits

DivCeil(n, d) == (n + d - 1) \div d
bloom_encoded_len(bf) == 1 + 8 + DivCeil(bf.m, 8) + CRC_LEN

-----------------------------------------------------------------------------
(* SsTableWriter                                                           *)

\* Bytes appended to the file, as one extent.
FileAppended(file, type, length, content) ==
    [file EXCEPT !.extents = Append(@, [at |-> file.len, length |-> length,
                                        type |-> type, content |-> content]),
                 !.len = @ + length]

\* SsTableWriter::create; a key of 0 stands for None.
create(expected_keys) ==
    [file |-> [len |-> 0, extents |-> <<>>, bad |-> {}],
     current_block |-> <<>>, current_len |-> 0, first_key |-> 0,
     index_entries |-> <<>>, next_block_offset |-> 0, last_key |-> 0,
     bloom |-> NewFilter(expected_keys)]

encoded_entry_size(key, entry) == ENTRY_HEADER_LEN + KeyLen[key] + payload_size(entry)

flush_current_block(w) ==
    LET length == w.current_len + CRC_LEN
    IN  [w EXCEPT
           !.file = FileAppended(@, "data", length, w.current_block),
           !.index_entries = Append(@, [first_key |-> w.first_key,
                                        offset |-> w.next_block_offset, length |-> length]),
           !.next_block_offset = @ + length,
           !.current_block = <<>>, !.current_len = 0, !.first_key = 0]

\* add refuses a key that is not above the last one.
Accepts(w, key) == key > w.last_key

TargetPassed(w, size) == w.current_block # <<>> /\ w.current_len > DATA_BLOCK_TARGET_SIZE
BlockFull(w, size) == w.current_block # <<>> /\ w.current_len + size > DATA_BLOCK_TARGET_SIZE

add(w, key, entry) ==
    LET size == encoded_entry_size(key, entry)
        v == IF BlockFull(w, size) THEN flush_current_block(w) ELSE w
    IN  [v EXCEPT !.first_key = IF @ = 0 THEN key ELSE @,
                  !.current_block = Append(@, [key |-> key, entry |-> entry]),
                  !.current_len = @ + size,
                  !.last_key = key,
                  !.bloom = IF bloom_bits_per_key > 0 THEN bloom_insert(@, key) ELSE @]

IndexLength(entries) ==
    MapThenSumSet(LAMBDA i : INDEX_ENTRY_HEADER_LEN + KeyLen[entries[i].first_key],
                  DOMAIN entries) + CRC_LEN

\* The offset the footer gives for the index block.
IndexBehindData(offset, bloom_length) == offset
IndexOffset(offset, bloom_length) == offset + bloom_length

\* finish: the last block, the filter, the index, the footer.
finish(w) ==
    LET v == IF w.current_block # <<>> THEN flush_current_block(w) ELSE w
        filtered == bloom_bits_per_key > 0
        bloom_length == IF filtered THEN bloom_encoded_len(v.bloom) ELSE 0
        withBloom == IF filtered THEN FileAppended(v.file, "bloom", bloom_length, v.bloom)
                     ELSE v.file
        index_length == IndexLength(v.index_entries)
        withIndex == FileAppended(withBloom, "index", index_length, v.index_entries)
        footer == [index_offset |-> IndexOffset(v.next_block_offset, bloom_length),
                   index_length |-> index_length,
                   bloom_offset |-> IF filtered THEN v.next_block_offset ELSE 0,
                   bloom_length |-> bloom_length]
    IN  FileAppended(withIndex, "footer", FOOTER_LEN, footer)

-----------------------------------------------------------------------------
(* SsTableReader                                                           *)

Footer(file) == file.extents[Len(file.extents)].content

\* The extent that a read finds, as a set: empty when the bytes read are not
\* one extent, or are a damaged block.
ReadAt(file, type, offset, length) ==
    {i \in DOMAIN file.extents : /\ file.extents[i].type = type /\ i \notin file.bad
                                 /\ file.extents[i].at = offset
                                 /\ file.extents[i].length = length}
ContentAt(file, type, offset, length) ==
    file.extents[CHOOSE i \in ReadAt(file, type, offset, length) : TRUE].content

\* open: bounds, then the CRC of the index and of the filter.
Opens(file) ==
    LET f == Footer(file)
    IN  /\ f.index_offset + f.index_length + FOOTER_LEN <= file.len
        /\ ReadAt(file, "index", f.index_offset, f.index_length) # {}
        /\ f.bloom_length > 0 =>
              /\ f.bloom_offset + f.bloom_length + f.index_length + FOOTER_LEN <= file.len
              /\ ReadAt(file, "bloom", f.bloom_offset, f.bloom_length) # {}

\* What the reader keeps in memory.
open(file) ==
    LET f == Footer(file)
    IN  [file |-> file,
         index |-> ContentAt(file, "index", f.index_offset, f.index_length),
         bloom |-> IF f.bloom_length = 0 THEN NewFilter(0)
                   ELSE ContentAt(file, "bloom", f.bloom_offset, f.bloom_length)]

\* A data block passes its CRC check, and its entries.
BlockGood(r, i) == ReadAt(r.file, "data", r.index[i].offset, r.index[i].length) # {}
Block(r, i) == ContentAt(r.file, "data", r.index[i].offset, r.index[i].length)

\* candidate_block: the last block whose first key is not above the key.
FirstKeyAbove(r, key) == {i \in DOMAIN r.index : r.index[i].first_key < key}
NotAbove(r, key) == {i \in DOMAIN r.index : r.index[i].first_key <= key}
candidate_block(r, key) == Cardinality(NotAbove(r, key))

\* scan_block_for_key stops at the first key that is not below the target.
NotBelow(block, key) == {i \in DOMAIN block : block[i].key >= key}
scan_block_for_key(block, key) ==
    LET ahead == NotBelow(block, key)
    IN  IF ahead # {} /\ block[Min(ahead)].key = key THEN block[Min(ahead)].entry ELSE NoEntry

Corruption == [kind |-> "Corruption", value |-> NoValue]

\* get: the entry of a key, NoEntry or Corruption.
get(r, key) ==
    LET i == candidate_block(r, key)
    IN  CASE bloom_bits_per_key > 0 /\ ~bloom_contains(r.bloom, key) -> NoEntry
          [] OTHER -> CASE i = 0 -> NoEntry
                        [] i > 0 /\ ~BlockGood(r, i) -> Corruption
                        [] OTHER -> scan_block_for_key(Block(r, i), key)

\* SsTableIterator: the block it is in, whether that is loaded, and how many
\* of its entries have been yielded.
iter == [block_idx |-> 1, loaded |-> FALSE, pos |-> 0]
EndItem == [key |-> 0, entry |-> NoEntry]
ErrItem == [key |-> 0, entry |-> Corruption]

\* Iterator::next yields an item and the iterator after it.  A block that
\* cannot be loaded ends the iteration behind the error.
iter_next(r, it) ==
    LET atEnd == it.loaded /\ it.pos >= Len(Block(r, it.block_idx))
        i == IF atEnd THEN it.block_idx + 1 ELSE it.block_idx
        p == IF atEnd THEN 1 ELSE it.pos + 1
    IN  CASE i > Len(r.index) ->
               [item |-> EndItem, it |-> [block_idx |-> i, loaded |-> FALSE, pos |-> 0]]
          [] i <= Len(r.index) /\ ~BlockGood(r, i) /\ (atEnd \/ ~it.loaded) ->
               [item |-> ErrItem,
                it |-> [block_idx |-> Len(r.index) + 1, loaded |-> FALSE, pos |-> 0]]
          [] OTHER ->
               [item |-> Block(r, i)[p], it |-> [block_idx |-> i, loaded |-> TRUE, pos |-> p]]

-----------------------------------------------------------------------------
\* What every finished table is like: the blocks are not empty, lie one
\* behind the other from offset 0 as the index says, start with the key the
\* index gives, hold strictly ascending keys over the whole table, and stay
\* within the target size unless they hold a single entry.
WellFormed(r) ==
    LET n == Len(r.index)
        data == {i \in DOMAIN r.file.extents : r.file.extents[i].type = "data"}
        block(i) == r.file.extents[i].content
    IN  /\ data = 1 .. n
        /\ \A i \in 1 .. n :
              /\ block(i) # <<>>
              /\ r.index[i].first_key = block(i)[1].key
              /\ r.index[i].offset = r.file.extents[i].at
              /\ r.index[i].length = r.file.extents[i].length
              /\ Len(block(i)) > 1 => r.index[i].length <= DATA_BLOCK_TARGET_SIZE + CRC_LEN
              /\ \A p, q \in DOMAIN block(i) : p < q => block(i)[p].key < block(i)[q].key
        /\ \A i \in 1 .. n - 1 :
              block(i)[Len(block(i))].key < r.index[i + 1].first_key
=============================================================================

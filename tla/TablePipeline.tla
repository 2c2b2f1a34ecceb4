---------------------------- MODULE TablePipeline ----------------------------
(***************************************************************************)
(* From memtable to tables and from tables to tables, inside the files:    *)
(* writes fill the memtable, flush_inner writes it through SsTableWriter,  *)
(* compact_l0_l1 merges all tables through MergingIterator into a new one, *)
(* and Engine::get looks a key up in the memtable, L0 and L1.  Blocks on   *)
(* disk may be damaged between calls.  Crashes, directories and the log    *)
(* are module Lsm's subject.                                               *)
(***************************************************************************)
EXTENDS MergingIterator

CONSTANTS
    Writes,                  \* the entries clients write
    memtable_max_size_bytes,
    l0_compaction_trigger,
    MaxOps, MaxDamage        \* bounds of the instance

ASSUME PipelineAssumption ==
    /\ Writes \subseteq Entries
    /\ memtable_max_size_bytes \in Nat /\ l0_compaction_trigger \in Nat \ {0}
    /\ MaxOps \in Nat /\ MaxDamage \in Nat

VARIABLES
    pc,
    writer,        \* the SsTableWriter of the flush or compaction in progress
    l0, l1,        \* registered tables: [id, reader, holds]; L0 newest first
    next_sst_id,
    tmps,          \* ids whose L1 .tmp file was left behind, not empty
    latest,        \* ghost: the last entry written for each key
    ops, damage

tables == <<l0, l1, next_sst_id, tmps>>
vars == <<pc, memtable, merge, writer, tables, latest, ops, damage>>

NoWriter == create(0)
Goto(step) == pc' = step
Proceeds == UNCHANGED <<latest, ops, damage>>

\* maybe_compact, reached by every call that got this far.
maybe_compact(levelZero) == IF Len(levelZero) < l0_compaction_trigger THEN "Idle" ELSE "Compact"

StartFlush == writer' = create(len') /\ Goto("FlushAdd")

-----------------------------------------------------------------------------
(* Calls                                                                   *)

\* put, put_indexed and delete: the memtable, then maybe_auto_flush.
Write(k, e) ==
    /\ pc = "Idle" /\ ops < MaxOps
    /\ CASE e.kind = "Put" -> put(k, e.value)
         [] e.kind = "Vector" -> put_vector(k, e.value)
         [] OTHER -> delete(k)
    /\ latest' = [latest EXCEPT ![k] = e]
    /\ IF approximate_size' >= memtable_max_size_bytes THEN StartFlush
       ELSE Goto(maybe_compact(l0)) /\ UNCHANGED writer
    /\ ops' = ops + 1
    /\ UNCHANGED <<merge, tables, damage>>

Flush ==
    /\ pc = "Idle" /\ ops < MaxOps
    /\ UNCHANGED memtable
    /\ IF is_empty THEN Goto(maybe_compact(l0)) /\ UNCHANGED writer ELSE StartFlush
    /\ ops' = ops + 1
    /\ UNCHANGED <<merge, tables, latest, damage>>

-----------------------------------------------------------------------------
(* flush_inner                                                             *)

\* The memtable's keys in order (BTreeMap), each through SsTableWriter::add,
\* whose order check can therefore refuse a key only in a merge.
StillToAdd == {k \in Keys : map[k] # NoEntry /\ k > writer.last_key}
FlushAdd ==
    /\ pc = "FlushAdd"
    /\ IF StillToAdd = {} THEN Goto("FlushFinish") /\ UNCHANGED writer
       ELSE LET k == Min(StillToAdd)
            IN  writer' = add(writer, k, map[k]) /\ UNCHANGED pc
    /\ Proceeds /\ UNCHANGED <<memtable, merge, tables>>

Table(holds) == [id |-> next_sst_id, reader |-> open(finish(writer)), holds |-> holds]

FlushFinish ==
    /\ pc = "FlushFinish"
    /\ IF Opens(finish(writer))
       THEN /\ l0' = <<Table(map)>> \o l0
            /\ next_sst_id' = next_sst_id + 1
            /\ Reset
            /\ Goto(maybe_compact(l0'))
       ELSE Goto("Idle") /\ UNCHANGED <<l0, next_sst_id, memtable>>
    /\ writer' = NoWriter
    /\ Proceeds /\ UNCHANGED <<merge, l1, tmps>>

-----------------------------------------------------------------------------
(* compact_l0_l1                                                           *)

\* An error leaves the levels as they are and the .tmp file behind.
CompactionFails ==
    /\ Goto("Idle")
    /\ tmps' = IF writer.file.len = 0 THEN tmps ELSE tmps \cup {next_sst_id}
    /\ writer' = NoWriter
    /\ UNCHANGED <<l0, l1, next_sst_id>>

\* A rough number of keys, to size the filter with.
expected_keys(readers) == 256 * MapThenSumSet(LAMBDA i : Len(readers[i].reader.index), DOMAIN readers)

\* MergingIterator::new, then SsTableWriter::create.
Compact ==
    /\ pc = "Compact"
    /\ IF NewFails(l1 \o l0) \/ next_sst_id \in tmps
       THEN CompactionFails /\ UNCHANGED merge
       ELSE /\ new(l1 \o l0)
            /\ writer' = create(expected_keys(l1 \o l0))
            /\ Goto("Next")
            /\ UNCHANGED tables
    /\ Proceeds /\ UNCHANGED memtable

\* The loop over the merge: an error ends it, and so does the last entry.
NextItem ==
    /\ pc = "Next"
    /\ \/ pending_error /\ CompactionFails /\ MergeReset
       \/ TakeWinner /\ Goto("Drain") /\ UNCHANGED <<writer, tables>>
       \/ /\ ~pending_error /\ heap = {}
          /\ Goto("Finish") /\ UNCHANGED <<merge, writer, tables>>
    /\ Proceeds /\ UNCHANGED memtable

Drain ==
    /\ pc = "Drain"
    /\ \/ DropStale /\ UNCHANGED pc
       \/ DrainDone /\ Goto("Refill") /\ UNCHANGED merge
    /\ Proceeds /\ UNCHANGED <<memtable, writer, tables>>

\* The merge hands the winner over: a tombstone is dropped, an entry added.
Dropped(e) == e.kind = "Tombstone"
Emit ==
    /\ pc = "Refill"
    /\ IF Dropped(winner.entry) \/ Accepts(writer, winner.key)
       THEN /\ RefillWinner
            /\ writer' = IF Dropped(winner.entry) THEN writer
                         ELSE add(writer, winner.key, winner.entry)
            /\ Goto("Next")
            /\ UNCHANGED tables
       ELSE CompactionFails /\ MergeReset
    /\ Proceeds /\ UNCHANGED memtable

\* What a table over the sources has to hold: of each key the newest entry,
\* unless that is a tombstone.
NewestOf(k) ==
    LET hits == {i \in DOMAIN sources : sources[i].holds[k] # NoEntry}
        newest == CHOOSE i \in hits : \A j \in hits : sources[j].id <= sources[i].id
    IN  IF hits = {} THEN NoEntry ELSE sources[newest].holds[k]
LiveNewest(k) == IF Dropped(NewestOf(k)) THEN NoEntry ELSE NewestOf(k)

NewL1 == IF writer.last_key = 0 THEN <<>>
           ELSE <<Table([k \in Keys |-> LiveNewest(k)])>>
Finish ==
    /\ pc = "Finish"
    /\ IF writer.last_key = 0 \/ Opens(finish(writer))
       THEN l0' = <<>> /\ l1' = NewL1 /\ next_sst_id' = next_sst_id + 1
       ELSE UNCHANGED <<l0, l1, next_sst_id>>
    /\ Goto("Idle")
    /\ writer' = NoWriter
    /\ MergeReset
    /\ Proceeds /\ UNCHANGED <<memtable, tmps>>

-----------------------------------------------------------------------------
\* A data block on disk no longer passes its CRC check.
Damaged(t, i) == [t EXCEPT !.reader.file.bad = @ \cup {i}]
Damage ==
    /\ pc = "Idle" /\ damage < MaxDamage
    /\ \/ \E n \in DOMAIN l0 : \E i \in DOMAIN l0[n].reader.index :
             l0' = [l0 EXCEPT ![n] = Damaged(@, i)] /\ UNCHANGED l1
       \/ \E n \in DOMAIN l1 : \E i \in DOMAIN l1[n].reader.index :
             l1' = [l1 EXCEPT ![n] = Damaged(@, i)] /\ UNCHANGED l0
    /\ damage' = damage + 1
    /\ UNCHANGED <<pc, memtable, merge, writer, next_sst_id, tmps, latest, ops>>

Init ==
    /\ pc = "Idle"
    /\ MemtableInit /\ MergeInit
    /\ writer = NoWriter
    /\ l0 = <<>> /\ l1 = <<>> /\ next_sst_id = 0 /\ tmps = {}
    /\ latest = EmptyMap
    /\ ops = 0 /\ damage = 0

Step == FlushAdd \/ FlushFinish \/ Compact \/ NextItem \/ Drain \/ Emit \/ Finish
Next == \/ \E k \in Keys, e \in Writes : Write(k, e)
        \/ Flush \/ Step \/ Damage

Spec == Init /\ [][Next]_vars

-----------------------------------------------------------------------------
(* Properties                                                              *)

\* Engine::get: the first of memtable, L0 from the newest, L1 that has an
\* entry or an error.
Lookup(k) ==
    LET readers == l0 \o l1
        hits == {i \in DOMAIN readers : get(readers[i].reader, k) # NoEntry}
    IN  CASE map[k] # NoEntry -> map[k]
          [] map[k] = NoEntry /\ hits # {} -> get(readers[Min(hits)].reader, k)
          [] OTHER -> NoEntry

\* Between calls a lookup answers with the last entry written, found through
\* filter, block index and block scan wherever flushes and compactions put
\* it; only a damaged block makes it an error, and never another answer.
GetExact ==
    pc = "Idle" => \A k \in Keys :
        IF Lookup(k) = Corruption THEN damage > 0
        ELSE Lookup(k).value = latest[k].value

\* Every registered table has blocks as its index says (SsTableWriter).
TablesWellFormed ==
    /\ \A i \in DOMAIN l0 : WellFormed(l0[i].reader)
    /\ \A i \in DOMAIN l1 : WellFormed(l1[i].reader)

\* The merge feeds the writer ascending keys, and the reader opens every
\* file the writer finishes: neither refuses what the other side produced.
NeverRefused ==
    /\ pc = "Refill" /\ ~Dropped(winner.entry) => Accepts(writer, winner.key)
    /\ pc = "FlushFinish" => Opens(finish(writer))
    /\ pc = "Finish" /\ writer.last_key # 0 => Opens(finish(writer))

\* Entries of the compaction's output so far.
Output(k) ==
    LET stored == {i \in DOMAIN writer.file.extents :
                      \E p \in DOMAIN writer.file.extents[i].content :
                          writer.file.extents[i].content[p].key = k}
        current == {p \in DOMAIN writer.current_block : writer.current_block[p].key = k}
    IN  CASE current # {} -> writer.current_block[Min(current)].entry
          [] stored # {} -> scan_block_for_key(writer.file.extents[Min(stored)].content, k)
          [] OTHER -> NoEntry

\* Up to the last key it has yielded, a merge has given the writer the newest
\* entry of every key, tombstones left out, and nothing beyond; when it ends
\* without an error it has done so for all keys: no source was cut short.
MergeExact ==
    /\ pc = "Next" => \A k \in Keys :
          Output(k) = IF k <= winner.key THEN LiveNewest(k) ELSE NoEntry
    /\ pc = "Finish" => \A k \in Keys : Output(k) = LiveNewest(k)

\* Entries a merge has still to look at: not yet read, and in the heap.
Unread(i) == LET r == sources[i].reader
                 n == Len(r.index)
                 it == iters[i]
                 entries(b) == Len(r.file.extents[b].content)
             IN  MapThenSumSet(entries, it.block_idx .. n) - it.pos
Left == MapThenSumSet(Unread, DOMAIN sources) + Cardinality(heap)

\* A compaction comes to its end: whenever the merge takes a winner or drops
\* an older entry it has less left to look at, and it never has more, also
\* when a source fails in the middle (the loops of MergingIterator::next).
MergeLoop == {"Next", "Drain", "Refill"}
MergeShrinks == /\ Left' <= Left
                /\ pc' = "Drain" => Left' < Left
MergeProgress == [][(pc \in MergeLoop /\ pc' \in MergeLoop) => MergeShrinks]_vars
=============================================================================

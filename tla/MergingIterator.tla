--------------------------- MODULE MergingIterator ---------------------------
(***************************************************************************)
(* The k-way merge of sorted table iterators (src/sstable/merge.rs).  The  *)
(* heap is the set of buffered entries, one per source at most, from which *)
(* the smallest key and, for equal keys, the highest sequence is taken.    *)
(* One call of next is three kinds of steps: taking the winner, dropping   *)
(* older entries for its key one by one, refilling the winner's source.    *)
(*                                                                         *)
(* ErrorForgotten, OldestOnTop and StaleKept are deliberately wrong        *)
(* variants of the operators they stand above.                             *)
(***************************************************************************)
EXTENDS SsTable

VARIABLES
    sources,        \* the readers merged: [id, reader, holds]
    iters,          \* their iterators
    heap,           \* [key, entry, source_idx, sequence]
    pending_error,
    winner          \* the last heap entry taken

merge == <<sources, iters, heap, pending_error, winner>>

HeapEntry(srcs, idx, item) == [key |-> item.key, entry |-> item.entry,
                               source_idx |-> idx, sequence |-> srcs[idx].id]
NoWinner == [key |-> 0, entry |-> NoEntry, source_idx |-> 0, sequence |-> 0]

\* HeapEntry::cmp: is g above h in the heap?
OldestOnTop(g, h) == g.key < h.key \/ (g.key = h.key /\ g.sequence <= h.sequence)
Above(g, h) == g.key < h.key \/ (g.key = h.key /\ g.sequence >= h.sequence)
Top == CHOOSE g \in heap : \A h \in heap : Above(g, h)

MergeInit == /\ sources = <<>> /\ iters = <<>> /\ heap = {}
             /\ pending_error = FALSE /\ winner = NoWinner
MergeReset == /\ sources' = <<>> /\ iters' = <<>> /\ heap' = {}
              /\ pending_error' = FALSE /\ winner' = NoWinner

\* The first item of each source; an error makes new fail.
First(tables, i) == iter_next(tables[i].reader, iter)
NewFails(tables) == \E i \in DOMAIN tables : First(tables, i).item = ErrItem
new(tables) ==
    /\ sources' = tables
    /\ iters' = [i \in DOMAIN tables |-> First(tables, i).it]
    /\ heap' = {HeapEntry(tables, i, First(tables, i).item) :
                   i \in {j \in DOMAIN tables : First(tables, j).item # EndItem}}
    /\ pending_error' = FALSE /\ winner' = NoWinner

\* refill: the next entry of a source goes to what remains of the heap; an
\* error is kept for the next call of next.
ErrorForgotten(item) == pending_error
PendingAfter(item) == pending_error \/ item = ErrItem
Refill(idx, rest) ==
    LET next == iter_next(sources[idx].reader, iters[idx])
    IN  /\ iters' = [iters EXCEPT ![idx] = next.it]
        /\ heap' = rest \cup (IF next.item \in {EndItem, ErrItem} THEN {}
                              ELSE {HeapEntry(sources, idx, next.item)})
        /\ pending_error' = PendingAfter(next.item)
        /\ UNCHANGED sources

TakeWinner ==
    /\ ~pending_error /\ heap # {}
    /\ winner' = Top
    /\ heap' = heap \ {Top}
    /\ UNCHANGED <<sources, iters, pending_error>>

\* Is an older entry for the winner's key on top?  An error ends the loop.
StaleOnTop == heap # {} /\ Top.key = winner.key
StaleKept == heap
WithoutStale == heap \ {Top}
DropStale ==
    /\ ~pending_error /\ StaleOnTop
    /\ Refill(Top.source_idx, WithoutStale)
    /\ UNCHANGED winner

DrainDone == pending_error \/ ~StaleOnTop
RefillWinner == Refill(winner.source_idx, heap) /\ UNCHANGED winner
=============================================================================

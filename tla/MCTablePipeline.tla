--------------------------- MODULE MCTablePipeline ---------------------------
(* Instances of TablePipeline for TLC. *)
EXTENDS TablePipeline

CONSTANTS short, long

KeyBytes == [k \in Keys |-> IF k = 2 THEN 2 ELSE 1]
ValueBytes == [v \in Values |-> IF v = short THEN 1 ELSE 30]
SomeWrites == {Put(short), Vector(long), Tombstone}

\* Keys 1 and 3 have the same hash; the sums of 2 wrap around.
Hashes == [k \in Keys |-> IF k = 2 THEN [h1 |-> HashSpace - 1, h2 |-> 2]
                          ELSE [h1 |-> 5, h2 |-> HashSpace - 4]]
=============================================================================

--------------------------- MODULE MCVectorEngine ---------------------------
(* Instances of VectorEngine for TLC. *)
EXTENDS VectorEngine

CONSTANTS a, b, c, t1, t2, k1, k2

OneDim == [v \in Vectors |-> 1]
TwoDims == [v \in Vectors |-> IF v = a THEN 1 ELSE 2]
Shared == [t \in Threads |-> Keys]
Owned == [t \in Threads |-> IF t = t1 THEN {k1} ELSE {k2}]

\* k2 belongs to both threads, k1 to the first alone.
Mixed == [t \in Threads |-> IF t = t1 THEN {k1, k2} ELSE {k2}]
=============================================================================

------------------------------ MODULE Memtable ------------------------------
(***************************************************************************)
(* The sorted write buffer (src/memtable.rs) with its running byte count.  *)
(* Keys are numbers in the order of their bytes, each with a length; a     *)
(* value is an identity with a length.                                     *)
(*                                                                         *)
(* KeyCountedAgain is a deliberately wrong variant of Accounted.           *)
(***************************************************************************)
EXTENDS Naturals, FiniteSets, FiniteSetsExt

CONSTANTS
    Keys,
    Values, NoValue,
    KeyLen,     \* [Keys -> Nat]
    ValueLen    \* [Values -> Nat]

Put(v) == [kind |-> "Put", value |-> v]
Vector(v) == [kind |-> "Vector", value |-> v]
Tombstone == [kind |-> "Tombstone", value |-> NoValue]
NoEntry == [kind |-> "None", value |-> NoValue]
Entries == {Put(v) : v \in Values} \cup {Vector(v) : v \in Values} \cup {Tombstone}

ASSUME MemtableAssumption ==
    /\ NoValue \notin Values
    /\ Keys \subseteq Nat \ {0} /\ IsFiniteSet(Keys)
    /\ KeyLen \in [Keys -> Nat \ {0}] /\ ValueLen \in [Values -> Nat]

VARIABLES
    map,               \* [Keys -> Entries \cup {NoEntry}]
    approximate_size

memtable == <<map, approximate_size>>

payload_size(e) == IF e.kind \in {"Put", "Vector"} THEN ValueLen[e.value] ELSE 0
saturating_sub(m, n) == IF m > n THEN m - n ELSE 0

\* A new key counts with its entry; an overwrite exchanges the payloads.
KeyCountedAgain(k, e) ==
    IF map[k] = NoEntry THEN approximate_size + KeyLen[k] + payload_size(e)
    ELSE saturating_sub(approximate_size, payload_size(map[k])) + KeyLen[k] + payload_size(e)
Accounted(k, e) ==
    IF map[k] = NoEntry THEN approximate_size + KeyLen[k] + payload_size(e)
    ELSE saturating_sub(approximate_size, payload_size(map[k])) + payload_size(e)

Insert(k, e) == /\ map' = [map EXCEPT ![k] = e]
                /\ approximate_size' = Accounted(k, e)
put(k, v) == Insert(k, Put(v))
put_vector(k, v) == Insert(k, Vector(v))
delete(k) == Insert(k, Tombstone)

\* Memtable::new.
EmptyMap == [k \in Keys |-> NoEntry]
Reset == map' = EmptyMap /\ approximate_size' = 0
MemtableInit == map = EmptyMap /\ approximate_size = 0

len == Cardinality({k \in Keys : map[k] # NoEntry})
is_empty == map = EmptyMap

\* The byte count that decides when to flush never drifts from the bytes the
\* memtable holds, whatever sequence of overwrites and deletes led to it.
SizeExact ==
    approximate_size = MapThenSumSet(LAMBDA k : KeyLen[k] + payload_size(map[k]),
                                     {k \in Keys : map[k] # NoEntry})
=============================================================================

----------------------------- MODULE DurableMap -----------------------------
(***************************************************************************)
(* What the engine promises a client of put, delete and get: a map from    *)
(* keys to values that survives crashes.  A write is submitted, then takes *)
(* effect at one instant; a write that is still in flight, or that         *)
(* returned an error, is in limbo, and a crash may keep it or drop it.     *)
(* A write that took effect is never undone.                               *)
(***************************************************************************)
CONSTANTS Keys, Values, Missing

VARIABLES store,  \* what get returns for each key
          limbo   \* per key, the answers a crash may still bring in

vars == <<store, limbo>>

Answers == Values \cup {Missing}

Init == /\ store = [k \in Keys |-> Missing]
        /\ limbo = [k \in Keys |-> {}]

\* A put or a delete (v = Missing) reaches the engine.
Submit(k, v) == /\ limbo' = [limbo EXCEPT ![k] = @ \cup {v}]
                /\ UNCHANGED store

\* The write takes effect; it supersedes every write of k before it.
Apply(k, v) == /\ v \in limbo[k]
               /\ store' = [store EXCEPT ![k] = v]
               /\ limbo' = [limbo EXCEPT ![k] = {}]

\* A crash decides the fate of every write in limbo.
Crash == /\ store' \in [Keys -> Answers]
         /\ \A k \in Keys : store'[k] \in {store[k]} \cup limbo[k]
         /\ limbo' = [k \in Keys |-> {}]

Next == \/ \E k \in Keys, v \in Answers : Submit(k, v) \/ Apply(k, v)
        \/ Crash

Spec == Init /\ [][Next]_vars
=============================================================================

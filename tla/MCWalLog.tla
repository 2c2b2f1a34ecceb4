------------------------------ MODULE MCWalLog ------------------------------
(* Instances of WalLog for TLC. *)
EXTENDS WalLog

\* Just inside and just outside the limits.
KeyLengths == {0, 1, MAX_KEY_LEN, MAX_KEY_LEN + 1}
ValueLengths == {0, MAX_VALUE_LEN, MAX_VALUE_LEN + 1}
=============================================================================

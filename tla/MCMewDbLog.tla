----------------------------- MODULE MCMewDbLog -----------------------------
(* Instance of MewDb for TLC: longer logs, two values per key to overwrite *)
(* each other, and keys and values of different lengths.                   *)
EXTENDS MewDb

CONSTANTS k1, k2, v1, v2

MCKey == {k1, k2}
MCVal == {v1, v2}
MCKeyLen == [k \in Key |-> IF k = k1 THEN 1 ELSE 3]
MCValLen == [v \in Val |-> IF v = v1 THEN 1 ELSE 2]
=============================================================================

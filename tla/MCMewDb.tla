------------------------------ MODULE MCMewDb ------------------------------
(* Instance of MewDb for TLC: two short keys, of which two records fill    *)
(* the memtable, a delete counts, and two tombstones fill it as well.      *)
EXTENDS MewDb, TLC

MCKeyLen == [k \in Key |-> 2]
MCValLen == [v \in Val |-> 1]

Keys == Permutations(Key)
=============================================================================

------------------------------- MODULE MCWal -------------------------------
(* Instance of Wal for TLC: the records are told apart by value only.      *)
EXTENDS Wal
=============================================================================

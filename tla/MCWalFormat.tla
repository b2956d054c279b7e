---------------------------- MODULE MCWalFormat -----------------------------
(* Instance of WalFormat for TLC: a set, then a delete of the same key.    *)
EXTENDS WalFormat

CONSTANTS k1, v1

MCKey == {k1}
MCVal == {v1}
MCCalls == (0 :> {<<k1, v1>>}) @@ (1 :> {<<k1, Tomb>>})
=============================================================================

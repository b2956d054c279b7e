-------------------------- MODULE MCSsTableFormat --------------------------
(* Instance of SsTableFormat for TLC: hashes that collide and wrap, and    *)
(* filters small enough to say "maybe" for keys that are not there.        *)
EXTENDS SsTableFormat

\* "a", "aa", "ab", "b", "ba"
MCStr == 1..5
MCLetters == <<<<1>>, <<1, 1>>, <<1, 2>>, <<2>>, <<2, 1>>>>
MCKey == 1..5
MCH1 == [k \in Key |-> (11 * k) % 16]
MCH2 == [k \in Key |-> (7 * k + 3) % 16]
MCBytesFor == [n \in 1..5 |-> (n + 1) \div 2]
MCHashesFor == [n \in 1..5 |-> 2]
=============================================================================

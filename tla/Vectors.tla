------------------------------ MODULE Vectors ------------------------------
(***************************************************************************)
(* Sequences in order: what the code does to std::vector, std::string and  *)
(* std::map.  A map is the sequence of its entries in the order of their   *)
(* keys, and a key is a number.                                            *)
(***************************************************************************)
EXTENDS FiniteSetsExt, SequencesExt

\* The place of x among the members of S.
Rank(S, x) == Cardinality({y \in S : y <= x})

\* The members of a set of numbers, from the least to the greatest.
InOrder(S) == [n \in 1..Cardinality(S) |-> CHOOSE x \in S : Rank(S, x) = n]

\* The elements of s at some places, in their order.
Picked(s, places) ==
    LET at == InOrder(places) IN [n \in DOMAIN at |-> s[at[n]]]

\* subtract_vectors(): the elements of curr that are not in remove, in their
\* order.  (SubtractVectors checks the loop itself against this.)
Subtract(curr, remove) ==
    Picked(curr, {p \in DOMAIN curr : \A q \in DOMAIN remove : curr[p] # remove[q]})

-----------------------------------------------------------------------------
\* std::string::operator<
Less(a, b) ==
    \/ IsStrictPrefix(a, b)
    \/ \E n \in (DOMAIN a) \cap (DOMAIN b) :
          a[n] < b[n] /\ \A m \in 1..(n - 1) : a[m] = b[m]

\* Mutant of LowerBound: upper_bound().
UpperBound(map, s) == Min({n \in DOMAIN map : map[n].key > s} \cup {Len(map) + 1})

\* lower_bound(): the place of the first entry whose key is not below s.
LowerBound(map, s) == Min({n \in DOMAIN map : map[n].key >= s} \cup {Len(map) + 1})

\* A loop from place n on, up to the first key that is not good.
While(map, n, good) ==
    LET stop == Min({i \in n..Len(map) : map[i].key \notin good} \cup {Len(map) + 1})
    IN  SubSeq(map, n, stop - 1)

=============================================================================

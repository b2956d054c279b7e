-------------------------- MODULE SubtractVectors --------------------------
(***************************************************************************)
(* The two-pointer loop of subtract_vectors() (src/src/manifest.cpp), on   *)
(* every pair of strictly ascending vectors over 0 .. MaxValue - 1, against*)
(* Subtract, which stands for it everywhere else.                          *)
(***************************************************************************)
EXTENDS Integers, Sequences, Vectors

CONSTANT MaxValue   \* bound: the values in the vectors

ASSUME MaxValueAssumption == MaxValue \in Nat

VARIABLES
    curr, remove,   \* the arguments
    i, j,           \* the pointers, here from 1
    result

vars == <<curr, remove, i, j, result>>

Ascending ==
    {s \in UNION {[1..n -> 0..(MaxValue - 1)] : n \in 0..MaxValue} :
        \A a, b \in DOMAIN s : a < b => s[a] < s[b]}

Init ==
    /\ curr \in Ascending /\ remove \in Ascending
    /\ i = 1 /\ j = 1 /\ result = <<>>

Both == i <= Len(curr) /\ j <= Len(remove)

\* Mutants of Equal and Skip: the wrong pointer moves.
EqualMovesOne ==
    /\ Both /\ curr[i] = remove[j]
    /\ j' = j + 1
    /\ UNCHANGED <<curr, remove, i, result>>
SkipMovesBoth ==
    /\ Both /\ curr[i] > remove[j]
    /\ i' = i + 1 /\ j' = j + 1
    /\ UNCHANGED <<curr, remove, result>>

Equal ==
    /\ Both /\ curr[i] = remove[j]
    /\ i' = i + 1 /\ j' = j + 1
    /\ UNCHANGED <<curr, remove, result>>

Keep ==
    /\ Both /\ curr[i] < remove[j]
    /\ result' = Append(result, curr[i])
    /\ i' = i + 1
    /\ UNCHANGED <<curr, remove, j>>

Skip ==
    /\ Both /\ curr[i] > remove[j]
    /\ j' = j + 1
    /\ UNCHANGED <<curr, remove, i, result>>

\* The second loop: what is left of curr is kept.
Rest ==
    /\ ~Both /\ i <= Len(curr)
    /\ result' = Append(result, curr[i])
    /\ i' = i + 1
    /\ UNCHANGED <<curr, remove, j>>

Next == Equal \/ Keep \/ Skip \/ Rest

Spec == Init /\ [][Next]_vars

Done == i > Len(curr)

\* What the loop returns is the elements of curr that are not in remove, in
\* their order.
ReturnsDifference == Done => result = Subtract(curr, remove)

\* While it runs, it has decided exactly the elements before i, and none of
\* those it passed over in remove is still to come in curr.
DecidedSoFar ==
    /\ result = Subtract(SubSeq(curr, 1, i - 1), remove)
    /\ \A q \in 1..(j - 1) : \A p \in i..Len(curr) : remove[q] < curr[p]

=============================================================================

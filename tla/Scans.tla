------------------------------- MODULE Scans --------------------------------
(***************************************************************************)
(* The loops that read a part of a std::map: those of the SSTable's range  *)
(* and prefix scans (src/src/ss_table.cpp) and of the engine's             *)
(* (src/src/db_engine.cpp).  A string is a number, by its place in the     *)
(* order of std::string, and has its characters in Letters.                *)
(***************************************************************************)
EXTENDS Vectors

CONSTANTS
    Str,        \* strings: keys, values and arguments
    Letters     \* the characters of each

ASSUME StringAssumption ==
    /\ Str \subseteq Nat
    /\ Letters \in [Str -> Seq(Nat)]
    /\ \A s, t \in Str : s < t <=> Less(Letters[s], Letters[t])

\* The strings that start with p.
WithPrefix(p) == {s \in Str : IsPrefix(Letters[p], Letters[s])}

UpTo(end) == {s \in Str : s <= end}

\* The entries of a map whose keys are in a set, in their order.
Only(map, keys) == Picked(map, {n \in DOMAIN map : map[n].key \in keys})

RangeLoop(map, start, end) == While(map, LowerBound(map, start), UpTo(end))

\* Mutant of PrefixLoop: it starts at begin().
PrefixLoopFromBegin(map, p) == While(map, 1, WithPrefix(p))

PrefixLoop(map, p) == While(map, LowerBound(map, p), WithPrefix(p))

=============================================================================

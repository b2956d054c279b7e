------------------------------- MODULE MCRepl -------------------------------
(* Instance of Repl for TLC: the strings "a", "aa", "ab", "b", of which    *)
(* "aa" is no key.                                                         *)
EXTENDS Repl

MCStr == 1..4
MCLetters == <<<<1>>, <<1, 1>>, <<1, 2>>, <<2>>>>
MCKey == {1, 3, 4}
MCVal == {1, 4}
=============================================================================

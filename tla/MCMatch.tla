------------------------------ MODULE MCMatch ------------------------------
(***************************************************************************)
(* Match for TLC: one game node that may stop, with a third character that *)
(* comes later and one kind of mishap; or two nodes and no mishap.         *)
(* Characters are interchangeable.                                         *)
(***************************************************************************)
EXTENDS Match, TLC

CONSTANTS c1, c2, c3

OneGame == [games |-> {0}, stops |-> {0}, logins |-> 3, mishaps |-> 1]
TwoGames == [games |-> {0, 1}, stops |-> {1}, logins |-> 2, mishaps |-> 0]
MCSettings == {OneGame, TwoGames}

Symmetry == Permutations(Chars)
=============================================================================

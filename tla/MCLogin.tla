------------------------------ MODULE MCLogin ------------------------------
(***************************************************************************)
(* Login for TLC: two users of one account.                                *)
(***************************************************************************)
EXTENDS Login, TLC

MCAccount == [u \in Users |-> "acc"]
Symmetry == Permutations(Users) \cup Permutations(Conns) \cup Permutations(Gates)
=============================================================================

------------------------------ MODULE MCWorld ------------------------------
(***************************************************************************)
(* World for TLC: accounts are only compared with each other and with 0,   *)
(* so they may be exchanged.                                               *)
(***************************************************************************)
EXTENDS World

Symmetry == Permutations(Accounts)
=============================================================================

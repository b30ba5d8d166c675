------------------------------ MODULE MCNodes ------------------------------
(***************************************************************************)
(* Nodes for TLC: the center, a world, and two gates that are started in   *)
(* any order, or one, not the first of its type, that stops.               *)
(***************************************************************************)
EXTENDS Nodes

World == <<4, 0>>
Gate0 == <<3, 0>>
Gate1 == <<3, 1>>

TwoGates == {Center, World, Gate0, Gate1}
OneGate == {Center, World, Gate1}
MCZones == {TwoGates, OneGate}
MCSubs == [n \in TwoGates |-> IF Tid(n) = 3 THEN <<4>> ELSE <<>>]
MCMaxCrashes == [z \in MCZones |-> IF z = OneGate THEN 1 ELSE 0]
=============================================================================

------------------------------ MODULE Gfreeid ------------------------------
(***************************************************************************)
(* base/gfreeid.h: an array of slots, [p, freep], the free ones linked     *)
(* through their ids, the one freed last first.  It doubles when no slot   *)
(* is free.  Pointers are indices, -1 is NULL; slot i is p[i + 1].         *)
(*                                                                         *)
(* What a slot holds, data, is neither cleared when it is allocated nor    *)
(* when it is freed; in slots the array has grown by it is whatever memory *)
(* has, the argument junk of the operators.                                *)
(***************************************************************************)
EXTENDS Integers, Sequences

_GFREEID_INITSLOTS(begin, end, junk) ==
    [k \in 1 .. end - begin |-> [id |-> IF begin + k = end THEN -1 ELSE begin + k,
                                 used |-> FALSE, data |-> junk]]

\* The least power of two that is not less than init.
GFREEID_INIT(init, junk) ==
    LET enough == {k \in 0 .. init : 2 ^ k >= init}
        cap == 2 ^ (CHOOSE k \in enough : \A j \in enough : k <= j)
    IN [p |-> _GFREEID_INITSLOTS(0, cap, junk), freep |-> 0]

GFREEID_CAP(gf) == Len(gf.p)
UsedSlots(gf) == {i \in 0 .. Len(gf.p) - 1 : gf.p[i + 1].used}

\* GFREEID_SLOT and GFREEID_USED.
Holds(gf, id) == id \in 0 .. Len(gf.p) - 1 /\ gf.p[id + 1].used
Data(gf, id) == gf.p[id + 1].data

FullyGrown(gf, junk) ==
    IF gf.freep # -1 THEN gf
    ELSE [p |-> gf.p \o _GFREEID_INITSLOTS(Len(gf.p), 2 * Len(gf.p), junk), freep |-> Len(gf.p)]

\* The slot the next allocation takes.
NextSlot(gf) == IF gf.freep # -1 THEN gf.freep ELSE Len(gf.p)

GFREEID_ALLOC(gf, junk) ==
    LET g == FullyGrown(gf, junk) IN
    [p |-> [g.p EXCEPT ![g.freep + 1].used = TRUE], freep |-> g.p[g.freep + 1].id]

GFREEID_FREE(gf, id) ==
    [p |-> [gf.p EXCEPT ![id + 1].id = gf.freep, ![id + 1].used = FALSE], freep |-> id]

GfreeidType(gf, type) ==
    /\ Len(gf.p) > 0 /\ gf.freep \in -1 .. Len(gf.p) - 1
    /\ \A k \in 1 .. Len(gf.p) :
         /\ gf.p[k].id \in -1 .. Len(gf.p) - 1
         /\ gf.p[k].used \in BOOLEAN /\ gf.p[k].data \in type
=============================================================================

------------------------------ MODULE IdTable -------------------------------
(***************************************************************************)
(* What freeid.h promises its callers: a partial injection from hashes to  *)
(* ids.  An id is refused only when every id is held.                      *)
(***************************************************************************)
EXTENDS Integers

CONSTANTS IdSet, HashSet

VARIABLE held   \* held[h]: the id hash h holds, or -1

Used == {held[h] : h \in HashSet} \ {-1}

TableInit == held = [h \in HashSet |-> -1]

Acquire(h) ==
    /\ held[h] = -1
    /\ \E id \in IdSet \ Used : held' = [held EXCEPT ![h] = id]

Refuse(h) ==
    /\ held[h] = -1
    /\ IdSet \subseteq Used
    /\ UNCHANGED held

Release(h) ==
    /\ held[h] # -1
    /\ held' = [held EXCEPT ![h] = -1]

TableNext == \E h \in HashSet : Acquire(h) \/ Refuse(h) \/ Release(h)

TableSpec == TableInit /\ [][TableNext]_held
=============================================================================

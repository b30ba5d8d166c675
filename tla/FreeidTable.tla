---------------------------- MODULE FreeidTable -----------------------------
(***************************************************************************)
(* The table of Freeid driven by a caller that allocates a hash only while *)
(* the hash holds nothing, as the gate and the world do.  The table        *)
(* implements IdTable.                                                     *)
(***************************************************************************)
EXTENDS Freeid

VARIABLES fi,      \* struct freeid
          refused  \* the last call was an allocation that returned -1

vars == <<fi, refused>>

Init == fi = freeid_init /\ refused = FALSE

Alloc(hash) ==
    /\ freeid_find(fi, hash) = -1
    /\ AllocAsserts(fi, hash)
    /\ refused' = freeid_full(fi, hash)
    /\ fi' = freeid_alloc(fi, hash)

Free(hash) ==
    /\ fi' = freeid_free(fi, hash)
    /\ refused' = FALSE

Next == \E hash \in Hashes : Alloc(hash) \/ Free(hash)

Spec == Init /\ [][Next]_vars

-----------------------------------------------------------------------------

TypeOK == fi \in FreeidType /\ refused \in BOOLEAN

\* Two hashes never hold one id and every id nobody holds is on the free list,
\* whatever the order of allocations and releases, the list running empty included.
TableOK == WellFormed(fi)

\* assert(id >= 0) of freeid_alloc, and its read of *fi->free: an allocation
\* always finds NULL or an element of ids[].
AllocSafe == \A hash \in Hashes : AllocAsserts(fi, hash)

\* An allocation is refused only when every id is held: no id is ever lost.
RefusedOnlyWhenFull == refused => Ids \subseteq Held(fi)

\* No id is lost, held twice or left over.
TableIsSound == TypeOK /\ TableOK /\ RefusedOnlyWhenFull

\* The table implements the partial injection its callers rely on.
Abstract == INSTANCE IdTable WITH IdSet <- Ids, HashSet <- Hashes, held <- fi.slots
ImplementsIdTable == Abstract!TableSpec
=============================================================================

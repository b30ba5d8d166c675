------------------------------- MODULE Freeid -------------------------------
(***************************************************************************)
(* base/freeid.h: a table that gives a caller's "hash" (a connection id in *)
(* the gate, gid*hmax+cid in the world) a small dense id.  ids[] is an     *)
(* intrusive LIFO list of the ids nobody holds, free points at its first   *)
(* element, slots[hash] is the id the hash holds or -1.                    *)
(*                                                                         *)
(* Pointers are indices.  freeid_free stores fi->free - fi->ids in an int, *)
(* also when fi->free is NULL; freeid_alloc later turns that int back into *)
(* a pointer.  The round trip gives NULL again when the array lies below   *)
(* 2^33 (the byte distance, divided by 4, fits the int), and a pointer     *)
(* outside the array otherwise: LowHeap says which of the two the build    *)
(* has.                                                                    *)
(***************************************************************************)
EXTENDS Integers

CONSTANTS Cap,      \* number of ids
          HashCap,  \* number of hashes
          LowHeap   \* ids[] is allocated below 2^33

\* freeid_init raises a small hashcap to cap.
ASSUME FreeidAssumption ==
    /\ Cap \in Nat \ {0}
    /\ HashCap \in Nat
    /\ HashCap >= Cap
    /\ LowHeap \in BOOLEAN

Ids == 0 .. Cap - 1
Hashes == 0 .. HashCap - 1

NULL == -1      \* a NULL free pointer; also the link that ends the list
NullDiff == -2  \* (int)(NULL - ids), the link freeid_free writes into an empty list
Wild == -3      \* a free pointer that is neither NULL nor in the array

Pointers == Ids \cup {NULL, Wild}
Links == Ids \cup {NULL, NullDiff}

-----------------------------------------------------------------------------
\* Mutants: what plausible slips in freeid.h would do.

FullIgnoresList(fi, hash) == hash \notin Hashes
AllocKeepsHead(fi, hash) ==
    IF fi.free \in Ids THEN [fi EXCEPT !.slots[hash] = fi.free] ELSE fi
FreeForgetsLink(fi, hash) ==
    LET id == fi.slots[hash] IN
    IF id = -1 THEN fi ELSE [fi EXCEPT !.slots[hash] = -1, !.free = id]

-----------------------------------------------------------------------------

freeid_init ==
    [ids   |-> [i \in Ids |-> IF i = Cap - 1 THEN NULL ELSE i + 1],
     free  |-> 0,
     slots |-> [h \in Hashes |-> -1]]

freeid_full(fi, hash) == ~ (hash \in Hashes /\ fi.free # NULL)

freeid_find(fi, hash) == IF hash \in Hashes THEN fi.slots[hash] ELSE -1

\* &fi->ids[next]
AddressOf(next) == IF next = NullDiff THEN (IF LowHeap THEN NULL ELSE Wild) ELSE next

\* fi->free - fi->ids
LinkTo(pointer) == IF pointer \in Ids THEN pointer ELSE NullDiff

\* The value freeid_alloc returns, and the table it leaves.
AllocId(fi, hash) == IF freeid_full(fi, hash) THEN -1 ELSE fi.free

freeid_alloc(fi, hash) ==
    IF freeid_full(fi, hash)
    THEN fi
    ELSE [fi EXCEPT !.free = AddressOf(fi.ids[fi.free]),
                    !.slots[hash] = fi.free]

\* assert(id >= 0) and the read of *fi->free both need a pointer into the array.
AllocAsserts(fi, hash) == freeid_full(fi, hash) \/ fi.free \in Ids

\* The value freeid_free returns is freeid_find(fi, hash); the table it leaves:
freeid_free(fi, hash) ==
    LET id == freeid_find(fi, hash) IN
    IF id = -1
    THEN fi
    ELSE [fi EXCEPT !.slots[hash] = -1,
                    !.ids[id] = LinkTo(fi.free),
                    !.free = id]

FreeidType == [ids : [Ids -> Links], free : Pointers, slots : [Hashes -> Ids \cup {-1}]]

Held(fi) == {fi.slots[h] : h \in Hashes} \ {-1}

\* chain is the free list, head first.
IsFreeList(fi, n, chain) ==
    /\ \A j, k \in 1 .. n : chain[j] = chain[k] => j = k
    /\ fi.free = IF n = 0 THEN NULL ELSE chain[1]
    /\ \A k \in 1 .. n : IF k = n THEN AddressOf(fi.ids[chain[k]]) = NULL
                                  ELSE fi.ids[chain[k]] = chain[k + 1]
    /\ \A i \in Ids : i \in Held(fi) <=> \A k \in 1 .. n : chain[k] # i

\* No two hashes hold one id, and the ids on the free list are those nobody holds.
WellFormed(fi) ==
    /\ fi \in FreeidType
    /\ \A g, h \in Hashes : fi.slots[g] = fi.slots[h] /\ g # h => fi.slots[g] = -1
    /\ \E n \in 0 .. Cap : \E chain \in [1 .. n -> Ids] : IsFreeList(fi, n, chain)
=============================================================================

---------------------------- MODULE FreeidProofs ----------------------------
(***************************************************************************)
(* Theorems about the table of Freeid for every number of ids and hashes,  *)
(* on a build whose heap is low enough for the empty list's link (LowHeap).*)
(***************************************************************************)
EXTENDS FreeidTable, FreeidLemmas

-----------------------------------------------------------------------------
\* The inductive invariant: the table is well formed, and the last allocation
\* was refused only if every id was held.
TableInv == TableOK /\ refused \in BOOLEAN /\ RefusedOnlyWhenFull

LEMMA TableInvInit == Init => TableInv
BY InitIsWellFormed DEF Init, TableInv, TableOK, RefusedOnlyWhenFull

LEMMA TableInvNext ==
    ASSUME LowHeap, TableInv, [Next]_vars
    PROVE  TableInv'
<1>1. ASSUME NEW hash \in Hashes, Alloc(hash)
      PROVE  TableInv'
  <2>1. WellFormed(fi) /\ fi.slots[hash] = -1
    BY <1>1 DEF Alloc, freeid_find, TableInv, TableOK
  <2>2. /\ WellFormed(freeid_alloc(fi, hash))
        /\ freeid_full(fi, hash) => Ids \subseteq Held(fi)
    BY <2>1, AllocKeepsWellFormed
  <2>3. freeid_full(fi, hash) => freeid_alloc(fi, hash) = fi
    BY DEF freeid_alloc
  <2>4. freeid_full(fi, hash) \in BOOLEAN
    BY DEF freeid_full
  <2> QED
    BY <1>1, <2>2, <2>3, <2>4 DEF Alloc, TableInv, TableOK, RefusedOnlyWhenFull
<1>2. ASSUME NEW hash \in Hashes, Free(hash)
      PROVE  TableInv'
  BY <1>2, FreeKeepsWellFormed DEF Free, TableInv, TableOK, RefusedOnlyWhenFull
<1>3. CASE UNCHANGED vars
  BY <1>3 DEF vars, TableInv, TableOK, RefusedOnlyWhenFull
<1> QED
  BY <1>1, <1>2, <1>3 DEF Next

\* On a low heap, whatever the calls and the sizes: no two hashes hold one id,
\* every id is held or on the free list once, and an allocation is refused only
\* when every id is held.
THEOREM TableStaysWellFormed == LowHeap => (Spec => []TableIsSound)
<1> SUFFICES ASSUME LowHeap PROVE Spec => []TableIsSound
  OBVIOUS
<1>1. Init => TableInv
  BY TableInvInit
<1>2. TableInv /\ [Next]_vars => TableInv'
  BY TableInvNext
<1>3. TableInv => TableIsSound
  BY DEF TableInv, TableIsSound, TypeOK, TableOK, WellFormed
<1> QED
  BY <1>1, <1>2, <1>3, PTL DEF Spec

\* On a low heap assert(id >= 0) of freeid_alloc never fails.
THEOREM AllocNeverAsserts == LowHeap => (Spec => []AllocSafe)
<1> SUFFICES ASSUME LowHeap PROVE Spec => []AllocSafe
  OBVIOUS
<1>1. TableInv => AllocSafe
  <2> SUFFICES ASSUME TableInv, NEW hash \in Hashes PROVE AllocAsserts(fi, hash)
    BY DEF AllocSafe
  <2>1. PICK n \in 0 .. Cap : \E chain \in [1 .. n -> Ids] : IsFreeList(fi, n, chain)
    BY DEF TableInv, TableOK, WellFormed
  <2>2. PICK chain \in [1 .. n -> Ids] : IsFreeList(fi, n, chain)
    BY <2>1
  <2> QED
    BY <2>2 DEF IsFreeList, AllocAsserts, freeid_full
<1>2. Init => TableInv
  BY TableInvInit
<1>3. TableInv /\ [Next]_vars => TableInv'
  BY TableInvNext
<1> QED
  BY <1>1, <1>2, <1>3, PTL DEF Spec

\* On a low heap the table implements the partial injection of IdTable: every
\* call is an Acquire of an id nobody holds, a Refuse with every id held, a
\* Release, or changes nothing.
THEOREM TableImplementsIdTable == LowHeap => (Spec => ImplementsIdTable)
<1> SUFFICES ASSUME LowHeap PROVE Spec => ImplementsIdTable
  OBVIOUS
<1>1. Init => Abstract!TableInit
  BY DEF Init, freeid_init, Abstract!TableInit
<1>2. TableInv /\ [Next]_vars => [Abstract!TableNext]_(fi.slots)
  <2> SUFFICES ASSUME TableInv, [Next]_vars PROVE [Abstract!TableNext]_(fi.slots)
    OBVIOUS
  <2>0. WellFormed(fi) /\ fi.slots \in [Hashes -> Ids \cup {-1}]
    BY DEF TableInv, TableOK, WellFormed, FreeidType
  <2>1. ASSUME NEW hash \in Hashes, Alloc(hash)
        PROVE  [Abstract!TableNext]_(fi.slots)
    <3>1. fi.slots[hash] = -1
      BY <2>1 DEF Alloc, freeid_find
    <3>2. CASE freeid_full(fi, hash)
      BY <2>1, <3>2 DEF Alloc, freeid_alloc
    <3>3. CASE ~ freeid_full(fi, hash)
      <4>1. /\ fi.free \in Ids \ Held(fi)
            /\ fi'.slots = [fi.slots EXCEPT ![hash] = fi.free]
        BY <2>0, <2>1, <3>1, <3>3, AllocKeepsWellFormed DEF Alloc
      <4> QED
        BY <3>1, <4>1 DEF Abstract!TableNext, Abstract!Acquire, Abstract!Used, Held
    <3> QED
      BY <3>2, <3>3
  <2>2. ASSUME NEW hash \in Hashes, Free(hash)
        PROVE  [Abstract!TableNext]_(fi.slots)
    <3>1. fi'.slots = [fi.slots EXCEPT ![hash] = -1]
      BY <2>0, <2>2, FreeKeepsWellFormed DEF Free
    <3>2. fi.slots[hash] = -1 => fi'.slots = fi.slots
      BY <2>0, <3>1
    <3>3. fi.slots[hash] # -1 => Abstract!Release(hash)
      BY <3>1 DEF Abstract!Release
    <3> QED
      BY <3>2, <3>3 DEF Abstract!TableNext
  <2>3. CASE UNCHANGED vars
    BY <2>3 DEF vars
  <2> QED
    BY <2>1, <2>2, <2>3 DEF Next
<1>3. Init => TableInv
  BY TableInvInit
<1>4. TableInv /\ [Next]_vars => TableInv'
  BY TableInvNext
<1> QED
  BY <1>1, <1>2, <1>3, <1>4, PTL DEF Spec, ImplementsIdTable, Abstract!TableSpec
=============================================================================

---------------------------- MODULE FreeidLemmas ----------------------------
(***************************************************************************)
(* What the operations of Freeid do to a well-formed table, for every      *)
(* number of ids and hashes, on a build whose heap is low enough for the   *)
(* empty list's link (LowHeap).                                            *)
(***************************************************************************)
EXTENDS Freeid, FiniteSetTheorems, TLAPS

\* The free list has at most Cap elements: they are different ids.
LEMMA ChainIsShort ==
    ASSUME NEW n \in Nat, NEW chain \in [1 .. n -> Ids],
           \A j, k \in 1 .. n : chain[j] = chain[k] => j = k
    PROVE  n <= Cap
<1>1. IsFiniteSet(1 .. n) /\ Cardinality(1 .. n) = n
  <2>1. n >= 1 => IsFiniteSet(1 .. n) /\ Cardinality(1 .. n) = n - 1 + 1
    BY FS_Interval
  <2>2. n = 0 => 1 .. n = {}
    OBVIOUS
  <2>3. IsFiniteSet({}) /\ Cardinality({}) = 0
    BY FS_EmptySet
  <2> QED
    BY <2>1, <2>2, <2>3
<1>2. IsFiniteSet(Ids) /\ Cardinality(Ids) = Cap
  <2>1. 0 <= Cap - 1 /\ 0 \in Int /\ Cap - 1 \in Int /\ Cap - 1 - 0 + 1 = Cap
    BY FreeidAssumption
  <2> QED
    BY <2>1, FS_Interval DEF Ids
<1>3. chain \in Injection(1 .. n, Ids)
  BY DEF Injection, IsInjective
<1> QED
  BY <1>1, <1>2, <1>3, FS_Injection

\* A call of freeid_init leaves a well-formed table, all of it free.
LEMMA InitIsWellFormed == WellFormed(freeid_init)
<1> DEFINE chain == [k \in 1 .. Cap |-> k - 1]
<1>1. chain \in [1 .. Cap -> Ids]
  BY FreeidAssumption DEF Ids
<1>2. freeid_init \in FreeidType
  BY FreeidAssumption DEF freeid_init, FreeidType, Pointers, Links, Ids, NULL, NullDiff
<1>3. Held(freeid_init) = {}
  BY DEF Held, freeid_init
<1>4. IsFreeList(freeid_init, Cap, chain)
  <2>1. \A j, k \in 1 .. Cap : chain[j] = chain[k] => j = k
    OBVIOUS
  <2>2. freeid_init.free = chain[1] /\ Cap # 0
    BY FreeidAssumption DEF freeid_init
  <2>3. ASSUME NEW k \in 1 .. Cap
        PROVE  IF k = Cap THEN AddressOf(freeid_init.ids[chain[k]]) = NULL
                          ELSE freeid_init.ids[chain[k]] = chain[k + 1]
    BY <1>1, FreeidAssumption DEF freeid_init, Ids, AddressOf, NULL, NullDiff
  <2>4. ASSUME NEW i \in Ids
        PROVE  ~ \A k \in 1 .. Cap : chain[k] # i
    <3>1. i + 1 \in 1 .. Cap /\ chain[i + 1] = i
      BY FreeidAssumption DEF Ids
    <3> QED
      BY <3>1
  <2> HIDE DEF chain
  <2> QED
    BY <1>3, <2>1, <2>2, <2>3, <2>4 DEF IsFreeList
<1>5. \A g, h \in Hashes : freeid_init.slots[g] = -1
  BY DEF freeid_init
<1> QED
  BY <1>1, <1>2, <1>4, <1>5, FreeidAssumption DEF WellFormed

\* A call of freeid_alloc for a hash that holds nothing takes the head of the
\* free list; the list that is left holds the ids nobody holds.
LEMMA AllocKeepsWellFormed ==
    ASSUME LowHeap, NEW f, WellFormed(f), NEW h \in Hashes, f.slots[h] = -1
    PROVE  /\ WellFormed(freeid_alloc(f, h))
           /\ AllocAsserts(f, h)
           /\ ~ freeid_full(f, h) =>
                 /\ f.free \in Ids \ Held(f)
                 /\ freeid_alloc(f, h).slots = [f.slots EXCEPT ![h] = f.free]
           /\ freeid_full(f, h) => Ids \subseteq Held(f)
<1> DEFINE g == freeid_alloc(f, h)
<1>0. PICK n \in 0 .. Cap : \E chain \in [1 .. n -> Ids] : IsFreeList(f, n, chain)
  BY DEF WellFormed
<1>1. PICK chain \in [1 .. n -> Ids] : IsFreeList(f, n, chain)
  BY <1>0
<1>2. f \in FreeidType
  BY DEF WellFormed
<1>3. CASE n = 0
  <2>1. freeid_full(f, h)
    BY <1>1, <1>3 DEF IsFreeList, freeid_full
  <2>2. Ids \subseteq Held(f)
    BY <1>1, <1>3 DEF IsFreeList
  <2> QED
    BY <2>1, <2>2 DEF freeid_alloc, AllocAsserts
<1>4. CASE n # 0
  <2> DEFINE rest == [k \in 1 .. n - 1 |-> chain[k + 1]]
  <2>1. n \in Nat /\ n >= 1 /\ n - 1 \in 0 .. Cap /\ 1 \in 1 .. n
    BY <1>4, FreeidAssumption
  <2>2. f.free = chain[1] /\ f.free \in Ids /\ f.free # NULL
    BY <1>1, <1>4, <2>1 DEF IsFreeList, Ids, NULL
  <2>3. ~ freeid_full(f, h)
    BY <2>2 DEF freeid_full
  <2>4. f.free \notin Held(f)
    BY <1>1, <2>1, <2>2 DEF IsFreeList
  <2>5. /\ g.ids = f.ids
        /\ g.free = AddressOf(f.ids[f.free])
        /\ g.slots = [f.slots EXCEPT ![h] = f.free]
        /\ g = [ids |-> g.ids, free |-> g.free, slots |-> g.slots]
    BY <1>2, <2>3 DEF freeid_alloc, FreeidType
  <2>6. rest \in [1 .. n - 1 -> Ids]
    BY <2>1
  <2>7. g.free = IF n - 1 = 0 THEN NULL ELSE rest[1]
    <3>1. IF 1 = n THEN AddressOf(f.ids[chain[1]]) = NULL
                   ELSE f.ids[chain[1]] = chain[2]
      BY <1>1, <2>1 DEF IsFreeList
    <3>2. n # 1 => chain[2] \in Ids /\ AddressOf(chain[2]) = chain[2] /\ rest[1] = chain[2]
      BY <2>1 DEF Ids, AddressOf, NullDiff
    <3> QED
      BY <2>1, <2>2, <2>5, <3>1, <3>2
  <2>8. g \in FreeidType
    <3>1. g.free \in Pointers
      BY <2>1, <2>6, <2>7 DEF Pointers
    <3>2. g.slots \in [Hashes -> Ids \cup {-1}]
      BY <1>2, <2>2, <2>5 DEF FreeidType
    <3> QED
      BY <1>2, <2>5, <3>1, <3>2 DEF FreeidType
  <2>9. ASSUME NEW a \in Hashes, NEW b \in Hashes, g.slots[a] = g.slots[b], a # b
        PROVE  g.slots[a] = -1
    <3>1. \A x \in Hashes : f.slots[x] # f.free
      BY <2>2, <2>4 DEF Held, Ids
    <3> QED
      BY <1>2, <2>5, <2>9, <3>1 DEF WellFormed, FreeidType
  <2>10. \A i \in Ids : i \in Held(g) <=> i \in Held(f) \/ i = f.free
    <3>1. \A i \in Ids : i \in Held(f) <=> \E x \in Hashes : f.slots[x] = i
      BY DEF Held, Ids
    <3>2. \A i \in Ids : i \in Held(g) <=> \E x \in Hashes : g.slots[x] = i
      BY DEF Held, Ids
    <3>3. \A x \in Hashes : g.slots[x] = IF x = h THEN f.free ELSE f.slots[x]
      BY <1>2, <2>5 DEF FreeidType
    <3>4. \A i \in Ids : i # f.slots[h]
      BY DEF Ids
    <3> QED
      BY <3>1, <3>2, <3>3, <3>4
  <2>11. IsFreeList(g, n - 1, rest)
    <3>1. \A j, k \in 1 .. n - 1 : rest[j] = rest[k] => j = k
      <4>1. \A j \in 1 .. n - 1 : j + 1 \in 1 .. n /\ rest[j] = chain[j + 1]
        BY <2>1
      <4> QED
        BY <1>1, <4>1, <2>1 DEF IsFreeList
    <3>2. ASSUME NEW k \in 1 .. n - 1
          PROVE  IF k = n - 1 THEN AddressOf(g.ids[rest[k]]) = NULL
                              ELSE g.ids[rest[k]] = rest[k + 1]
      <4>1. k + 1 \in 1 .. n /\ rest[k] = chain[k + 1] /\ (k + 1 = n <=> k = n - 1)
        BY <2>1
      <4>2. k # n - 1 => rest[k + 1] = chain[k + 1 + 1]
        BY <2>1
      <4>3. IF k + 1 = n THEN AddressOf(f.ids[chain[k + 1]]) = NULL
                         ELSE f.ids[chain[k + 1]] = chain[k + 1 + 1]
        BY <1>1, <4>1 DEF IsFreeList
      <4> QED
        BY <2>5, <4>1, <4>2, <4>3
    <3>3. ASSUME NEW i \in Ids
          PROVE  i \in Held(g) <=> \A k \in 1 .. n - 1 : rest[k] # i
      <4>1. i \in Held(f) <=> \A k \in 1 .. n : chain[k] # i
        BY <1>1 DEF IsFreeList
      <4>2. \A k \in 1 .. n : k # 1 => k - 1 \in 1 .. n - 1 /\ rest[k - 1] = chain[k]
        BY <2>1
      <4>3. \A k \in 1 .. n - 1 : k + 1 \in 1 .. n /\ k + 1 # 1 /\ rest[k] = chain[k + 1]
        BY <2>1
      <4>4. \A k \in 1 .. n : k # 1 => chain[k] # chain[1]
        BY <1>1, <2>1 DEF IsFreeList
      <4> HIDE DEF rest
      <4> QED
        BY <2>1, <2>2, <2>10, <4>1, <4>2, <4>3, <4>4
    <3> HIDE DEF g, rest
    <3> QED
      BY <2>7, <3>1, <3>2, <3>3 DEF IsFreeList
  <2>12. WellFormed(g)
    <3> HIDE DEF g, rest
    <3> QED
      BY <2>1, <2>6, <2>8, <2>9, <2>11 DEF WellFormed
  <2> QED
    BY <2>2, <2>3, <2>4, <2>5, <2>12 DEF AllocAsserts
<1> QED
  BY <1>3, <1>4

\* A call of freeid_free puts the id of the hash, if any, at the head of the list.
LEMMA FreeKeepsWellFormed ==
    ASSUME LowHeap, NEW f, WellFormed(f), NEW h \in Hashes
    PROVE  /\ WellFormed(freeid_free(f, h))
           /\ freeid_free(f, h).slots = [f.slots EXCEPT ![h] = -1]
<1> DEFINE g == freeid_free(f, h)
           id == f.slots[h]
<1>0. PICK n \in 0 .. Cap : \E chain \in [1 .. n -> Ids] : IsFreeList(f, n, chain)
  BY DEF WellFormed
<1>1. PICK chain \in [1 .. n -> Ids] : IsFreeList(f, n, chain)
  BY <1>0
<1>2. f \in FreeidType /\ id \in Ids \cup {-1}
  BY DEF WellFormed, FreeidType
<1>3. CASE id = -1
  BY <1>2, <1>3 DEF freeid_free, freeid_find, FreeidType
<1>4. CASE id # -1
  <2> DEFINE more == [k \in 1 .. n + 1 |-> IF k = 1 THEN id ELSE chain[k - 1]]
  <2>1. id \in Ids /\ n \in Nat /\ n + 1 \in Nat
    BY <1>2, <1>4
  <2>2. /\ g.ids = [f.ids EXCEPT ![id] = LinkTo(f.free)]
        /\ g.free = id
        /\ g.slots = [f.slots EXCEPT ![h] = -1]
        /\ g = [ids |-> g.ids, free |-> g.free, slots |-> g.slots]
    BY <1>2, <1>4 DEF freeid_free, freeid_find, FreeidType
  <2>3. more \in [1 .. n + 1 -> Ids]
    BY <2>1
  <2>4. \A k \in 1 .. n : chain[k] # id
    BY <1>1, <2>1, <1>4 DEF IsFreeList, Held
  <2>5. \A j, k \in 1 .. n + 1 : more[j] = more[k] => j = k
    <3>1. \A k \in 1 .. n + 1 : k # 1 => k - 1 \in 1 .. n /\ more[k] = chain[k - 1]
      BY <2>1
    <3>2. more[1] = id
      BY <2>1
    <3>3. \A j, k \in 1 .. n : chain[j] = chain[k] => j = k
      BY <1>1 DEF IsFreeList
    <3> HIDE DEF more
    <3> QED
      BY <2>1, <2>4, <3>1, <3>2, <3>3
  <2>6. n + 1 \in 0 .. Cap
    <3>1. n + 1 <= Cap
      BY <2>1, <2>3, <2>5, ChainIsShort
    <3> QED
      BY <2>1, <3>1, FreeidAssumption
  <2>7. g \in FreeidType
    <3>1. LinkTo(f.free) \in Links
      BY DEF LinkTo, Links
    <3>2. g.ids \in [Ids -> Links] /\ g.free \in Pointers /\ g.slots \in [Hashes -> Ids \cup {-1}]
      BY <1>2, <2>1, <2>2, <3>1 DEF FreeidType, Pointers
    <3> QED
      BY <2>2, <3>2 DEF FreeidType
  <2>8. \A x \in Hashes : g.slots[x] = IF x = h THEN -1 ELSE f.slots[x]
    BY <1>2, <2>2 DEF FreeidType
  <2>9. \A a, b \in Hashes : g.slots[a] = g.slots[b] /\ a # b => g.slots[a] = -1
    BY <2>8 DEF WellFormed
  <2>10. \A i \in Ids : i \in Held(g) <=> i \in Held(f) /\ i # id
    <3>1. \A i \in Ids : i \in Held(f) <=> \E x \in Hashes : f.slots[x] = i
      BY DEF Held, Ids
    <3>2. \A i \in Ids : i \in Held(g) <=> \E x \in Hashes : g.slots[x] = i
      BY DEF Held, Ids
    <3>3. \A x \in Hashes : x # h => f.slots[x] # id
      BY <1>4 DEF WellFormed
    <3>4. -1 \notin Ids
      BY DEF Ids
    <3> HIDE DEF g
    <3> QED
      BY <2>8, <3>1, <3>2, <3>3, <3>4
  <2>11. IsFreeList(g, n + 1, more)
    <3>1. g.free = more[1] /\ n + 1 # 0
      BY <2>1, <2>2
    <3>2. ASSUME NEW k \in 1 .. n + 1
          PROVE  IF k = n + 1 THEN AddressOf(g.ids[more[k]]) = NULL
                              ELSE g.ids[more[k]] = more[k + 1]
      <4>1. CASE k = 1
        <5>1. g.ids[more[k]] = LinkTo(f.free)
          BY <1>2, <2>1, <2>2, <4>1 DEF FreeidType
        <5>2. CASE n = 0
          <6>1. f.free = NULL
            BY <1>1, <5>2 DEF IsFreeList
          <6>2. LinkTo(f.free) = NullDiff
            BY <6>1 DEF LinkTo, Ids, NULL
          <6> QED
            BY <4>1, <5>1, <5>2, <6>2 DEF AddressOf
        <5>3. CASE n # 0
          <6>1. f.free = chain[1] /\ chain[1] \in Ids
            BY <1>1, <2>1, <5>3 DEF IsFreeList
          <6>2. more[k + 1] = chain[1]
            BY <2>1, <4>1, <5>3
          <6> QED
            BY <2>1, <4>1, <5>1, <5>3, <6>1, <6>2 DEF LinkTo
        <5> QED
          BY <5>2, <5>3
      <4>2. CASE k # 1
        <5>1. k - 1 \in 1 .. n /\ more[k] = chain[k - 1] /\ (k - 1 = n <=> k = n + 1)
          BY <2>1, <4>2
        <5>2. k # n + 1 => more[k + 1] = chain[k - 1 + 1]
          BY <2>1, <4>2
        <5>3. IF k - 1 = n THEN AddressOf(f.ids[chain[k - 1]]) = NULL
                           ELSE f.ids[chain[k - 1]] = chain[k - 1 + 1]
          BY <1>1, <5>1 DEF IsFreeList
        <5>4. g.ids[chain[k - 1]] = f.ids[chain[k - 1]]
          BY <1>2, <2>1, <2>2, <2>4, <5>1 DEF FreeidType
        <5> QED
          BY <5>1, <5>2, <5>3, <5>4
      <4> QED
        BY <4>1, <4>2
    <3>3. ASSUME NEW i \in Ids
          PROVE  i \in Held(g) <=> \A k \in 1 .. n + 1 : more[k] # i
      <4>1. i \in Held(f) <=> \A k \in 1 .. n : chain[k] # i
        BY <1>1 DEF IsFreeList
      <4>2. \A k \in 1 .. n + 1 : k # 1 => k - 1 \in 1 .. n /\ more[k] = chain[k - 1]
        BY <2>1
      <4>3. \A k \in 1 .. n : k + 1 \in 1 .. n + 1 /\ more[k + 1] = chain[k]
        BY <2>1
      <4>4. 1 \in 1 .. n + 1 /\ more[1] = id
        BY <2>1
      <4> HIDE DEF more, g
      <4> QED
        BY <2>10, <4>1, <4>2, <4>3, <4>4
    <3> HIDE DEF g, more
    <3> QED
      BY <2>5, <3>1, <3>2, <3>3 DEF IsFreeList
  <2> HIDE DEF more
  <2> QED
    BY <2>2, <2>3, <2>6, <2>7, <2>9, <2>11 DEF WellFormed
<1> QED
  BY <1>3, <1>4
=============================================================================

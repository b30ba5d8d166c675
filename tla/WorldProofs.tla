----------------------------- MODULE WorldProofs -----------------------------
(***************************************************************************)
(* The inductive invariant of World, what the steps its handlers are made  *)
(* of do to it (change the tables, take a reply, change a player, execute  *)
(* a request, send a reply), that the handlers keep it for every number of *)
(* connections, accounts, names, players and characters, and what it says  *)
(* of the world.                                                           *)
(*                                                                         *)
(* The parts of the invariant are operators of the players' tables (t, and *)
(* of it f and p), the database d, the wire w and the histories s and m,   *)
(* so that they can be stated of what a handler has done half way.         *)
(***************************************************************************)
EXTENDS World, FreeidLemmas, SequenceTheorems

LiveIn(f) == {i \in Ids : \E h \in Hashes : f.slots[h] = i}

Players == [conn : Conns \cup {0}, status : Statuses \ {"LOGIN"}, accid : Accounts \cup {0},
            charid : {0} \cup Charids, name : Names \cup {"", OldName},
            times : 0 .. CreateTimes, data : {0} \cup Charids]

Indexes(ids) == [free : Seq(Ids), used : Seq([id : ids, slot : Ids])]

Worlds == [fi : FreeidType, hi : Indexes(Charids), hi2 : Indexes(Accounts), p : [Ids -> Players],
           abort : {"none", "status"}]

Databases == [user : [Accounts -> {0} \cup Charids], names : SUBSET (Names \cup {"", OldName}),
              lastid : 0 .. MaxChar, char : [{0} \cup Charids -> Records]]

Replies == [type : PdbTypes \ {"SAVE"}, conn : Conns \cup {0}, key : Accounts \cup {0} \cup Charids,
            ok : BOOLEAN, old : BOOLEAN, value : 0 .. MaxChar, record : Records]

Typed(t, d, w, s, m) ==
    /\ t \in Worlds /\ d \in Databases /\ w \in Seq(Replies)
    /\ s \subseteq Charids /\ m \subseteq {"lost", "stale", "raced"}

\* The slots: a player that is live is where its connection is looked up.
SlotsOK(f, p) ==
    /\ WellFormed(f)
    /\ \A i \in LiveIn(f) :
         /\ p[i].conn \in Hashes /\ f.slots[p[i].conn] = i
         /\ p[i].accid \in Accounts /\ p[i].times < CreateTimes
         /\ p[i].charid # 0 => p[i].status # "FREE"
         /\ p[i].status = "LOADCHAR" => p[i].charid # 0
    /\ \A i \in Ids \ LiveIn(f) :
         p[i].accid = 0 /\ p[i].charid = 0 /\ p[i].name = "" /\ p[i].status = "FREE"
    /\ \A i, j \in LiveIn(f) : i # j =>
         p[i].accid # p[j].accid /\ (p[i].charid = p[j].charid => p[i].charid = 0)

Indexed(hi, S) ==
    /\ Len(hi.free) + Len(hi.used) = Cap
    /\ \A j, k \in DOMAIN hi.used : hi.used[j].id = hi.used[k].id => j = k
    /\ UsedIds(hi) = S

AccidsOf(f, p) == {p[i].accid : i \in LiveIn(f)}
CharidsOf(f, p) == {p[i].charid : i \in LiveIn(f)} \ {0}

TableInv(t) ==
    /\ SlotsOK(t.fi, t.p)
    /\ Indexed(t.hi2, AccidsOf(t.fi, t.p)) /\ Indexed(t.hi, CharidsOf(t.fi, t.p))

\* Whose a character is.
BoundOK(d) ==
    /\ \A a \in Accounts : d.user[a] # 0 =>
         /\ d.user[a] <= d.lastid /\ d.char[d.user[a]].name # NoName
         /\ \A b \in Accounts : d.user[b] = d.user[a] => a = b
    /\ \A c \in Charids : d.char[c].name # NoName => c <= d.lastid

PlayersOwn(f, p, d) ==
    \A i \in LiveIn(f) :
        /\ p[i].charid <= d.lastid
        /\ p[i].charid # 0 => \A b \in Accounts : d.user[b] = p[i].charid => b = p[i].accid
        /\ p[i].status = "GAME" => p[i].charid # 0 /\ d.user[p[i].accid] = p[i].charid

\* An id nobody has used.
Unused(f, p, d, c) ==
    /\ c \in Charids /\ c <= d.lastid
    /\ \A a \in Accounts : d.user[a] # c
    /\ \A i \in LiveIn(f) : p[i].charid # c
    /\ d.char[c].name = NoName

QueryOK(d, r) == r.key \in Accounts /\ (r.value # 0 => d.user[r.key] = r.value)

\* No reply on its way but the k-th is about the id it carries.
CharidOK(f, p, d, w, k) ==
    /\ Unused(f, p, d, w[k].value)
    /\ \A n \in DOMAIN w : w[n].ok =>
         /\ w[n].type = "CHARID" /\ w[n].value = w[k].value => n = k
         /\ w[n].type \in {"CREATE", "BINDCHARID", "LOAD"} => w[n].key # w[k].value

\* It is the only one that its character is created, which no account has yet; what
\* is read behind it is not of the account that will.
CreateOK(f, p, d, w, k) ==
    /\ w[k].key \in Charids /\ w[k].key <= d.lastid /\ d.char[w[k].key].name # NoName
    /\ \A a \in Accounts : d.user[a] # w[k].key
    /\ \A n \in DOMAIN w : w[n].ok /\ w[n].type = "CREATE" /\ w[n].key = w[k].key => n = k
    /\ \A i \in LiveIn(f) : p[i].charid = w[k].key =>
         \A n \in DOMAIN w : n > k /\ w[n].ok /\ w[n].type = "QUERY" => w[n].key # p[i].accid

\* Bound or loaded.
HavingOK(f, p, d, r) ==
    /\ r.key \in Charids /\ r.key <= d.lastid
    /\ \A i \in LiveIn(f) : p[i].charid = r.key => d.user[p[i].accid] = r.key

ReplyOwn(f, p, d, w, k) ==
    /\ w[k].type = "QUERY" => QueryOK(d, w[k])
    /\ w[k].type = "CHARID" => CharidOK(f, p, d, w, k)
    /\ w[k].type = "CREATE" => CreateOK(f, p, d, w, k)
    /\ w[k].type \in {"BINDCHARID", "LOAD"} => HavingOK(f, p, d, w[k])

RepliesOwn(f, p, d, w) == \A k \in DOMAIN w : w[k].ok => ReplyOwn(f, p, d, w, k)

OwnInv(t, d, w) == BoundOK(d) /\ PlayersOwn(t.fi, t.p, d) /\ RepliesOwn(t.fi, t.p, d, w)

\* What is on its way to a login that has not ended.
Comes(w, k, c) == ~ w[k].old /\ w[k].conn = c

Expects(status, type) ==
    \/ status \in DOMAIN Awaits /\ type = Awaits[status]
    \/ status = "WAITCREATECHAR" /\ type = "CHECKNAME"

Current(t, w) ==
    \A k \in DOMAIN w : ~ w[k].old => \E i \in LiveIn(t.fi) : t.p[i].conn = w[k].conn

\* One answer at most is on its way to a player, the one its status calls for.
InStep(t, w, m) ==
    "stale" \notin m =>
        \A i \in LiveIn(t.fi), k \in DOMAIN w : Comes(w, k, t.p[i].conn) =>
            /\ w[k].type = "QUERY" => t.p[i].status = "FREE"
            /\ t.p[i].status \in {"FREE", "LOADCHAR"} \/ "raced" \notin m =>
                 /\ Expects(t.p[i].status, w[k].type)
                 /\ \A n \in DOMAIN w : Comes(w, n, t.p[i].conn) => n = k

\* The player may be moved on: no answer is on its way to it, but to a name it was
\* asked for too often.
Quiet(t, w, m, i) ==
    "stale" \notin m =>
        \A k \in DOMAIN w : Comes(w, k, t.p[i].conn) =>
            w[k].type # "QUERY" /\ t.p[i].status \notin {"FREE", "LOADCHAR"} /\ "raced" \in m

\* Whose the values are.
DataInv(t, d, w, s, m) ==
    "stale" \notin m =>
        /\ \A c \in Charids \ s : d.char[c].name # NoName => d.char[c].data = c
        /\ \A k \in DOMAIN w : w[k].ok /\ w[k].type = "LOAD" /\ w[k].key \notin s
                                /\ w[k].record.name # NoName => w[k].record.data = w[k].key
        /\ \A i \in LiveIn(t.fi) : t.p[i].charid # 0 /\ t.p[i].charid \notin s
                                    /\ t.p[i].status # "LOADCHAR" => t.p[i].data = t.p[i].charid

Reserves(t, w, i) ==
    \/ t.p[i].status = "CHARUNIQUEID"
    \/ \E k \in DOMAIN w : Comes(w, k, t.p[i].conn) /\ w[k].ok /\ w[k].type = "SAVENAME"

MayReserve(t, w, i) ==
    \E k \in DOMAIN w : Comes(w, k, t.p[i].conn) /\ w[k].ok /\ w[k].type = "CHECKNAME" /\ w[k].value = 0

Created(t, w, i) ==
    \/ t.p[i].status \in {"BINDCHARID", "GAME"}
    \/ \E k \in DOMAIN w : Comes(w, k, t.p[i].conn) /\ w[k].ok /\ w[k].type = "CREATE"

CharNames(d) ==
    /\ \A b, c \in Charids : b # c /\ d.char[b].name = d.char[c].name => d.char[b].name = NoName
    /\ \A c \in Charids : d.char[c].name # NoName => d.char[c].name \in d.names

PlayerName(t, d, w, i) ==
    /\ Reserves(t, w, i) => t.p[i].name \in d.names /\ \A c \in Charids : d.char[c].name # t.p[i].name
    /\ MayReserve(t, w, i) => t.p[i].name \notin d.names
    /\ Created(t, w, i) => t.p[i].name = d.char[t.p[i].charid].name

NoTwoReserve(t, w) ==
    \A i, j \in LiveIn(t.fi) : i # j /\ t.p[i].name = t.p[j].name =>
        ~ (Reserves(t, w, i) /\ Reserves(t, w, j)) /\ ~ (MayReserve(t, w, i) /\ MayReserve(t, w, j))

LoadedNames(d, w) ==
    \A k \in DOMAIN w : w[k].ok /\ w[k].type = "LOAD" => w[k].record.name = d.char[w[k].key].name

NameInv(t, d, w, m) ==
    m \cap {"raced", "stale"} = {} =>
        /\ CharNames(d) /\ LoadedNames(d, w) /\ NoTwoReserve(t, w)
        /\ \A i \in LiveIn(t.fi) : PlayerName(t, d, w, i)

Waits(t, w, m, X) ==
    t.abort = "none" /\ "lost" \notin m =>
        \A i \in LiveIn(t.fi) \ X : t.p[i].status \in DOMAIN Awaits =>
            \E k \in DOMAIN w : /\ w[k].type = Awaits[t.p[i].status]
                                /\ w[k].conn = t.p[i].conn
                                /\ w[k].key = Key(t.p[i], w[k].type)

\* What players, database and replies have to do with each other.
Accords(t, d, w, s, m) ==
    OwnInv(t, d, w) /\ InStep(t, w, m) /\ DataInv(t, d, w, s, m) /\ NameInv(t, d, w, m)

\* Between the steps of a handler the players of X need not have an answer coming.
Inv(t, d, w, s, m, X) ==
    /\ Typed(t, d, w, s, m) /\ TableInv(t) /\ Current(t, w) /\ Waits(t, w, m, X)
    /\ Accords(t, d, w, s, m)

IInv == Inv(ph, db, wire, spoilt, mishaps, {})

-----------------------------------------------------------------------------
\* The hash table.

LEMMA UsedIdsAre ==
    ASSUME NEW ids, NEW hi \in Indexes(ids)
    PROVE  /\ UsedIds(hi) = {hi.used[k].id : k \in 1 .. Len(hi.used)}
           /\ Len(hi.used) \in Nat /\ DOMAIN hi.used = 1 .. Len(hi.used)
           /\ \A k \in 1 .. Len(hi.used) : hi.used[k].id \in ids /\ hi.used[k].slot \in Ids
<1>1. hi.used \in Seq([id : ids, slot : Ids])
  BY DEF Indexes
<1>2. Len(hi.used) \in Nat /\ DOMAIN hi.used = 1 .. Len(hi.used)
  BY <1>1, LenProperties
<1>3. \A k \in 1 .. Len(hi.used) : hi.used[k] \in [id : ids, slot : Ids]
  BY <1>1, ElementOfSeq
<1> QED
  BY <1>2, <1>3 DEF UsedIds, ToSet

\* There are as many used slots as ids.
LEMMA IndexSize ==
    ASSUME NEW ids, NEW hi \in Indexes(ids), NEW S, Indexed(hi, S)
    PROVE  IsFiniteSet(S) /\ Cardinality(S) = Len(hi.used)
<1> DEFINE n == Len(hi.used)
           f == [k \in 1 .. n |-> hi.used[k].id]
<1>1. /\ S = {hi.used[k].id : k \in 1 .. n} /\ n \in Nat
      /\ \A j, k \in 1 .. n : hi.used[j].id = hi.used[k].id => j = k
  BY UsedIdsAre DEF Indexed
<1>2. f \in Bijection(1 .. n, S)
  <2>1. f \in [1 .. n -> S]
    BY <1>1
  <2>2. \A j, k \in 1 .. n : f[j] = f[k] => j = k
    BY <1>1
  <2>3. \A x \in S : \E k \in 1 .. n : f[k] = x
    BY <1>1
  <2> QED
    BY <2>1, <2>2, <2>3 DEF Bijection, Injection, IsInjective, Surjection
<1>3. IsFiniteSet(1 .. n) /\ Cardinality(1 .. n) = n
  <2>1. 1 \in Int /\ n \in Int
    BY <1>1
  <2> HIDE DEF n
  <2>2. IsFiniteSet(1 .. n) /\ Cardinality(1 .. n) = IF 1 > n THEN 0 ELSE n - 1 + 1
    BY <2>1, FS_Interval
  <2> QED
    BY <1>1, <2>2 DEF n
<1> QED
  BY <1>2, <1>3, FS_Bijection DEF ExistsBijection

\* A search finds the id's only slot.
LEMMA PositionOf ==
    ASSUME NEW ids, NEW hi \in Indexes(ids), NEW S, Indexed(hi, S), NEW id
    PROVE  /\ id \in S => /\ Position(hi, id) \in 1 .. Len(hi.used)
                          /\ hi.used[Position(hi, id)].id = id
                          /\ hashid_find(hi, id) \in Ids
           /\ id \notin S => Position(hi, id) = 0 /\ hashid_find(hi, id) = -1
<1> DEFINE I == {k \in 1 .. Len(hi.used) : hi.used[k].id = id}
<1>1. Position(hi, id) = IF I # {} THEN Min(I) ELSE 0
  BY DEF Position, SelectInSeq
<1>2. /\ S = {hi.used[k].id : k \in 1 .. Len(hi.used)} /\ Len(hi.used) \in Nat
      /\ \A k \in 1 .. Len(hi.used) : hi.used[k].slot \in Ids
      /\ \A j, k \in 1 .. Len(hi.used) : hi.used[j].id = hi.used[k].id => j = k
  BY UsedIdsAre DEF Indexed
<1>3. CASE id \in S
  <2>1. PICK k \in 1 .. Len(hi.used) : hi.used[k].id = id
    BY <1>2, <1>3
  <2>2. I = {k}
    BY <1>2, <2>1
  <2>3. Min({k}) = k
    BY <1>2 DEF Min
  <2> HIDE DEF I
  <2>4. Position(hi, id) = k /\ k # 0
    <3>1. I # {}
      BY <2>2
    <3> QED
      BY <1>1, <1>2, <2>2, <2>3, <3>1
  <2> QED
    BY <1>2, <1>3, <2>1, <2>4 DEF hashid_find
<1>4. CASE id \notin S
  <2>1. I = {}
    BY <1>2, <1>4
  <2> QED
    BY <1>1, <1>4, <2>1 DEF hashid_find
<1> QED
  BY <1>3, <1>4

\* With fewer ids than slots, the table is not full.
LEMMA HashRoom ==
    ASSUME NEW ids, NEW hi \in Indexes(ids), NEW S, Indexed(hi, S), Cardinality(S) < Cap
    PROVE  ~ hashid_full(hi)
<1>1. Len(hi.used) < Cap /\ Len(hi.used) \in Nat /\ Len(hi.free) + Len(hi.used) = Cap
  BY IndexSize, UsedIdsAre DEF Indexed
<1>2. \A x, y, z \in Nat : x + y = z /\ y < z => x # 0
  OBVIOUS
<1>3. Len(hi.free) \in Nat
  BY LenProperties DEF Indexes
<1>4. Len(hi.free) # 0
  BY <1>1, <1>2, <1>3, FreeidAssumption
<1> QED
  BY <1>4 DEF hashid_full

\* A new id gets a slot unless there is none.
LEMMA HashAlloc ==
    ASSUME NEW ids, NEW hi \in Indexes(ids), NEW S, Indexed(hi, S), ~ hashid_full(hi),
           NEW id \in ids, id \notin S
    PROVE  /\ hashid_alloc(hi, id) \in Indexes(ids)
           /\ Indexed(hashid_alloc(hi, id), S \cup {id})
<1> DEFINE e == Entry(id, Head(hi.free))
           g == [free |-> Tail(hi.free), used |-> <<e>> \o hi.used]
<1>1. Len(hi.used) \in Nat /\ Len(hi.free) + Len(hi.used) = Cap
  BY UsedIdsAre DEF Indexed
<1>2. hi.free \in Seq(Ids) /\ hi.used \in Seq([id : ids, slot : Ids]) /\ Len(hi.free) \in Nat
  BY LenProperties DEF Indexes
<1>3. hi.free # <<>>
  BY DEF hashid_full
<1>4. Head(hi.free) \in Ids /\ Tail(hi.free) \in Seq(Ids) /\ Len(Tail(hi.free)) = Len(hi.free) - 1
  BY <1>2, <1>3, HeadTailProperties
<1>5. e \in [id : ids, slot : Ids] /\ e.id = id
  BY <1>4 DEF Entry
<1> HIDE DEF e
<1>6. <<e>> \in Seq([id : ids, slot : Ids]) /\ Len(<<e>>) = 1 /\ <<e>>[1] = e
  BY <1>5
<1>7. /\ g.used \in Seq([id : ids, slot : Ids]) /\ Len(g.used) = 1 + Len(hi.used)
      /\ \A k \in 1 .. 1 + Len(hi.used) : g.used[k] = IF k <= 1 THEN <<e>>[k] ELSE hi.used[k - 1]
  BY <1>2, <1>6, ConcatProperties
<1>8. g.used[1] = e /\ \A k \in 2 .. 1 + Len(hi.used) : g.used[k] = hi.used[k - 1] /\ k - 1 \in 1 .. Len(hi.used)
  BY <1>1, <1>6, <1>7
<1>9. g \in Indexes(ids)
  BY <1>4, <1>7 DEF Indexes
<1>10. hashid_alloc(hi, id) = g /\ ~ hashid_full(hi)
  BY <1>3 DEF hashid_alloc, hashid_full, e
<1>11. g.free = Tail(hi.free)
  OBVIOUS
<1> HIDE DEF g
<1>12. /\ S = {hi.used[k].id : k \in 1 .. Len(hi.used)}
       /\ \A j, k \in 1 .. Len(hi.used) : hi.used[j].id = hi.used[k].id => j = k
  BY UsedIdsAre DEF Indexed
<1>13. UsedIds(g) = {g.used[k].id : k \in 1 .. 1 + Len(hi.used)} /\ DOMAIN g.used = 1 .. 1 + Len(hi.used)
  BY <1>7, <1>9, UsedIdsAre
<1>14. UsedIds(g) = S \cup {id}
  <2>1. \A k \in 1 .. 1 + Len(hi.used) : g.used[k].id \in S \cup {id}
    <3> TAKE k \in 1 .. 1 + Len(hi.used)
    <3>1. CASE k = 1
      BY <1>5, <1>8, <3>1
    <3>2. CASE k # 1
      <4>1. g.used[k] = hi.used[k - 1] /\ k - 1 \in 1 .. Len(hi.used)
        BY <1>1, <1>8, <3>2
      <4> QED
        BY <1>12, <4>1
    <3> QED
      BY <3>1, <3>2
  <2>2. g.used[1].id = id /\ 1 \in 1 .. 1 + Len(hi.used)
    BY <1>1, <1>5, <1>8
  <2>3. \A k \in 1 .. Len(hi.used) : g.used[k + 1].id = hi.used[k].id /\ k + 1 \in 1 .. 1 + Len(hi.used)
    BY <1>1, <1>8
  <2>4. UsedIds(g) \subseteq S \cup {id}
    BY <1>13, <2>1
  <2>5. S \subseteq UsedIds(g)
    <3> SUFFICES ASSUME NEW x \in S PROVE x \in UsedIds(g)
      OBVIOUS
    <3>1. PICK k \in 1 .. Len(hi.used) : hi.used[k].id = x
      BY <1>12
    <3>2. g.used[k + 1].id = x /\ k + 1 \in 1 .. 1 + Len(hi.used)
      BY <2>3, <3>1
    <3> QED
      BY <1>13, <3>2
  <2>6. id \in UsedIds(g)
    BY <1>13, <2>2
  <2> QED
    BY <2>4, <2>5, <2>6
<1>15. \A j, k \in 1 .. 1 + Len(hi.used) : g.used[j].id = g.used[k].id => j = k
  <2>1. ASSUME NEW k \in 2 .. 1 + Len(hi.used) PROVE g.used[k].id \in S
    BY <1>8, <1>12, <2>1
  <2>2. ASSUME NEW j \in 2 .. 1 + Len(hi.used), NEW k \in 2 .. 1 + Len(hi.used), g.used[j].id = g.used[k].id
        PROVE  j = k
    <3>1. j - 1 \in 1 .. Len(hi.used) /\ k - 1 \in 1 .. Len(hi.used) /\ hi.used[j - 1].id = hi.used[k - 1].id
      BY <1>8, <2>2
    <3>2. j - 1 = k - 1
      BY <1>12, <3>1
    <3> QED
      BY <1>1, <3>2
  <2>3. \A k \in 1 .. 1 + Len(hi.used) : k = 1 \/ k \in 2 .. 1 + Len(hi.used)
    BY <1>1
  <2> QED
    BY <1>5, <1>8, <2>1, <2>2, <2>3
<1>16. Len(g.free) + Len(g.used) = Cap
  <2>1. \A x, y \in Nat : (x - 1) + (1 + y) = x + y
    OBVIOUS
  <2>2. Len(g.free) = Len(hi.free) - 1 /\ Len(g.used) = 1 + Len(hi.used)
    BY <1>4, <1>7, <1>11
  <2>3. Len(hi.free) \in Nat /\ Len(hi.used) \in Nat
    BY <1>1, <1>2
  <2> QED
    BY <1>1, <2>1, <2>2, <2>3
<1>17. Indexed(g, S \cup {id})
  BY <1>13, <1>14, <1>15, <1>16 DEF Indexed
<1> QED
  BY <1>9, <1>10, <1>17

\* An id that leaves takes its slot with it.
LEMMA HashFree ==
    ASSUME NEW ids, NEW hi \in Indexes(ids), NEW S, Indexed(hi, S), NEW id \in S
    PROVE  hashid_free(hi, id) \in Indexes(ids) /\ Indexed(hashid_free(hi, id), S \ {id})
<1> DEFINE n == Len(hi.used)
           k == Position(hi, id)
           g == [free |-> <<hi.used[k].slot>> \o hi.free, used |-> RemoveAt(hi.used, k)]
<1>1. k \in 1 .. n /\ hi.used[k].id = id
  BY PositionOf
<1>2. /\ S = {hi.used[j].id : j \in 1 .. n} /\ n \in Nat
      /\ \A j \in 1 .. n : hi.used[j] \in [id : ids, slot : Ids]
      /\ \A i, j \in 1 .. n : hi.used[i].id = hi.used[j].id => i = j
  <2>1. S = {hi.used[j].id : j \in 1 .. n} /\ n \in Nat
    BY UsedIdsAre DEF Indexed
  <2>2. \A j \in 1 .. n : hi.used[j] \in [id : ids, slot : Ids]
    BY ElementOfSeq DEF Indexes
  <2>3. \A i, j \in 1 .. n : hi.used[i].id = hi.used[j].id => i = j
    BY UsedIdsAre DEF Indexed
  <2> QED
    BY <2>1, <2>2, <2>3
<1>3. hashid_free(hi, id) = g
  BY <1>1, <1>2 DEF hashid_free
<1>4. hi.free \in Seq(Ids) /\ Len(hi.free) \in Nat /\ Len(hi.free) + n = Cap
  BY LenProperties DEF Indexes, Indexed
<1>5. g.free \in Seq(Ids) /\ Len(g.free) = Len(hi.free) + 1
  <2>1. <<hi.used[k].slot>> \in Seq(Ids) /\ Len(<<hi.used[k].slot>>) = 1
    BY <1>1, <1>2
  <2> QED
    BY <1>4, <2>1, ConcatProperties
<1> HIDE DEF k
<1>6. /\ g.used \in Seq([id : ids, slot : Ids]) /\ Len(g.used) = n - 1
      /\ \A j \in 1 .. n - 1 : g.used[j] = IF j < k THEN hi.used[j] ELSE hi.used[j + 1]
  <2> DEFINE a == SubSeq(hi.used, 1, k - 1)
             b == SubSeq(hi.used, k + 1, n)
  <2>1. a \in Seq([id : ids, slot : Ids]) /\ Len(a) = k - 1 /\ \A j \in 1 .. k - 1 : a[j] = hi.used[j]
    <3>1. \A j \in 1 .. k - 1 : hi.used[j] \in [id : ids, slot : Ids]
      BY <1>1, <1>2
    <3>2. /\ a \in Seq([id : ids, slot : Ids]) /\ Len(a) = IF 1 <= k - 1 THEN k - 1 - 1 + 1 ELSE 0
          /\ \A j \in 1 .. k - 1 - 1 + 1 : a[j] = hi.used[1 + j - 1]
      BY <1>1, <1>2, <3>1, SubSeqProperties
    <3> QED
      BY <1>1, <1>2, <3>2
  <2>2. b \in Seq([id : ids, slot : Ids]) /\ Len(b) = n - k /\ \A j \in 1 .. n - k : b[j] = hi.used[k + j]
    <3>1. \A j \in k + 1 .. n : hi.used[j] \in [id : ids, slot : Ids]
      BY <1>1, <1>2
    <3>2. /\ b \in Seq([id : ids, slot : Ids]) /\ Len(b) = IF k + 1 <= n THEN n - (k + 1) + 1 ELSE 0
          /\ \A j \in 1 .. n - (k + 1) + 1 : b[j] = hi.used[k + 1 + j - 1]
      BY <1>1, <1>2, <3>1, SubSeqProperties
    <3> QED
      BY <1>1, <1>2, <3>2
  <2> HIDE DEF a, b
  <2>3. /\ a \o b \in Seq([id : ids, slot : Ids]) /\ Len(a \o b) = n - 1
        /\ \A j \in 1 .. n - 1 : (a \o b)[j] = IF j <= k - 1 THEN a[j] ELSE b[j - (k - 1)]
    <3>1. Len(a) + Len(b) = n - 1
      BY <1>1, <1>2, <2>1, <2>2
    <3>2. /\ a \o b \in Seq([id : ids, slot : Ids]) /\ Len(a \o b) = Len(a) + Len(b)
          /\ \A j \in 1 .. Len(a) + Len(b) : (a \o b)[j] = IF j <= Len(a) THEN a[j] ELSE b[j - Len(a)]
      BY <2>1, <2>2, ConcatProperties
    <3> QED
      BY <2>1, <3>1, <3>2
  <2>4. \A j \in 1 .. n - 1 : (a \o b)[j] = IF j < k THEN hi.used[j] ELSE hi.used[j + 1]
    <3> TAKE j \in 1 .. n - 1
    <3>1. CASE j < k
      BY <1>1, <1>2, <2>1, <2>3, <3>1
    <3>2. CASE ~ j < k
      <4>1. j - (k - 1) \in 1 .. n - k /\ k + (j - (k - 1)) = j + 1
        BY <1>1, <1>2, <3>2
      <4> QED
        BY <1>1, <1>2, <2>2, <2>3, <3>2, <4>1
    <3> QED
      BY <3>1, <3>2
  <2> QED
    BY <2>3, <2>4 DEF RemoveAt, a, b
<1>7. g \in Indexes(ids)
  BY <1>5, <1>6 DEF Indexes
<1> HIDE DEF g
<1>8. UsedIds(g) = {g.used[j].id : j \in 1 .. n - 1} /\ DOMAIN g.used = 1 .. n - 1
  BY <1>6, <1>7, UsedIdsAre
<1>9. UsedIds(g) = S \ {id}
  <2>1. ASSUME NEW j \in 1 .. n - 1 PROVE g.used[j].id \in S \ {id}
    <3>1. PICK i \in 1 .. n : i # k /\ g.used[j] = hi.used[i]
      <4>1. CASE j < k
        BY <1>1, <1>2, <1>6, <4>1
      <4>2. CASE ~ j < k
        <5>1. j + 1 \in 1 .. n /\ j + 1 # k
          BY <1>1, <1>2, <4>2
        <5> QED
          BY <1>6, <4>2, <5>1
      <4> QED
        BY <4>1, <4>2
    <3> QED
      BY <1>1, <1>2, <3>1
  <2>2. ASSUME NEW x \in S, x # id PROVE \E j \in 1 .. n - 1 : g.used[j].id = x
    <3>1. PICK j \in 1 .. n : hi.used[j].id = x
      BY <1>2
    <3>2. CASE j < k
      BY <1>1, <1>2, <1>6, <3>1, <3>2, SMTT(40)
    <3>3. CASE j > k
      <4>1. j - 1 \in 1 .. n - 1 /\ ~ j - 1 < k /\ j - 1 + 1 = j
        BY <1>1, <1>2, <3>3
      <4> QED
        BY <1>6, <3>1, <4>1
    <3> QED
      BY <1>1, <2>2, <3>1, <3>2, <3>3
  <2> QED
    BY <1>8, <2>1, <2>2
<1>10. \A i, j \in 1 .. n - 1 : g.used[i].id = g.used[j].id => i = j
  <2> TAKE i, j \in 1 .. n - 1
  <2> DEFINE from(x) == IF x < k THEN x ELSE x + 1
  <2>1. /\ from(i) \in 1 .. n /\ from(j) \in 1 .. n /\ g.used[i] = hi.used[from(i)] /\ g.used[j] = hi.used[from(j)]
        /\ from(i) = from(j) => i = j
    <3>1. \A x \in 1 .. n - 1 : from(x) \in 1 .. n
      BY <1>1, <1>2
    <3>2. \A x \in 1 .. n - 1 : g.used[x] = hi.used[from(x)]
      BY <1>6
    <3>3. from(i) = from(j) => i = j
      BY <1>1, <1>2
    <3> QED
      BY <3>1, <3>2, <3>3
  <2> HIDE DEF from
  <2> QED
    BY <1>2, <2>1
<1>11. Len(g.free) + Len(g.used) = Cap
  <2>1. \A x, y \in Nat : (x + 1) + (y - 1) = x + y
    OBVIOUS
  <2>2. Len(hi.free) \in Nat /\ n \in Nat
    BY <1>2, <1>4
  <2> QED
    BY <1>4, <1>5, <1>6, <2>1, <2>2
<1>12. Indexed(g, S \ {id})
  BY <1>8, <1>9, <1>10, <1>11 DEF Indexed
<1> QED
  BY <1>3, <1>7, <1>12

-----------------------------------------------------------------------------
\* Fewer players and replies, more mishaps.

\* v is w without its first n replies, and some of the rest are of earlier logins.
Kept(v, w, n) ==
    /\ DOMAIN w \subseteq Nat /\ DOMAIN v \subseteq Nat /\ n \in Nat
    /\ \A k \in DOMAIN v :
         /\ k + n \in DOMAIN w
         /\ v[k].type = w[k + n].type /\ v[k].conn = w[k + n].conn /\ v[k].key = w[k + n].key
         /\ v[k].ok = w[k + n].ok /\ v[k].value = w[k + n].value /\ v[k].record = w[k + n].record
         /\ ~ v[k].old => ~ w[k + n].old

Fewer(u, t) == LiveIn(u.fi) \subseteq LiveIn(t.fi) /\ \A i \in LiveIn(u.fi) : u.p[i] = t.p[i]

LEMMA LessKeeps ==
    ASSUME NEW t, NEW u, NEW d, NEW w, NEW v, NEW r, NEW s, NEW m, NEW o, NEW n,
           Accords(t, d, w, r, m), Fewer(u, t), Kept(v, w, n), r \subseteq s, m \subseteq o
    PROVE  Accords(u, d, v, s, o)
<1>0. /\ OwnInv(t, d, w) /\ InStep(t, w, m) /\ DataInv(t, d, w, r, m) /\ NameInv(t, d, w, m)
      /\ LiveIn(u.fi) \subseteq LiveIn(t.fi) /\ \A i \in LiveIn(u.fi) : u.p[i] = t.p[i]
      /\ DOMAIN w \subseteq Nat /\ DOMAIN v \subseteq Nat /\ n \in Nat
  BY DEF Accords, Fewer, Kept
<1>1. \A j, k \in DOMAIN v : (j + n = k + n => j = k) /\ (j > k => j + n > k + n)
  BY <1>0
<1>2. \A k \in DOMAIN v : k + n \in DOMAIN w
  BY DEF Kept
<1>3. OwnInv(u, d, v)
  <2>1. PlayersOwn(u.fi, u.p, d)
    BY <1>0 DEF OwnInv, PlayersOwn
  <2>2. ASSUME NEW k \in DOMAIN v, v[k].ok
        PROVE  ReplyOwn(u.fi, u.p, d, v, k)
    <3>1. w[k + n].ok /\ ReplyOwn(t.fi, t.p, d, w, k + n)
      BY <1>0, <1>2, <2>2 DEF Kept, OwnInv, RepliesOwn
    <3>2. v[k].type = "QUERY" => QueryOK(d, v[k])
      BY <3>1 DEF Kept, ReplyOwn, QueryOK
    <3>3. v[k].type = "CHARID" => CharidOK(u.fi, u.p, d, v, k)
      BY <1>0, <1>1, <1>2, <3>1 DEF Kept, ReplyOwn, CharidOK, Unused
    <3>4. v[k].type = "CREATE" => CreateOK(u.fi, u.p, d, v, k)
      BY <1>0, <1>1, <1>2, <3>1 DEF Kept, ReplyOwn, CreateOK
    <3>5. v[k].type \in {"BINDCHARID", "LOAD"} => HavingOK(u.fi, u.p, d, v[k])
      BY <1>0, <3>1 DEF Kept, ReplyOwn, HavingOK
    <3> QED
      BY <3>2, <3>3, <3>4, <3>5 DEF ReplyOwn
  <2> QED
    BY <1>0, <2>1, <2>2 DEF OwnInv, RepliesOwn
<1>4. \A i \in LiveIn(u.fi), k \in DOMAIN v :
        Comes(v, k, u.p[i].conn) => Comes(w, k + n, t.p[i].conn) /\ k + n \in DOMAIN w
  BY <1>0 DEF Comes, Kept
<1>5. InStep(u, v, o)
  <2> SUFFICES ASSUME "stale" \notin o, NEW i \in LiveIn(u.fi), NEW k \in DOMAIN v, Comes(v, k, u.p[i].conn)
               PROVE  /\ v[k].type = "QUERY" => u.p[i].status = "FREE"
                      /\ u.p[i].status \in {"FREE", "LOADCHAR"} \/ "raced" \notin o =>
                           /\ Expects(u.p[i].status, v[k].type)
                           /\ \A j \in DOMAIN v : Comes(v, j, u.p[i].conn) => j = k
    BY DEF InStep
  <2>1. u.p[i] = t.p[i] /\ i \in LiveIn(t.fi) /\ v[k].type = w[k + n].type
    BY <1>0 DEF Kept
  <2>2. Comes(w, k + n, t.p[i].conn)
    BY <1>4
  <2>3. /\ w[k + n].type = "QUERY" => t.p[i].status = "FREE"
        /\ t.p[i].status \in {"FREE", "LOADCHAR"} \/ "raced" \notin m =>
             /\ Expects(t.p[i].status, w[k + n].type)
             /\ \A j \in DOMAIN w : Comes(w, j, t.p[i].conn) => j = k + n
    BY <1>0, <1>2, <2>1, <2>2 DEF InStep
  <2> QED
    BY <1>0, <1>1, <1>4, <2>1, <2>3
<1>6. DataInv(u, d, v, s, o)
  <2> SUFFICES ASSUME "stale" \notin o PROVE DataInv(u, d, v, s, o)
    BY DEF DataInv
  <2>1. "stale" \notin m
    OBVIOUS
  <2>2. \A k \in DOMAIN v : v[k].ok /\ v[k].type = "LOAD" /\ v[k].key \notin s
                            /\ v[k].record.name # NoName => v[k].record.data = v[k].key
    BY <1>0, <1>2, <2>1 DEF DataInv, Kept
  <2> QED
    BY <1>0, <2>1, <2>2 DEF DataInv
<1>7. NameInv(u, d, v, o)
  <2> SUFFICES ASSUME o \cap {"raced", "stale"} = {} PROVE NameInv(u, d, v, o)
    BY DEF NameInv
  <2>1. m \cap {"raced", "stale"} = {}
    OBVIOUS
  <2>2. ASSUME NEW i \in LiveIn(u.fi)
        PROVE  /\ i \in LiveIn(t.fi) /\ u.p[i] = t.p[i]
               /\ Reserves(u, v, i) => Reserves(t, w, i)
               /\ MayReserve(u, v, i) => MayReserve(t, w, i)
               /\ Created(u, v, i) => Created(t, w, i)
    BY <1>0, <1>2, <1>4 DEF Kept, Reserves, MayReserve, Created
  <2>3. LoadedNames(d, v)
    BY <1>0, <1>2, <2>1 DEF Kept, NameInv, LoadedNames
  <2>4. \A i \in LiveIn(u.fi) : PlayerName(u, d, v, i)
    BY <1>0, <2>1, <2>2 DEF NameInv, PlayerName
  <2>5. NoTwoReserve(u, v)
    BY <1>0, <2>1, <2>2 DEF NameInv, NoTwoReserve
  <2> QED
    BY <1>0, <2>1, <2>3, <2>4, <2>5 DEF NameInv
<1> QED
  BY <1>3, <1>5, <1>6, <1>7 DEF Accords

\* What a sequence of replies consists of.
LEMMA WireIs ==
    ASSUME NEW w \in Seq(Replies)
    PROVE  /\ DOMAIN w = 1 .. Len(w) /\ Len(w) \in Nat
           /\ \A k \in DOMAIN w : w[k] \in Replies
<1> QED
  BY LenProperties, ElementOfSeq

\* Two players have different connections, accounts and characters.
LEMMA Apart ==
    ASSUME NEW f, NEW p, SlotsOK(f, p), NEW i \in LiveIn(f), NEW j \in LiveIn(f), i # j
    PROVE  /\ p[i].conn # p[j].conn /\ p[i].accid # p[j].accid
           /\ p[i].charid = p[j].charid => p[i].charid = 0
<1>1. \A k \in LiveIn(f) : f.slots[p[k].conn] = k
  BY DEF SlotsOK
<1>2. \A k, n \in LiveIn(f) : k # n =>
        p[k].accid # p[n].accid /\ (p[k].charid = p[n].charid => p[k].charid = 0)
  BY DEF SlotsOK
<1> QED
  BY <1>1, <1>2

\* Without the first reply a player need not have an answer coming that it was for.
LEMMA TakeKeeps ==
    ASSUME NEW t, NEW d, NEW w, NEW s, NEW m, NEW o, NEW X,
           Inv(t, d, w, s, m, {}), w # <<>>, m \subseteq o, o \subseteq {"lost", "stale", "raced"},
           \A i \in LiveIn(t.fi) \ X :
             Head(w).conn # t.p[i].conn \/ Head(w).key # Key(t.p[i], Head(w).type)
    PROVE  Inv(t, d, Tail(w), s, o, X)
<1>1. w \in Seq(Replies) /\ DOMAIN w = 1 .. Len(w) /\ Len(w) \in Nat
  BY WireIs DEF Inv, Typed
<1>2. /\ Tail(w) \in Seq(Replies) /\ DOMAIN Tail(w) = 1 .. Len(w) - 1 /\ Head(w) = w[1]
      /\ \A k \in DOMAIN Tail(w) : Tail(w)[k] = w[k + 1] /\ k + 1 \in DOMAIN w
  <2>1. /\ Tail(w) \in Seq(Replies) /\ Len(Tail(w)) = Len(w) - 1
        /\ \A k \in 1 .. Len(Tail(w)) : Tail(w)[k] = w[k + 1]
    BY <1>1, HeadTailProperties
  <2>2. DOMAIN Tail(w) = 1 .. Len(w) - 1
    BY <2>1, LenProperties
  <2> QED
    BY <1>1, <2>1, <2>2
<1>3. Typed(t, d, Tail(w), s, o)
  BY <1>2 DEF Inv, Typed
<1>4. Current(t, Tail(w))
  BY <1>2 DEF Inv, Current
<1>5. Accords(t, d, Tail(w), s, o)
  <2>1. DOMAIN Tail(w) \subseteq Nat
    <3>1. \A n \in Nat : 1 .. n - 1 \subseteq Nat
      OBVIOUS
    <3> QED
      BY <1>1, <1>2, <3>1
  <2>2. Kept(Tail(w), w, 1)
    BY <1>1, <1>2, <2>1 DEF Kept
  <2>3. Accords(t, d, w, s, m) /\ Fewer(t, t)
    BY DEF Inv, Fewer
  <2> QED
    BY <2>2, <2>3, LessKeeps
<1>6. Waits(t, Tail(w), o, X)
  <2> SUFFICES ASSUME t.abort = "none", "lost" \notin o, NEW i \in LiveIn(t.fi) \ X,
                      t.p[i].status \in DOMAIN Awaits
               PROVE  \E k \in DOMAIN Tail(w) : /\ Tail(w)[k].type = Awaits[t.p[i].status]
                                                /\ Tail(w)[k].conn = t.p[i].conn
                                                /\ Tail(w)[k].key = Key(t.p[i], Tail(w)[k].type)
    BY DEF Waits
  <2>1. PICK k \in DOMAIN w : /\ w[k].type = Awaits[t.p[i].status]
                              /\ w[k].conn = t.p[i].conn
                              /\ w[k].key = Key(t.p[i], w[k].type)
    BY DEF Inv, Waits
  <2>2. k # 1
    BY <1>2, <2>1
  <2>3. k - 1 \in DOMAIN Tail(w) /\ Tail(w)[k - 1] = w[k]
    BY <1>1, <1>2, <2>2
  <2> QED
    BY <2>1, <2>3
<1> QED
  BY <1>3, <1>4, <1>5, <1>6 DEF Inv

\* A request was lost: nobody need have an answer coming.
LEMMA LostKeeps ==
    ASSUME NEW t, NEW d, NEW w, NEW s, NEW m, NEW X, Inv(t, d, w, s, m, X)
    PROVE  Inv(t, d, w, s, m \cup {"lost"}, {})
<1>1. w \in Seq(Replies) /\ DOMAIN w \subseteq Nat
  BY WireIs DEF Inv, Typed
<1>2. Kept(w, w, 0)
  BY <1>1 DEF Kept
<1>3. Accords(t, d, w, s, m) /\ Fewer(t, t)
  BY DEF Inv, Fewer
<1>4. Accords(t, d, w, s, m \cup {"lost"})
  BY <1>2, <1>3, LessKeeps
<1> QED
  BY <1>4 DEF Inv, Typed, Waits

\* The process has ended with an assert.
LEMMA FailKeeps ==
    ASSUME NEW t, NEW d, NEW w, NEW s, NEW m, NEW X, Inv(t, d, w, s, m, X)
    PROVE  Inv([t EXCEPT !.abort = "status"], d, w, s, m, {})
<1> DEFINE u == [t EXCEPT !.abort = "status"]
<1>1. t \in Worlds
  BY DEF Inv, Typed
<1>2. /\ u \in Worlds /\ u.abort = "status"
      /\ u.fi = t.fi /\ u.p = t.p /\ u.hi = t.hi /\ u.hi2 = t.hi2
  BY <1>1 DEF Worlds
<1> HIDE DEF u
<1>3. w \in Seq(Replies) /\ DOMAIN w \subseteq Nat
  BY WireIs DEF Inv, Typed
<1>4. Kept(w, w, 0)
  BY <1>3 DEF Kept
<1>5. Accords(u, d, w, s, m)
  <2>1. Accords(t, d, w, s, m) /\ Fewer(u, t)
    BY <1>2 DEF Inv, Fewer
  <2> QED
    BY <1>4, <2>1, LessKeeps
<1>6. Typed(u, d, w, s, m) /\ TableInv(u) /\ Current(u, w) /\ Waits(u, w, m, {})
  BY <1>2 DEF Inv, Typed, TableInv, Current, Waits
<1> QED
  BY <1>5, <1>6 DEF Inv, u

\* The states that handlers go through.
States == [ph : Worlds, db : Databases, wire : Seq(Replies), spoilt : SUBSET Charids,
           mishaps : SUBSET {"lost", "stale", "raced"}]

Holds(w, X) == w \in States /\ Inv(w.ph, w.db, w.wire, w.spoilt, w.mishaps, X)

-----------------------------------------------------------------------------
\* A player leaves its slot.

\* u is t with the i-th player's slot as it was at first.
Freed(t, u, i) ==
    /\ u.fi = freeid_free(t.fi, t.p[i].conn)
    /\ u.hi2 = Unhashed(t.hi2, t.p[i].accid) /\ u.hi = Unhashed(t.hi, t.p[i].charid)
    /\ \A j \in Ids \ {i} : u.p[j] = t.p[j]
    /\ u.p[i].accid = 0 /\ u.p[i].charid = 0 /\ u.p[i].name = "" /\ u.p[i].status = "FREE"

LEMMA NotAnId == -1 \notin Ids
<1> QED
  BY FreeidAssumption DEF Ids

LEMMA FreedSlots ==
    ASSUME NEW t, TableInv(t), t \in Worlds, NEW i \in LiveIn(t.fi), NEW u, Freed(t, u, i)
    PROVE  LiveIn(u.fi) = LiveIn(t.fi) \ {i} /\ TableInv(u)
<1> DEFINE L == LiveIn(t.fi)
           c == t.p[i].conn
<1>1. /\ WellFormed(t.fi) /\ i \in Ids /\ L \subseteq Ids
      /\ c \in Hashes /\ t.fi.slots[c] = i /\ t.p[i].accid \in Accounts
  BY DEF TableInv, SlotsOK, LiveIn
<1>2. /\ \A j \in L :
           /\ t.p[j].conn \in Hashes /\ t.fi.slots[t.p[j].conn] = j
           /\ t.p[j].accid \in Accounts /\ t.p[j].times < CreateTimes
           /\ t.p[j].charid # 0 => t.p[j].status # "FREE"
           /\ t.p[j].status = "LOADCHAR" => t.p[j].charid # 0
      /\ \A j \in Ids \ L :
           t.p[j].accid = 0 /\ t.p[j].charid = 0 /\ t.p[j].name = "" /\ t.p[j].status = "FREE"
      /\ \A j, k \in L : j # k =>
           t.p[j].accid # t.p[k].accid /\ (t.p[j].charid = t.p[k].charid => t.p[j].charid = 0)
  BY DEF TableInv, SlotsOK
<1>3. WellFormed(u.fi) /\ u.fi.slots = [t.fi.slots EXCEPT ![c] = -1]
  <2>1. LowHeap
    BY WorldAssumption
  <2>2. u.fi = freeid_free(t.fi, c)
    BY DEF Freed
  <2> QED
    BY <1>1, <2>1, <2>2, FreeKeepsWellFormed
<1>4. /\ t.fi.slots \in [Hashes -> Ids \cup {-1}]
      /\ \A g, h \in Hashes : t.fi.slots[g] = t.fi.slots[h] /\ g # h => t.fi.slots[g] = -1
  BY <1>1 DEF WellFormed, FreeidType
<1>5. -1 \notin Ids
  BY NotAnId
<1> DEFINE fs == t.fi.slots
           us == u.fi.slots
<1>6. us[c] = -1 /\ \A h \in Hashes \ {c} : us[h] = fs[h]
  BY <1>1, <1>3, <1>4
<1>7. L = {j \in Ids : \E h \in Hashes : fs[h] = j} /\ LiveIn(u.fi) = {j \in Ids : \E h \in Hashes : us[h] = j}
  BY DEF LiveIn
<1>8. \A j \in L : j # i => u.p[j] = t.p[j]
  BY <1>1 DEF Freed
<1> HIDE DEF L, c, fs, us
<1>9. LiveIn(u.fi) = L \ {i}
  <2>1. ASSUME NEW j \in LiveIn(u.fi) PROVE j \in L \ {i}
    <3>1. PICK h \in Hashes : us[h] = j /\ j \in Ids
      BY <1>7, <2>1
    <3>2. h # c /\ fs[h] = j
      BY <1>5, <1>6, <3>1
    <3>3. j # i
      BY <1>1, <1>4, <1>5, <3>1, <3>2 DEF fs
    <3> QED
      BY <1>7, <3>1, <3>2, <3>3
  <2>2. ASSUME NEW j \in L, j # i PROVE j \in LiveIn(u.fi)
    <3>1. PICK h \in Hashes : fs[h] = j /\ j \in Ids
      BY <1>7, <2>2
    <3>2. us[h] = j
      BY <1>1, <1>6, <2>2, <3>1 DEF fs
    <3> QED
      BY <1>7, <3>1, <3>2
  <2> QED
    BY <2>1, <2>2
<1>10. \A j \in LiveIn(u.fi) : u.p[j] = t.p[j] /\ j \in L /\ j # i
  BY <1>8, <1>9
<1>11. SlotsOK(u.fi, u.p)
  <2>1. \A j \in LiveIn(u.fi) :
          /\ u.p[j].conn \in Hashes /\ u.fi.slots[u.p[j].conn] = j
          /\ u.p[j].accid \in Accounts /\ u.p[j].times < CreateTimes
          /\ u.p[j].charid # 0 => u.p[j].status # "FREE"
          /\ u.p[j].status = "LOADCHAR" => u.p[j].charid # 0
    <3> TAKE j \in LiveIn(u.fi)
    <3>1. u.p[j] = t.p[j] /\ j \in L /\ j # i
      BY <1>10
    <3>2. t.p[j].conn # c
      BY <1>1, <1>2, <3>1
    <3>3. us[t.p[j].conn] = j
      BY <1>2, <1>6, <3>1, <3>2 DEF fs
    <3> QED
      BY <1>2, <3>1, <3>3 DEF us
  <2>2. \A j \in Ids \ LiveIn(u.fi) :
          u.p[j].accid = 0 /\ u.p[j].charid = 0 /\ u.p[j].name = "" /\ u.p[j].status = "FREE"
    <3> TAKE j \in Ids \ LiveIn(u.fi)
    <3>1. CASE j = i
      BY <3>1 DEF Freed
    <3>2. CASE j # i
      <4>1. j \in Ids \ L /\ u.p[j] = t.p[j]
        BY <1>9, <3>2 DEF Freed
      <4> QED
        BY <1>2, <4>1
    <3> QED
      BY <3>1, <3>2
  <2>3. \A j, k \in LiveIn(u.fi) : j # k =>
          u.p[j].accid # u.p[k].accid /\ (u.p[j].charid = u.p[k].charid => u.p[j].charid = 0)
    <3> TAKE j, k \in LiveIn(u.fi)
    <3>1. u.p[j] = t.p[j] /\ j \in L /\ u.p[k] = t.p[k] /\ k \in L
      BY <1>10
    <3>2. \A x, y \in L : x # y => t.p[x].accid # t.p[y].accid
                                  /\ (t.p[x].charid = t.p[y].charid => t.p[x].charid = 0)
      BY <1>2
    <3> QED
      BY <3>1, <3>2
  <2> QED
    BY <1>3, <2>1, <2>2, <2>3 DEF SlotsOK
<1>12. t.hi \in Indexes(Charids) /\ t.hi2 \in Indexes(Accounts)
  BY DEF Worlds
<1>13. Indexed(u.hi2, AccidsOf(u.fi, u.p))
  <2>1. t.p[i].accid \in AccidsOf(t.fi, t.p) /\ t.p[i].accid # 0
    BY <1>1, WorldAssumption DEF AccidsOf
  <2>2. Indexed(u.hi2, AccidsOf(t.fi, t.p) \ {t.p[i].accid})
    <3>1. Indexed(t.hi2, AccidsOf(t.fi, t.p))
      BY DEF TableInv
    <3> QED
      <4>1. Indexed(hashid_free(t.hi2, t.p[i].accid), AccidsOf(t.fi, t.p) \ {t.p[i].accid})
        BY <1>12, <2>1, <3>1, HashFree
      <4> QED
        BY <2>1, <4>1 DEF Unhashed, Freed
  <2>3. AccidsOf(u.fi, u.p) = AccidsOf(t.fi, t.p) \ {t.p[i].accid}
    <3>1. AccidsOf(u.fi, u.p) = {t.p[j].accid : j \in L \ {i}}
      BY <1>9, <1>10 DEF AccidsOf
    <3>2. AccidsOf(t.fi, t.p) = {t.p[j].accid : j \in L} /\ i \in L
      BY DEF AccidsOf, L
    <3>3. \A j \in L \ {i} : t.p[j].accid # t.p[i].accid
      BY <1>2, <3>2
    <3> QED
      BY <3>1, <3>2, <3>3
  <2> QED
    BY <2>2, <2>3
<1>14. Indexed(u.hi, CharidsOf(u.fi, u.p))
  <2>0. /\ CharidsOf(u.fi, u.p) = {t.p[j].charid : j \in L \ {i}} \ {0}
        /\ CharidsOf(t.fi, t.p) = {t.p[j].charid : j \in L} \ {0} /\ i \in L
        /\ Indexed(t.hi, CharidsOf(t.fi, t.p))
    BY <1>9, <1>10 DEF CharidsOf, L, TableInv
  <2>1. CASE t.p[i].charid = 0
    <3>1. CharidsOf(u.fi, u.p) = CharidsOf(t.fi, t.p)
      BY <2>0, <2>1
    <3> QED
      BY <2>0, <2>1, <3>1 DEF Unhashed, Freed
  <2>2. CASE t.p[i].charid # 0
    <3>1. t.p[i].charid \in CharidsOf(t.fi, t.p)
      BY <2>0, <2>2
    <3>2. Indexed(u.hi, CharidsOf(t.fi, t.p) \ {t.p[i].charid})
      <4>1. Indexed(hashid_free(t.hi, t.p[i].charid), CharidsOf(t.fi, t.p) \ {t.p[i].charid})
        BY <1>12, <2>0, <3>1, HashFree
      <4> QED
        BY <2>2, <4>1 DEF Unhashed, Freed
    <3>3. \A j \in L \ {i} : t.p[j].charid # t.p[i].charid
      BY <1>2, <2>0, <2>2
    <3>4. CharidsOf(u.fi, u.p) = CharidsOf(t.fi, t.p) \ {t.p[i].charid}
      BY <2>0, <3>3
    <3> QED
      BY <3>2, <3>4
  <2> QED
    BY <2>1, <2>2
<1> QED
  BY <1>9, <1>11, <1>13, <1>14 DEF TableInv, L

\* w is b but for what the i-th slot holds beside its ids.
LikeBut(b, w, i) ==
    /\ w \in States /\ w.db = b.db /\ w.wire = b.wire /\ w.spoilt = b.spoilt /\ w.mishaps = b.mishaps
    /\ w.ph.fi = b.ph.fi /\ w.ph.hi = b.ph.hi /\ w.ph.hi2 = b.ph.hi2 /\ w.ph.abort = b.ph.abort
    /\ \A j \in Ids \ {i} : w.ph.p[j] = b.ph.p[j]
    /\ w.ph.p[i].conn = b.ph.p[i].conn /\ w.ph.p[i].accid = b.ph.p[i].accid
    /\ w.ph.p[i].charid = b.ph.p[i].charid

\* _freeplayer, of a player that is live and not at its first status, whatever else is
\* in its slot.
LEMMA FreedKeeps ==
    ASSUME NEW b, NEW w, NEW i \in LiveIn(b.ph.fi), Holds(b, {i}), LikeBut(b, w, i),
           w.ph.p[i].status # "FREE"
    PROVE  Holds(_freeplayer(w, i), {})
<1> DEFINE v == _freeplayer(w, i)
           p == w.ph.p[i]
           c == p.conn
           q == [p EXCEPT !.conn = 0, !.status = "FREE", !.accid = 0, !.charid = 0, !.name = ""]
           aged == [k \in DOMAIN w.wire |-> IF w.wire[k].conn = c THEN [w.wire[k] EXCEPT !.old = TRUE]
                                                                  ELSE w.wire[k]]
<1>0. /\ w \in States /\ w.ph \in Worlds /\ b \in States /\ b.ph \in Worlds
      /\ w.db = b.db /\ w.wire = b.wire /\ w.spoilt = b.spoilt /\ w.mishaps = b.mishaps
      /\ w.ph.fi = b.ph.fi /\ w.ph.hi = b.ph.hi /\ w.ph.hi2 = b.ph.hi2 /\ w.ph.abort = b.ph.abort
      /\ \A j \in Ids \ {i} : w.ph.p[j] = b.ph.p[j]
      /\ TableInv(b.ph) /\ Inv(b.ph, b.db, b.wire, b.spoilt, b.mishaps, {i})
      /\ i \in Ids /\ p \in Players /\ p.accid \in Accounts /\ p.charid \in {0} \cup Charids
      /\ c = b.ph.p[i].conn /\ p.accid = b.ph.p[i].accid /\ p.charid = b.ph.p[i].charid
      /\ c \in Hashes /\ b.ph.fi.slots[c] = i /\ freeid_find(w.ph.fi, c) = i
      /\ p.status # "FREE"
  <2>1. /\ w \in States /\ b \in States /\ i \in Ids /\ TableInv(b.ph)
        /\ Inv(b.ph, b.db, b.wire, b.spoilt, b.mishaps, {i})
    BY DEF Holds, Inv, LiveIn, LikeBut
  <2>2. w.ph \in Worlds /\ b.ph \in Worlds
    BY <2>1 DEF States
  <2>3. p \in Players /\ p.charid \in {0} \cup Charids
    BY <2>1, <2>2 DEF Worlds, Players
  <2>4. c = b.ph.p[i].conn /\ p.accid = b.ph.p[i].accid /\ p.charid = b.ph.p[i].charid /\ w.ph.fi = b.ph.fi
    BY DEF LikeBut
  <2>5. b.ph.p[i].conn \in Hashes /\ b.ph.fi.slots[b.ph.p[i].conn] = i /\ b.ph.p[i].accid \in Accounts
    BY <2>1 DEF TableInv, SlotsOK
  <2>6. freeid_find(w.ph.fi, c) = i
    BY <2>4, <2>5 DEF freeid_find
  <2> QED
    BY <2>1, <2>2, <2>3, <2>4, <2>5, <2>6 DEF LikeBut
<1>1. v = [w EXCEPT !.ph.fi = freeid_free(@, c), !.ph.hi2 = Unhashed(@, p.accid),
                    !.ph.hi = Unhashed(@, p.charid), !.ph.p[i] = q, !.wire = aged]
  BY <1>0, ZenonT(40) DEF _freeplayer
<1> HIDE DEF q, aged, v
<1>2. /\ v.ph = [w.ph EXCEPT !.fi = freeid_free(@, c), !.hi2 = Unhashed(@, p.accid),
                             !.hi = Unhashed(@, p.charid), !.p[i] = q]
      /\ v.wire = aged /\ v.db = b.db /\ v.spoilt = b.spoilt /\ v.mishaps = b.mishaps
      /\ v \in [ph : {v.ph}, db : {v.db}, wire : {v.wire}, spoilt : {v.spoilt}, mishaps : {v.mishaps}]
  BY <1>0, <1>1 DEF States
<1>3. /\ q \in Players /\ q.accid = 0 /\ q.charid = 0 /\ q.name = "" /\ q.status = "FREE"
  BY <1>0 DEF q, Players, Statuses
<1>4. /\ v.ph.fi = freeid_free(b.ph.fi, c) /\ v.ph.hi2 = Unhashed(b.ph.hi2, p.accid)
      /\ v.ph.hi = Unhashed(b.ph.hi, p.charid) /\ v.ph.p = [w.ph.p EXCEPT ![i] = q]
      /\ v.ph.abort = b.ph.abort
  BY <1>0, <1>2 DEF Worlds
<1>5. freeid_free(b.ph.fi, c) \in FreeidType
  BY <1>0, WorldAssumption, FreeKeepsWellFormed DEF TableInv, SlotsOK, WellFormed
<1>6. Unhashed(b.ph.hi2, p.accid) \in Indexes(Accounts)
  <2>1. p.accid \in AccidsOf(b.ph.fi, b.ph.p)
    BY <1>0 DEF AccidsOf
  <2> QED
    BY <1>0, <2>1, HashFree DEF TableInv, Unhashed, Worlds
<1>7. Unhashed(b.ph.hi, p.charid) \in Indexes(Charids)
  <2>1. p.charid # 0 => p.charid \in CharidsOf(b.ph.fi, b.ph.p)
    BY <1>0 DEF CharidsOf
  <2> QED
    BY <1>0, <2>1, HashFree DEF TableInv, Unhashed, Worlds
<1>8. v.ph \in Worlds
  <2> DEFINE F == freeid_free(b.ph.fi, c)
             H2 == Unhashed(b.ph.hi2, p.accid)
             H == Unhashed(b.ph.hi, p.charid)
             P == [w.ph.p EXCEPT ![i] = q]
  <2>1. P \in [Ids -> Players]
    BY <1>0, <1>3 DEF Worlds
  <2>2. v.ph = [w.ph EXCEPT !.fi = F, !.hi2 = H2, !.hi = H, !.p = P]
    BY <1>0, <1>2 DEF Worlds
  <2>3. F \in FreeidType /\ H2 \in Indexes(Accounts) /\ H \in Indexes(Charids)
    BY <1>5, <1>6, <1>7
  <2> HIDE DEF F, H2, H, P
  <2> QED
    BY <1>0, <2>1, <2>2, <2>3 DEF Worlds
<1>9. LiveIn(v.ph.fi) = LiveIn(b.ph.fi) \ {i} /\ TableInv(v.ph)
  <2>1. b.ph.p \in [Ids -> Players]
    BY <1>0 DEF Worlds
  <2>2. v.ph.p[i] = q /\ \A j \in Ids \ {i} : v.ph.p[j] = b.ph.p[j]
    BY <1>0, <1>4 DEF Worlds
  <2>3. Freed(b.ph, v.ph, i)
    BY <1>0, <1>3, <1>4, <2>2 DEF Freed
  <2> QED
    BY <1>0, <2>3, FreedSlots
<1>10. \A j \in LiveIn(v.ph.fi) : v.ph.p[j] = b.ph.p[j] /\ j \in LiveIn(b.ph.fi) /\ j # i
  <2>1. w.ph.p \in [Ids -> Players]
    BY <1>0 DEF Worlds
  <2>2. \A j \in LiveIn(v.ph.fi) : j \in LiveIn(b.ph.fi) /\ j # i /\ j \in Ids
    BY <1>9, Zenon DEF LiveIn
  <2>3. \A j \in Ids \ {i} : v.ph.p[j] = w.ph.p[j]
    BY ONLY <1>4, <2>1
  <2> QED
    BY <1>0, <2>2, <2>3, Zenon
<1>11. b.wire \in Seq(Replies) /\ DOMAIN b.wire = 1 .. Len(b.wire) /\ Len(b.wire) \in Nat
       /\ \A k \in DOMAIN b.wire : b.wire[k] \in Replies
  BY <1>0, WireIs DEF States
<1>12. /\ aged \in Seq(Replies) /\ DOMAIN aged = DOMAIN b.wire
       /\ \A k \in DOMAIN aged :
            /\ aged[k].type = b.wire[k].type /\ aged[k].conn = b.wire[k].conn /\ aged[k].key = b.wire[k].key
            /\ aged[k].ok = b.wire[k].ok /\ aged[k].value = b.wire[k].value
            /\ aged[k].record = b.wire[k].record
            /\ ~ aged[k].old => ~ b.wire[k].old /\ b.wire[k].conn # c
  <2>1. \A k \in DOMAIN b.wire : [b.wire[k] EXCEPT !.old = TRUE] \in Replies
    BY <1>11 DEF Replies
  <2>0. aged = [k \in DOMAIN b.wire |-> IF b.wire[k].conn = c THEN [b.wire[k] EXCEPT !.old = TRUE]
                                                              ELSE b.wire[k]]
    BY <1>0 DEF aged
  <2>2. \A k \in DOMAIN b.wire : aged[k] \in Replies
    BY <1>11, <2>0, <2>1
  <2>3. aged = [k \in 1 .. Len(b.wire) |-> aged[k]]
    BY <1>11, <2>0
  <2>4. aged \in Seq(Replies)
    BY <1>11, <2>2, <2>3
  <2>5. DOMAIN aged = DOMAIN b.wire
    BY <2>0
  <2> QED
    BY <1>11, <2>0, <2>4, <2>5 DEF Replies
<1>13. Typed(v.ph, v.db, v.wire, v.spoilt, v.mishaps) /\ v \in States
  BY <1>0, <1>2, <1>8, <1>12 DEF Typed, States
<1>14. Kept(v.wire, b.wire, 0)
  BY <1>2, <1>11, <1>12 DEF Kept
<1>15. Accords(v.ph, v.db, v.wire, v.spoilt, v.mishaps)
  <2>1. Accords(b.ph, b.db, b.wire, b.spoilt, b.mishaps) /\ Fewer(v.ph, b.ph)
    BY <1>0, <1>9, <1>10 DEF Inv, Fewer
  <2>2. Accords(v.ph, b.db, v.wire, b.spoilt, b.mishaps)
    BY <1>14, <2>1, LessKeeps
  <2> QED
    BY <1>2, <2>2
<1>16. Current(v.ph, v.wire)
  <2> SUFFICES ASSUME NEW k \in DOMAIN v.wire, ~ v.wire[k].old
               PROVE  \E j \in LiveIn(v.ph.fi) : v.ph.p[j].conn = v.wire[k].conn
    BY DEF Current
  <2>1. k \in DOMAIN b.wire /\ ~ b.wire[k].old /\ b.wire[k].conn # c /\ v.wire[k].conn = b.wire[k].conn
    BY <1>2, <1>12
  <2>2. PICK j \in LiveIn(b.ph.fi) : b.ph.p[j].conn = b.wire[k].conn
    BY <1>0, <2>1 DEF Inv, Current
  <2>3. j # i
    BY <1>0, <2>1, <2>2
  <2> QED
    BY <1>9, <1>10, <2>1, <2>2, <2>3
<1>17. Waits(v.ph, v.wire, v.mishaps, {})
  <2> SUFFICES ASSUME v.ph.abort = "none", "lost" \notin v.mishaps, NEW j \in LiveIn(v.ph.fi),
                      v.ph.p[j].status \in DOMAIN Awaits
               PROVE  \E k \in DOMAIN v.wire : /\ v.wire[k].type = Awaits[v.ph.p[j].status]
                                               /\ v.wire[k].conn = v.ph.p[j].conn
                                               /\ v.wire[k].key = Key(v.ph.p[j], v.wire[k].type)
    BY DEF Waits
  <2>1. j \in LiveIn(b.ph.fi) \ {i} /\ v.ph.p[j] = b.ph.p[j]
    BY <1>10
  <2>2. PICK k \in DOMAIN b.wire : /\ b.wire[k].type = Awaits[b.ph.p[j].status]
                                   /\ b.wire[k].conn = b.ph.p[j].conn
                                   /\ b.wire[k].key = Key(b.ph.p[j], b.wire[k].type)
    BY <1>0, <1>2, <1>4, <2>1 DEF Inv, Waits
  <2> QED
    <3>1. /\ k \in DOMAIN v.wire /\ v.wire[k].type = b.wire[k].type /\ v.wire[k].conn = b.wire[k].conn
          /\ v.wire[k].key = b.wire[k].key
      BY <1>2, <1>12, <2>2, Zenon
    <3> QED
      BY ONLY <2>1, <2>2, <3>1, Zenon
<1> QED
  BY <1>9, <1>13, <1>15, <1>16, <1>17 DEF Holds, Inv, v

\* _freeplayer, of a player that is live: of its asserts, the one on the status may fail.
LEMMA FreePlayerKeeps ==
    ASSUME NEW w, NEW i \in LiveIn(w.ph.fi), Holds(w, {i})
    PROVE  Holds(_freeplayer(w, i), {})
<1> DEFINE v == _freeplayer(w, i)
<1>1. w \in States /\ w.ph \in Worlds /\ Inv(w.ph, w.db, w.wire, w.spoilt, w.mishaps, {i})
  BY DEF Holds, States
<1>2. CASE w.ph.p[i].status = "FREE"
  <2>1. v = [w EXCEPT !.ph.abort = "status"]
    BY <1>2 DEF _freeplayer, Fail
  <2>2. [w.ph EXCEPT !.abort = "status"] \in Worlds
    BY <1>1 DEF Worlds
  <2>3. /\ v \in States /\ v.ph = [w.ph EXCEPT !.abort = "status"] /\ v.db = w.db /\ v.wire = w.wire
        /\ v.spoilt = w.spoilt /\ v.mishaps = w.mishaps
    BY <1>1, <2>1, <2>2 DEF States
  <2> QED
    BY <1>1, <2>3, FailKeeps DEF Holds
<1>3. CASE w.ph.p[i].status # "FREE"
  <2>1. LikeBut(w, w, i)
    BY <1>1 DEF LikeBut
  <2> QED
    BY <1>3, <2>1, FreedKeeps
<1> QED
  BY <1>2, <1>3

-----------------------------------------------------------------------------
\* A player moves on: nothing but its status, its name, its tries, its values and,
\* if it had none, its character changes.

Moved(t, u, i) ==
    /\ u.fi = t.fi /\ u.hi2 = t.hi2 /\ u.abort = t.abort
    /\ \A j \in Ids \ {i} : u.p[j] = t.p[j]
    /\ u.p[i].conn = t.p[i].conn /\ u.p[i].accid = t.p[i].accid /\ u.p[i].times < CreateTimes
    /\ u.p[i].charid # 0 => u.p[i].status # "FREE"
    /\ u.p[i].status = "LOADCHAR" => u.p[i].charid # 0
    /\ \/ u.p[i].charid = t.p[i].charid /\ u.hi = t.hi
       \/ /\ t.p[i].charid = 0 /\ u.p[i].charid # 0
          /\ \A j \in LiveIn(t.fi) : t.p[j].charid # u.p[i].charid
          /\ Indexed(u.hi, CharidsOf(t.fi, t.p) \cup {u.p[i].charid})

LEMMA MovedTables ==
    ASSUME NEW t, NEW u, NEW i \in LiveIn(t.fi), TableInv(t), Moved(t, u, i)
    PROVE  LiveIn(u.fi) = LiveIn(t.fi) /\ TableInv(u)
<1> DEFINE L == LiveIn(t.fi)
<1>1. i \in Ids /\ L \subseteq Ids /\ i \in L /\ LiveIn(u.fi) = L
  BY DEF LiveIn, Moved
<1>2. \A j \in L : /\ j # i => u.p[j] = t.p[j]
                   /\ u.p[j].conn = t.p[j].conn /\ u.p[j].accid = t.p[j].accid
  BY <1>1 DEF Moved
<1> HIDE DEF L
<1>3. /\ WellFormed(t.fi)
      /\ \A j \in L :
           /\ t.p[j].conn \in Hashes /\ t.fi.slots[t.p[j].conn] = j
           /\ t.p[j].accid \in Accounts /\ t.p[j].times < CreateTimes
           /\ t.p[j].charid # 0 => t.p[j].status # "FREE"
           /\ t.p[j].status = "LOADCHAR" => t.p[j].charid # 0
  BY DEF TableInv, SlotsOK, L
<1>4. \A j \in Ids \ L :
        t.p[j].accid = 0 /\ t.p[j].charid = 0 /\ t.p[j].name = "" /\ t.p[j].status = "FREE"
  BY DEF TableInv, SlotsOK, L
<1>5. /\ \A j, k \in L : j # k => t.p[j].accid # t.p[k].accid
      /\ \A j, k \in L : j # k /\ t.p[j].charid = t.p[k].charid => t.p[j].charid = 0
  BY DEF TableInv, SlotsOK, L
<1>6. \A j \in L :
        /\ u.p[j].conn \in Hashes /\ u.fi.slots[u.p[j].conn] = j
        /\ u.p[j].accid \in Accounts /\ u.p[j].times < CreateTimes
        /\ u.p[j].charid # 0 => u.p[j].status # "FREE"
        /\ u.p[j].status = "LOADCHAR" => u.p[j].charid # 0
  <2> TAKE j \in L
  <2>1. CASE j = i
    BY <1>2, <1>3, <2>1 DEF Moved
  <2>2. CASE j # i
    BY <1>2, <1>3, <2>2 DEF Moved
  <2> QED
    BY <2>1, <2>2
<1>7. \A j \in Ids \ L :
        u.p[j].accid = 0 /\ u.p[j].charid = 0 /\ u.p[j].name = "" /\ u.p[j].status = "FREE"
  <2> TAKE j \in Ids \ L
  <2>1. u.p[j] = t.p[j]
    BY <1>1 DEF Moved
  <2> QED
    BY <1>4, <2>1
<1>8. \A j, k \in L : j # k => u.p[j].accid # u.p[k].accid
  BY <1>2, <1>5
<1>9. \A j, k \in L : j # k /\ u.p[j].charid = u.p[k].charid => u.p[j].charid = 0
  <2> TAKE j, k \in L
  <2>1. CASE u.p[i].charid = t.p[i].charid
    <3>1. \A x \in L : u.p[x].charid = t.p[x].charid
      BY <1>2, <2>1
    <3> QED
      BY <1>5, <3>1
  <2>2. CASE u.p[i].charid # t.p[i].charid
    <3>1. \A x \in L : t.p[x].charid # u.p[i].charid
      BY <2>2 DEF Moved, L
    <3> QED
      BY <1>2, <1>5, <3>1
  <2> QED
    BY <2>1, <2>2
<1>10. SlotsOK(u.fi, u.p)
  <2>1. u.fi = t.fi
    BY DEF Moved
  <2> QED
    BY <1>1, <1>3, <1>6, <1>7, <1>8, <1>9, <2>1 DEF SlotsOK
<1>11. Indexed(u.hi2, AccidsOf(u.fi, u.p))
  <2>1. AccidsOf(u.fi, u.p) = AccidsOf(t.fi, t.p)
    BY <1>1, <1>2 DEF AccidsOf, L
  <2> QED
    BY <2>1 DEF TableInv, Moved
<1>12. Indexed(u.hi, CharidsOf(u.fi, u.p))
  <2>0. /\ CharidsOf(u.fi, u.p) = {u.p[j].charid : j \in L} \ {0}
        /\ CharidsOf(t.fi, t.p) = {t.p[j].charid : j \in L} \ {0}
    BY <1>1 DEF CharidsOf, L
  <2>1. CASE u.p[i].charid = t.p[i].charid /\ u.hi = t.hi
    <3>1. \A j \in L : u.p[j].charid = t.p[j].charid
      BY <1>2, <2>1
    <3>2. CharidsOf(u.fi, u.p) = CharidsOf(t.fi, t.p)
      BY <2>0, <3>1
    <3> QED
      BY <2>1, <3>2 DEF TableInv
  <2>2. CASE /\ t.p[i].charid = 0 /\ u.p[i].charid # 0
             /\ Indexed(u.hi, CharidsOf(t.fi, t.p) \cup {u.p[i].charid})
    <3>1. \A j \in L : u.p[j].charid = IF j = i THEN u.p[i].charid ELSE t.p[j].charid
      BY <1>2
    <3>2. CharidsOf(u.fi, u.p) = CharidsOf(t.fi, t.p) \cup {u.p[i].charid}
      <4>1. \A x : x \in CharidsOf(u.fi, u.p) => x \in CharidsOf(t.fi, t.p) \cup {u.p[i].charid}
        BY <2>0, <3>1
      <4>2. \A x \in CharidsOf(t.fi, t.p) : x \in CharidsOf(u.fi, u.p)
        BY <2>0, <2>2, <3>1
      <4>3. u.p[i].charid \in CharidsOf(u.fi, u.p)
        BY <1>1, <2>0, <2>2
      <4> QED
        BY <4>1, <4>2, <4>3
    <3> QED
      BY <2>2, <3>2
  <2> QED
    BY <2>1, <2>2 DEF Moved
<1> QED
  BY <1>1, <1>10, <1>11, <1>12 DEF TableInv, L

\* It has a character that is its account's or nobody's, and that no reply on its way
\* is about that has not bound it.
MovedOwns(t, u, d, w, i) ==
    LET c == u.p[i].charid IN
    /\ u.p[i].status = "GAME" => c # 0 /\ d.user[u.p[i].accid] = c
    /\ c # t.p[i].charid =>
         /\ c <= d.lastid
         /\ \A b \in Accounts : d.user[b] = c => b = u.p[i].accid
         /\ \A k \in DOMAIN w : w[k].ok =>
              /\ w[k].type = "CHARID" => w[k].value # c
              /\ w[k].type = "CREATE" => w[k].key # c
              /\ w[k].type \in {"BINDCHARID", "LOAD"} /\ w[k].key = c => d.user[u.p[i].accid] = c

LEMMA MovedOwnInv ==
    ASSUME NEW t, NEW u, NEW d, NEW w, NEW i \in LiveIn(t.fi), OwnInv(t, d, w),
           Moved(t, u, i), MovedOwns(t, u, d, w, i)
    PROVE  OwnInv(u, d, w)
<1> DEFINE L == LiveIn(t.fi)
           c == u.p[i].charid
<1>1. i \in Ids /\ L \subseteq Ids /\ i \in L /\ LiveIn(u.fi) = L
  BY DEF LiveIn, Moved
<1>2. \A j \in L : (j # i => u.p[j] = t.p[j]) /\ u.p[j].accid = t.p[j].accid
  BY <1>1 DEF Moved
<1>3. /\ BoundOK(d) /\ PlayersOwn(t.fi, t.p, d) /\ \A k \in DOMAIN w : w[k].ok => ReplyOwn(t.fi, t.p, d, w, k)
  BY DEF OwnInv, RepliesOwn
<1> HIDE DEF L
<1>4. PlayersOwn(u.fi, u.p, d)
  <2> SUFFICES ASSUME NEW j \in L
               PROVE  /\ u.p[j].charid <= d.lastid
                      /\ u.p[j].charid # 0 => \A b \in Accounts : d.user[b] = u.p[j].charid => b = u.p[j].accid
                      /\ u.p[j].status = "GAME" => u.p[j].charid # 0 /\ d.user[u.p[j].accid] = u.p[j].charid
    BY <1>1 DEF PlayersOwn
  <2>1. /\ t.p[j].charid <= d.lastid
        /\ t.p[j].charid # 0 => \A b \in Accounts : d.user[b] = t.p[j].charid => b = t.p[j].accid
        /\ t.p[j].status = "GAME" => t.p[j].charid # 0 /\ d.user[t.p[j].accid] = t.p[j].charid
    BY <1>3 DEF PlayersOwn, L
  <2>2. CASE j # i
    BY <1>2, <2>1, <2>2
  <2>3. CASE j = i /\ c = t.p[i].charid
    BY <1>2, <2>1, <2>3 DEF MovedOwns
  <2>4. CASE j = i /\ c # t.p[i].charid
    BY <2>4 DEF MovedOwns
  <2> QED
    BY <2>2, <2>3, <2>4
<1>5. ASSUME NEW k \in DOMAIN w, w[k].ok
      PROVE  ReplyOwn(u.fi, u.p, d, w, k)
  <2>0. ReplyOwn(t.fi, t.p, d, w, k)
    BY <1>3, <1>5
  <2>1. w[k].type = "QUERY" => QueryOK(d, w[k])
    BY <2>0 DEF ReplyOwn
  <2>2. w[k].type = "CHARID" => CharidOK(u.fi, u.p, d, w, k)
    <3> SUFFICES ASSUME w[k].type = "CHARID" PROVE CharidOK(u.fi, u.p, d, w, k)
      OBVIOUS
    <3>1. CharidOK(t.fi, t.p, d, w, k)
      BY <2>0 DEF ReplyOwn
    <3>2. \A j \in L : u.p[j].charid # w[k].value
      <4> TAKE j \in L
      <4>1. t.p[j].charid # w[k].value
        BY <3>1 DEF CharidOK, Unused, L
      <4>2. CASE j = i /\ c # t.p[i].charid
        BY <1>5, <4>2 DEF MovedOwns
      <4> QED
        BY <1>2, <4>1, <4>2
    <3> QED
      BY <1>1, <3>1, <3>2 DEF CharidOK, Unused
  <2>3. w[k].type = "CREATE" => CreateOK(u.fi, u.p, d, w, k)
    <3> SUFFICES ASSUME w[k].type = "CREATE" PROVE CreateOK(u.fi, u.p, d, w, k)
      OBVIOUS
    <3>1. CreateOK(t.fi, t.p, d, w, k)
      BY <2>0 DEF ReplyOwn
    <3>2. \A j \in L : u.p[j].charid = w[k].key =>
            \A n \in DOMAIN w : n > k /\ w[n].ok /\ w[n].type = "QUERY" => w[n].key # u.p[j].accid
      <4> TAKE j \in L
      <4>1. t.p[j].charid = w[k].key =>
              \A n \in DOMAIN w : n > k /\ w[n].ok /\ w[n].type = "QUERY" => w[n].key # t.p[j].accid
        BY <3>1 DEF CreateOK, L
      <4>2. CASE j = i /\ c # t.p[i].charid
        BY <1>5, <4>2 DEF MovedOwns
      <4> QED
        BY <1>2, <4>1, <4>2
    <3> QED
      BY <1>1, <3>1, <3>2 DEF CreateOK
  <2>4. w[k].type \in {"BINDCHARID", "LOAD"} => HavingOK(u.fi, u.p, d, w[k])
    <3> SUFFICES ASSUME w[k].type \in {"BINDCHARID", "LOAD"} PROVE HavingOK(u.fi, u.p, d, w[k])
      OBVIOUS
    <3>1. HavingOK(t.fi, t.p, d, w[k])
      BY <2>0 DEF ReplyOwn
    <3>2. \A j \in L : u.p[j].charid = w[k].key => d.user[u.p[j].accid] = w[k].key
      <4> TAKE j \in L
      <4>1. t.p[j].charid = w[k].key => d.user[t.p[j].accid] = w[k].key
        BY <3>1 DEF HavingOK, L
      <4>2. CASE j = i /\ c # t.p[i].charid
        BY <1>5, <4>2 DEF MovedOwns
      <4> QED
        BY <1>2, <4>1, <4>2
    <3> QED
      BY <1>1, <3>1, <3>2 DEF HavingOK
  <2> QED
    BY <2>1, <2>2, <2>3, <2>4 DEF ReplyOwn
<1> QED
  BY <1>3, <1>4, <1>5 DEF OwnInv, RepliesOwn

LEMMA MovedStep ==
    ASSUME NEW t, NEW u, NEW w, NEW m, NEW i \in LiveIn(t.fi), SlotsOK(t.fi, t.p), InStep(t, w, m),
           Quiet(t, w, m, i), Moved(t, u, i),
           "stale" \notin m /\ u.p[i].status \in {"FREE", "LOADCHAR"} => t.p[i].status \in {"FREE", "LOADCHAR"}
    PROVE  InStep(u, w, m) /\ Quiet(u, w, m, i)
<1>1. i \in Ids /\ LiveIn(u.fi) = LiveIn(t.fi)
  BY DEF LiveIn, Moved
<1>2. \A j \in LiveIn(t.fi) : (j # i => u.p[j] = t.p[j]) /\ u.p[j].conn = t.p[j].conn
  BY DEF Moved, LiveIn
<1>3. CASE "stale" \in m
  BY <1>3 DEF InStep, Quiet
<1>4. CASE "stale" \notin m
  <2>1. ASSUME NEW k \in DOMAIN w, Comes(w, k, u.p[i].conn)
        PROVE  w[k].type # "QUERY" /\ u.p[i].status \notin {"FREE", "LOADCHAR"} /\ "raced" \in m
    BY <1>2, <1>4, <2>1 DEF Quiet
  <2>2. ASSUME NEW j \in LiveIn(t.fi), j # i, NEW k \in DOMAIN w, Comes(w, k, u.p[j].conn)
        PROVE  /\ w[k].type = "QUERY" => u.p[j].status = "FREE"
               /\ u.p[j].status \in {"FREE", "LOADCHAR"} \/ "raced" \notin m =>
                    /\ Expects(u.p[j].status, w[k].type)
                    /\ \A n \in DOMAIN w : Comes(w, n, u.p[j].conn) => n = k
    BY <1>2, <1>4, <2>2 DEF InStep
  <2> QED
    BY <1>1, <2>1, <2>2 DEF InStep, Quiet
<1> QED
  BY <1>3, <1>4

\* Its values are the character's that it has now.
LEMMA MovedData ==
    ASSUME NEW t, NEW u, NEW d, NEW w, NEW r, NEW s, NEW m, NEW i \in LiveIn(t.fi),
           DataInv(t, d, w, r, m), r \subseteq s, Moved(t, u, i),
           "stale" \notin m /\ u.p[i].charid # 0 /\ u.p[i].charid \notin s /\ u.p[i].status # "LOADCHAR" =>
             u.p[i].data = u.p[i].charid
    PROVE  DataInv(u, d, w, s, m)
<1>1. LiveIn(u.fi) = LiveIn(t.fi) /\ \A j \in LiveIn(t.fi) : j # i => u.p[j] = t.p[j]
  BY DEF LiveIn, Moved
<1> QED
  BY <1>1 DEF DataInv

\* Its name is reserved when its status says so, and the character's when it has one.
MovedNames(t, u, d, w, i) ==
    /\ u.p[i].status = "CHARUNIQUEID" =>
         /\ u.p[i].name \in d.names /\ \A c \in Charids : d.char[c].name # u.p[i].name
         /\ \A j \in LiveIn(t.fi) \ {i} : t.p[j].name = u.p[i].name => ~ Reserves(t, w, j)
    /\ u.p[i].status \in {"BINDCHARID", "GAME"} => u.p[i].name = d.char[u.p[i].charid].name

LEMMA MovedName ==
    ASSUME NEW t, NEW u, NEW d, NEW w, NEW m, NEW i \in LiveIn(t.fi), NameInv(t, d, w, m),
           Quiet(t, w, m, i), Moved(t, u, i),
           m \cap {"raced", "stale"} = {} => MovedNames(t, u, d, w, i)
    PROVE  NameInv(u, d, w, m)
<1> SUFFICES ASSUME m \cap {"raced", "stale"} = {} PROVE NameInv(u, d, w, m)
  BY DEF NameInv
<1>0. /\ CharNames(d) /\ LoadedNames(d, w) /\ NoTwoReserve(t, w)
      /\ \A j \in LiveIn(t.fi) : PlayerName(t, d, w, j)
  BY DEF NameInv
<1>1. i \in Ids /\ LiveIn(u.fi) = LiveIn(t.fi)
  BY DEF LiveIn, Moved
<1>2. \A j \in LiveIn(t.fi) : (j # i => u.p[j] = t.p[j]) /\ u.p[j].conn = t.p[j].conn
  BY DEF Moved, LiveIn
<1>3. \A k \in DOMAIN w : ~ Comes(w, k, u.p[i].conn)
  BY <1>2 DEF Quiet
<1>4. /\ Reserves(u, w, i) => u.p[i].status = "CHARUNIQUEID"
      /\ ~ MayReserve(u, w, i)
      /\ Created(u, w, i) => u.p[i].status \in {"BINDCHARID", "GAME"}
  BY <1>3 DEF Reserves, MayReserve, Created
<1>5. ASSUME NEW j \in LiveIn(t.fi), j # i
      PROVE  /\ u.p[j] = t.p[j]
             /\ Reserves(u, w, j) <=> Reserves(t, w, j)
             /\ MayReserve(u, w, j) <=> MayReserve(t, w, j)
             /\ Created(u, w, j) <=> Created(t, w, j)
  <2>1. u.p[j] = t.p[j]
    BY <1>2, <1>5
  <2> QED
    BY <2>1 DEF Reserves, MayReserve, Created
<1>6. MovedNames(t, u, d, w, i)
  OBVIOUS
<1>7. \A j \in LiveIn(u.fi) : PlayerName(u, d, w, j)
  <2> TAKE j \in LiveIn(u.fi)
  <2>1. CASE j = i
    BY <1>4, <1>6, <2>1 DEF PlayerName, MovedNames
  <2>2. CASE j # i
    <3>1. PlayerName(t, d, w, j)
      BY <1>0, <1>1
    <3> QED
      BY <1>1, <1>5, <2>2, <3>1 DEF PlayerName
  <2> QED
    BY <2>1, <2>2
<1>8. NoTwoReserve(u, w)
  <2> SUFFICES ASSUME NEW j \in LiveIn(t.fi), NEW k \in LiveIn(t.fi), j # k, u.p[j].name = u.p[k].name
               PROVE  /\ ~ (Reserves(u, w, j) /\ Reserves(u, w, k))
                      /\ ~ (MayReserve(u, w, j) /\ MayReserve(u, w, k))
    BY <1>1 DEF NoTwoReserve
  <2>1. CASE j # i /\ k # i
    <3>1. t.p[j].name = t.p[k].name
      BY <1>5, <2>1
    <3>2. /\ ~ (Reserves(t, w, j) /\ Reserves(t, w, k))
          /\ ~ (MayReserve(t, w, j) /\ MayReserve(t, w, k))
      BY <1>0, <3>1 DEF NoTwoReserve
    <3> QED
      BY <1>5, <2>1, <3>2
  <2>2. CASE j = i /\ k # i
    BY <1>4, <1>5, <1>6, <2>2 DEF MovedNames
  <2>3. CASE k = i /\ j # i
    BY <1>4, <1>5, <1>6, <2>3 DEF MovedNames
  <2> QED
    BY <2>1, <2>2, <2>3
<1> QED
  BY <1>0, <1>7, <1>8 DEF NameInv

\* All of that of a state and the one a handler makes of it.
MayMove(w, v, i) ==
    /\ v \in States /\ v.db = w.db /\ v.wire = w.wire /\ v.mishaps = w.mishaps /\ w.spoilt \subseteq v.spoilt
    /\ Moved(w.ph, v.ph, i)
    /\ MovedOwns(w.ph, v.ph, w.db, w.wire, i)
    /\ "stale" \notin w.mishaps =>
         /\ v.ph.p[i].status \in {"FREE", "LOADCHAR"} => w.ph.p[i].status \in {"FREE", "LOADCHAR"}
         /\ v.ph.p[i].charid # 0 /\ v.ph.p[i].charid \notin v.spoilt /\ v.ph.p[i].status # "LOADCHAR" =>
              v.ph.p[i].data = v.ph.p[i].charid
    /\ w.mishaps \cap {"raced", "stale"} = {} => MovedNames(w.ph, v.ph, w.db, w.wire, i)

LEMMA MoveKeeps ==
    ASSUME NEW w, NEW v, NEW i \in LiveIn(w.ph.fi), Holds(w, {i}),
           Quiet(w.ph, w.wire, w.mishaps, i), MayMove(w, v, i)
    PROVE  /\ Holds(v, {i}) /\ LiveIn(v.ph.fi) = LiveIn(w.ph.fi)
           /\ Quiet(v.ph, v.wire, v.mishaps, i)
           /\ v.ph.p[i].status \notin DOMAIN Awaits => Holds(v, {})
<1>1. /\ TableInv(w.ph) /\ Current(w.ph, w.wire) /\ Waits(w.ph, w.wire, w.mishaps, {i})
      /\ OwnInv(w.ph, w.db, w.wire) /\ InStep(w.ph, w.wire, w.mishaps)
      /\ DataInv(w.ph, w.db, w.wire, w.spoilt, w.mishaps) /\ NameInv(w.ph, w.db, w.wire, w.mishaps)
      /\ SlotsOK(w.ph.fi, w.ph.p)
  BY DEF Holds, Inv, Accords, TableInv
<1>2. /\ v \in States /\ v.db = w.db /\ v.wire = w.wire /\ v.mishaps = w.mishaps /\ w.spoilt \subseteq v.spoilt
      /\ Moved(w.ph, v.ph, i)
  BY DEF MayMove
<1>3. TableInv(v.ph) /\ LiveIn(v.ph.fi) = LiveIn(w.ph.fi)
  BY <1>1, <1>2, MovedTables
<1>4. OwnInv(v.ph, v.db, v.wire)
  <2>1. MovedOwns(w.ph, v.ph, w.db, w.wire, i)
    BY DEF MayMove
  <2>2. OwnInv(v.ph, w.db, w.wire)
    BY <1>1, <1>2, <2>1, MovedOwnInv
  <2> QED
    BY <1>2, <2>2
<1>5. InStep(v.ph, v.wire, v.mishaps) /\ Quiet(v.ph, v.wire, v.mishaps, i)
  <2>1. "stale" \notin w.mishaps /\ v.ph.p[i].status \in {"FREE", "LOADCHAR"} =>
          w.ph.p[i].status \in {"FREE", "LOADCHAR"}
    BY DEF MayMove
  <2>2. InStep(v.ph, w.wire, w.mishaps) /\ Quiet(v.ph, w.wire, w.mishaps, i)
    BY <1>1, <1>2, <2>1, MovedStep
  <2> QED
    BY <1>2, <2>2
<1>6. DataInv(v.ph, v.db, v.wire, v.spoilt, v.mishaps)
  <2>1. "stale" \notin w.mishaps =>
          (v.ph.p[i].charid # 0 /\ v.ph.p[i].charid \notin v.spoilt /\ v.ph.p[i].status # "LOADCHAR" =>
            v.ph.p[i].data = v.ph.p[i].charid)
    BY DEF MayMove
  <2>2. DataInv(v.ph, w.db, w.wire, v.spoilt, w.mishaps)
    BY <1>1, <1>2, <2>1, MovedData
  <2> QED
    BY <1>2, <2>2
<1>7. NameInv(v.ph, v.db, v.wire, v.mishaps)
  <2>1. w.mishaps \cap {"raced", "stale"} = {} => MovedNames(w.ph, v.ph, w.db, w.wire, i)
    BY DEF MayMove
  <2>2. NameInv(v.ph, w.db, w.wire, w.mishaps)
    BY <1>1, <1>2, <2>1, MovedName
  <2> QED
    BY <1>2, <2>2
<1>8. \A j \in LiveIn(w.ph.fi) : v.ph.p[j].conn = w.ph.p[j].conn /\ (j # i => v.ph.p[j] = w.ph.p[j])
  BY <1>2 DEF Moved, LiveIn
<1>9. Current(v.ph, v.wire)
  BY <1>1, <1>2, <1>3, <1>8 DEF Current
<1>10. Waits(v.ph, v.wire, v.mishaps, {i})
  <2>1. v.ph.abort = w.ph.abort
    BY <1>2 DEF Moved
  <2> QED
    BY <1>1, <1>2, <1>3, <1>8, <2>1 DEF Waits
<1>11. Typed(v.ph, v.db, v.wire, v.spoilt, v.mishaps)
  BY <1>2 DEF States, Typed
<1>12. v.ph.p[i].status \notin DOMAIN Awaits => Waits(v.ph, v.wire, v.mishaps, {})
  BY <1>10 DEF Waits
<1> QED
  BY <1>2, <1>3, <1>4, <1>5, <1>6, <1>7, <1>9, <1>10, <1>11, <1>12 DEF Holds, Inv, Accords

-----------------------------------------------------------------------------
\* A reply sets out, to a player that is moved on.

\* v is w and, at z, r.
Longer(v, w, r, z) ==
    /\ DOMAIN v = DOMAIN w \cup {z} /\ z \notin DOMAIN w /\ DOMAIN v \subseteq Nat
    /\ \A k \in DOMAIN w : k < z /\ v[k] = w[k]
    /\ v[z] = r

LEMMA AppendIsLonger ==
    ASSUME NEW w \in Seq(Replies), NEW r \in Replies
    PROVE  Append(w, r) \in Seq(Replies) /\ Longer(Append(w, r), w, r, Len(w) + 1)
<1>1. /\ Append(w, r) \in Seq(Replies) /\ Len(Append(w, r)) = Len(w) + 1
      /\ \A k \in 1 .. Len(w) : Append(w, r)[k] = w[k]
      /\ Append(w, r)[Len(w) + 1] = r
  BY AppendProperties
<1>2. DOMAIN w = 1 .. Len(w) /\ Len(w) \in Nat /\ DOMAIN Append(w, r) = 1 .. Len(w) + 1
  BY <1>1, LenProperties
<1>3. \A n \in Nat : /\ 1 .. n + 1 = (1 .. n) \cup {n + 1} /\ n + 1 \notin 1 .. n /\ 1 .. n + 1 \subseteq Nat
                     /\ \A k \in 1 .. n : k < n + 1
  OBVIOUS
<1> QED
  BY <1>1, <1>2, <1>3 DEF Longer

NewOwn(t, d, w, r, i) ==
    r.ok =>
      /\ r.type = "QUERY" => QueryOK(d, r) /\ r.key = t.p[i].accid /\ t.p[i].charid = 0
      /\ r.type = "CHARID" =>
           /\ Unused(t.fi, t.p, d, r.value)
           /\ \A n \in DOMAIN w : w[n].ok =>
                /\ w[n].type = "CHARID" => w[n].value # r.value
                /\ w[n].type \in {"CREATE", "BINDCHARID", "LOAD"} => w[n].key # r.value
      /\ r.type = "CREATE" =>
           /\ r.key = t.p[i].charid
           /\ r.key \in Charids /\ r.key <= d.lastid /\ d.char[r.key].name # NoName
           /\ \A a \in Accounts : d.user[a] # r.key
           /\ \A n \in DOMAIN w : w[n].ok /\ w[n].type = "CREATE" => w[n].key # r.key
      /\ r.type \in {"BINDCHARID", "LOAD"} => HavingOK(t.fi, t.p, d, r) /\ r.key = t.p[i].charid

LEMMA LongerOwn ==
    ASSUME NEW t, NEW d, NEW w, NEW v, NEW r, NEW z, NEW i \in LiveIn(t.fi),
           SlotsOK(t.fi, t.p), OwnInv(t, d, w), NewOwn(t, d, w, r, i), Longer(v, w, r, z)
    PROVE  OwnInv(t, d, v)
<1>1. /\ DOMAIN v = DOMAIN w \cup {z} /\ z \notin DOMAIN w /\ DOMAIN v \subseteq Nat
      /\ \A k \in DOMAIN w : k < z /\ v[k] = w[k]
      /\ v[z] = r
  BY DEF Longer
<1>2. \A n \in DOMAIN v : n = z \/ (n \in DOMAIN w /\ v[n] = w[n])
  BY <1>1
<1>3. ASSUME r.ok
      PROVE  ReplyOwn(t.fi, t.p, d, v, z)
  <2>1. r.type = "QUERY" => QueryOK(d, v[z])
    BY <1>1, <1>3 DEF NewOwn
  <2>2. r.type = "CHARID" => CharidOK(t.fi, t.p, d, v, z)
    <3> SUFFICES ASSUME r.type = "CHARID" PROVE CharidOK(t.fi, t.p, d, v, z)
      OBVIOUS
    <3>1. /\ Unused(t.fi, t.p, d, r.value)
          /\ \A n \in DOMAIN w : w[n].ok =>
               /\ w[n].type = "CHARID" => w[n].value # r.value
               /\ w[n].type \in {"CREATE", "BINDCHARID", "LOAD"} => w[n].key # r.value
      BY <1>3 DEF NewOwn
    <3> QED
      BY <1>1, <1>2, <3>1 DEF CharidOK
  <2>3. r.type = "CREATE" => CreateOK(t.fi, t.p, d, v, z)
    <3> SUFFICES ASSUME r.type = "CREATE" PROVE CreateOK(t.fi, t.p, d, v, z)
      OBVIOUS
    <3>1. /\ r.key \in Charids /\ r.key <= d.lastid /\ d.char[r.key].name # NoName
          /\ \A a \in Accounts : d.user[a] # r.key
          /\ \A n \in DOMAIN w : w[n].ok /\ w[n].type = "CREATE" => w[n].key # r.key
      BY <1>3 DEF NewOwn
    <3>2. \A n \in DOMAIN v : ~ n > z
      BY <1>1
    <3> QED
      BY <1>1, <1>2, <3>1, <3>2 DEF CreateOK
  <2>4. r.type \in {"BINDCHARID", "LOAD"} => HavingOK(t.fi, t.p, d, v[z])
    BY <1>1, <1>3 DEF NewOwn
  <2> QED
    BY <1>1, <2>1, <2>2, <2>3, <2>4 DEF ReplyOwn
<1>4. ASSUME NEW k \in DOMAIN w, w[k].ok
      PROVE  ReplyOwn(t.fi, t.p, d, v, k)
  <2>1. ReplyOwn(t.fi, t.p, d, w, k) /\ v[k] = w[k] /\ k < z /\ k # z
    BY <1>1, <1>4 DEF OwnInv, RepliesOwn
  <2>2. w[k].type = "CHARID" => CharidOK(t.fi, t.p, d, v, k)
    <3> SUFFICES ASSUME w[k].type = "CHARID" PROVE CharidOK(t.fi, t.p, d, v, k)
      OBVIOUS
    <3>1. CharidOK(t.fi, t.p, d, w, k)
      BY <2>1 DEF ReplyOwn
    <3>2. t.p[i].charid # w[k].value
      BY <3>1 DEF CharidOK, Unused
    <3>3. r.ok /\ r.type \in {"CREATE", "BINDCHARID", "LOAD"} => r.key # w[k].value
      BY <3>2 DEF NewOwn
    <3>4. r.ok /\ r.type = "CHARID" => r.value # w[k].value
      BY <1>4 DEF NewOwn
    <3>5. Unused(t.fi, t.p, d, v[k].value)
      BY <2>1, <3>1 DEF CharidOK
    <3> SUFFICES ASSUME NEW n \in DOMAIN v, v[n].ok
                 PROVE  /\ v[n].type = "CHARID" /\ v[n].value = v[k].value => n = k
                        /\ v[n].type \in {"CREATE", "BINDCHARID", "LOAD"} => v[n].key # v[k].value
      BY <3>5 DEF CharidOK
    <3>6. CASE n = z
      BY <1>1, <2>1, <3>3, <3>4, <3>6
    <3>7. CASE n \in DOMAIN w /\ v[n] = w[n]
      BY <2>1, <3>1, <3>7 DEF CharidOK
    <3> QED
      BY <1>2, <3>6, <3>7
  <2>3. w[k].type = "CREATE" => CreateOK(t.fi, t.p, d, v, k)
    <3> SUFFICES ASSUME w[k].type = "CREATE" PROVE CreateOK(t.fi, t.p, d, v, k)
      OBVIOUS
    <3>1. CreateOK(t.fi, t.p, d, w, k)
      BY <2>1 DEF ReplyOwn
    <3>2. r.ok /\ r.type = "CREATE" => w[k].key # r.key
      BY <1>4 DEF NewOwn
    <3>3. \A n \in DOMAIN v : v[n].ok /\ v[n].type = "CREATE" /\ v[n].key = w[k].key => n = k
      BY <1>1, <1>2, <3>1, <3>2 DEF CreateOK
    <3>4. ASSUME NEW j \in LiveIn(t.fi), t.p[j].charid = w[k].key, r.ok, r.type = "QUERY"
          PROVE  r.key # t.p[j].accid
      <4>1. r.key = t.p[i].accid /\ t.p[i].charid = 0
        BY <3>4 DEF NewOwn
      <4>2. j # i
        BY <3>1, <3>4, <4>1 DEF CreateOK, Charids
      <4> QED
        BY <4>1, <4>2, Apart
    <3>5. ASSUME NEW j \in LiveIn(t.fi), t.p[j].charid = w[k].key, NEW n \in DOMAIN v,
                 n > k, v[n].ok, v[n].type = "QUERY"
          PROVE  v[n].key # t.p[j].accid
      <4>1. CASE n = z
        BY <1>1, <3>4, <3>5, <4>1
      <4>2. CASE n \in DOMAIN w /\ v[n] = w[n]
        BY <3>1, <3>5, <4>2 DEF CreateOK
      <4> QED
        BY <1>2, <4>1, <4>2
    <3>6. /\ w[k].key \in Charids /\ w[k].key <= d.lastid /\ d.char[w[k].key].name # NoName
          /\ \A a \in Accounts : d.user[a] # w[k].key
      BY <3>1 DEF CreateOK
    <3> QED
      BY <2>1, <3>3, <3>5, <3>6 DEF CreateOK
  <2> QED
    BY <2>1, <2>2, <2>3 DEF ReplyOwn
<1>5. \A k \in DOMAIN v : v[k].ok => ReplyOwn(t.fi, t.p, d, v, k)
  BY <1>1, <1>2, <1>3, <1>4
<1> QED
  BY <1>5 DEF OwnInv, RepliesOwn

LEMMA LongerStep ==
    ASSUME NEW t, NEW w, NEW v, NEW m, NEW r, NEW z, NEW i \in LiveIn(t.fi), SlotsOK(t.fi, t.p),
           InStep(t, w, m), Quiet(t, w, m, i), Longer(v, w, r, z),
           r.conn = t.p[i].conn, Expects(t.p[i].status, r.type)
    PROVE  InStep(t, v, m)
<1> SUFFICES ASSUME "stale" \notin m, NEW j \in LiveIn(t.fi), NEW k \in DOMAIN v, Comes(v, k, t.p[j].conn)
             PROVE  /\ v[k].type = "QUERY" => t.p[j].status = "FREE"
                    /\ t.p[j].status \in {"FREE", "LOADCHAR"} \/ "raced" \notin m =>
                         /\ Expects(t.p[j].status, v[k].type)
                         /\ \A n \in DOMAIN v : Comes(v, n, t.p[j].conn) => n = k
  BY DEF InStep
<1>1. /\ DOMAIN v = DOMAIN w \cup {z} /\ z \notin DOMAIN w /\ v[z] = r
      /\ \A n \in DOMAIN w : v[n] = w[n]
  BY DEF Longer
<1>2. j # i => r.conn # t.p[j].conn
  BY Apart
<1>3. \A n \in DOMAIN w : Comes(w, n, t.p[i].conn) =>
        w[n].type # "QUERY" /\ t.p[i].status \notin {"FREE", "LOADCHAR"} /\ "raced" \in m
  BY DEF Quiet
<1>4. \A n \in DOMAIN w : \A c : Comes(v, n, c) => Comes(w, n, c)
  BY <1>1 DEF Comes
<1>5. CASE j = i /\ k = z
  <2>1. r.type = "QUERY" => t.p[i].status = "FREE"
    BY DEF Expects, Awaits
  <2> QED
    BY <1>1, <1>3, <1>4, <1>5, <2>1
<1>6. CASE j = i /\ k # z
  BY <1>1, <1>3, <1>4, <1>6
<1>7. CASE j # i
  <2>1. k \in DOMAIN w /\ Comes(w, k, t.p[j].conn) /\ v[k] = w[k]
    BY <1>1, <1>2, <1>4, <1>7 DEF Comes
  <2>2. \A n \in DOMAIN v : Comes(v, n, t.p[j].conn) => n \in DOMAIN w
    BY <1>1, <1>2, <1>7 DEF Comes
  <2>3. /\ w[k].type = "QUERY" => t.p[j].status = "FREE"
        /\ t.p[j].status \in {"FREE", "LOADCHAR"} \/ "raced" \notin m =>
             /\ Expects(t.p[j].status, w[k].type)
             /\ \A n \in DOMAIN w : Comes(w, n, t.p[j].conn) => n = k
    BY <2>1 DEF InStep
  <2> QED
    BY <1>4, <2>1, <2>2, <2>3
<1> QED
  BY <1>5, <1>6, <1>7

LEMMA LongerData ==
    ASSUME NEW t, NEW d, NEW w, NEW v, NEW s, NEW m, NEW r, NEW z, DataInv(t, d, w, s, m), Longer(v, w, r, z),
           "stale" \notin m => (r.ok /\ r.type = "LOAD" /\ r.key \notin s /\ r.record.name # NoName =>
                                 r.record.data = r.key)
    PROVE  DataInv(t, d, v, s, m)
<1>1. \A n \in DOMAIN v : (n = z /\ v[n] = r) \/ (n \in DOMAIN w /\ v[n] = w[n])
  BY DEF Longer
<1> QED
  BY <1>1 DEF DataInv

NewName(t, d, w, r, i) ==
    r.ok =>
      /\ r.type = "LOAD" => r.record.name = d.char[r.key].name
      /\ r.type = "SAVENAME" =>
           /\ t.p[i].name \in d.names /\ \A c \in Charids : d.char[c].name # t.p[i].name
           /\ \A j \in LiveIn(t.fi) \ {i} : t.p[j].name = t.p[i].name => ~ Reserves(t, w, j)
      /\ r.type = "CHECKNAME" /\ r.value = 0 =>
           /\ t.p[i].name \notin d.names
           /\ \A j \in LiveIn(t.fi) \ {i} : t.p[j].name = t.p[i].name => ~ MayReserve(t, w, j)
      /\ r.type = "CREATE" => t.p[i].name = d.char[t.p[i].charid].name

LEMMA LongerName ==
    ASSUME NEW t, NEW d, NEW w, NEW v, NEW m, NEW r, NEW z, NEW i \in LiveIn(t.fi), SlotsOK(t.fi, t.p),
           NameInv(t, d, w, m), Quiet(t, w, m, i), Longer(v, w, r, z),
           r.conn = t.p[i].conn, Expects(t.p[i].status, r.type),
           m \cap {"raced", "stale"} = {} => NewName(t, d, w, r, i)
    PROVE  NameInv(t, d, v, m)
<1> SUFFICES ASSUME m \cap {"raced", "stale"} = {} PROVE NameInv(t, d, v, m)
  BY DEF NameInv
<1>0. /\ CharNames(d) /\ LoadedNames(d, w) /\ NoTwoReserve(t, w)
      /\ \A j \in LiveIn(t.fi) : PlayerName(t, d, w, j)
  BY DEF NameInv
<1>1. /\ DOMAIN v = DOMAIN w \cup {z} /\ z \notin DOMAIN w /\ v[z] = r
      /\ \A n \in DOMAIN w : v[n] = w[n]
  BY DEF Longer
<1>2. \A n \in DOMAIN v : n = z \/ n \in DOMAIN w
  BY <1>1
<1>3. NewName(t, d, w, r, i)
  OBVIOUS
<1>4. LoadedNames(d, v)
  <2> SUFFICES ASSUME NEW n \in DOMAIN v, v[n].ok, v[n].type = "LOAD"
               PROVE  v[n].record.name = d.char[v[n].key].name
    BY DEF LoadedNames
  <2>1. CASE n = z
    BY <1>1, <1>3, <2>1 DEF NewName
  <2>2. CASE n \in DOMAIN w
    BY <1>0, <1>1, <2>2 DEF LoadedNames
  <2> QED
    BY <1>2, <2>1, <2>2
<1>5. \A n \in DOMAIN w : \A c : Comes(v, n, c) <=> Comes(w, n, c)
  BY <1>1 DEF Comes
<1>6. \A n \in DOMAIN w : ~ Comes(v, n, t.p[i].conn)
  BY <1>5 DEF Quiet
<1>7. /\ Reserves(t, v, i) => t.p[i].status = "CHARUNIQUEID" \/ (r.ok /\ r.type = "SAVENAME")
      /\ MayReserve(t, v, i) => r.ok /\ r.type = "CHECKNAME" /\ r.value = 0
      /\ Created(t, v, i) => t.p[i].status \in {"BINDCHARID", "GAME"} \/ (r.ok /\ r.type = "CREATE")
  BY <1>1, <1>2, <1>6 DEF Reserves, MayReserve, Created
<1>8. ASSUME NEW j \in LiveIn(t.fi), j # i
      PROVE  /\ Reserves(t, v, j) <=> Reserves(t, w, j)
             /\ MayReserve(t, v, j) <=> MayReserve(t, w, j)
             /\ Created(t, v, j) <=> Created(t, w, j)
  <2>1. ~ Comes(v, z, t.p[j].conn)
    BY <1>1, <1>8, Apart DEF Comes
  <2> QED
    BY <1>1, <1>2, <1>5, <2>1 DEF Reserves, MayReserve, Created
<1>9. t.p[i].status = "CHARUNIQUEID" => Reserves(t, w, i)
  BY DEF Reserves
<1>10. t.p[i].status \in {"BINDCHARID", "GAME"} => Created(t, w, i)
  BY DEF Created
<1>11. \A j \in LiveIn(t.fi) : PlayerName(t, d, v, j)
  <2> TAKE j \in LiveIn(t.fi)
  <2>0. PlayerName(t, d, w, j)
    BY <1>0
  <2>1. CASE j = i
    BY <1>3, <1>7, <1>9, <1>10, <2>0, <2>1 DEF PlayerName, NewName
  <2>2. CASE j # i
    BY <1>8, <2>0, <2>2 DEF PlayerName
  <2> QED
    BY <2>1, <2>2
<1>12. NoTwoReserve(t, v)
  <2>1. ASSUME NEW j \in LiveIn(t.fi), j # i, t.p[j].name = t.p[i].name
        PROVE  ~ (Reserves(t, v, i) /\ Reserves(t, w, j)) /\ ~ (MayReserve(t, v, i) /\ MayReserve(t, w, j))
    <3>1. t.p[i].status = "CHARUNIQUEID" => ~ Reserves(t, w, j)
      BY <1>0, <1>9, <2>1 DEF NoTwoReserve
    <3>2. r.ok /\ r.type = "SAVENAME" => ~ Reserves(t, w, j)
      BY <1>3, <2>1 DEF NewName
    <3>3. r.ok /\ r.type = "CHECKNAME" /\ r.value = 0 => ~ MayReserve(t, w, j)
      BY <1>3, <2>1 DEF NewName
    <3> QED
      BY <1>7, <3>1, <3>2, <3>3
  <2>2. ASSUME NEW j \in LiveIn(t.fi), NEW k \in LiveIn(t.fi), j # i, k # i, j # k, t.p[j].name = t.p[k].name
        PROVE  ~ (Reserves(t, w, j) /\ Reserves(t, w, k)) /\ ~ (MayReserve(t, w, j) /\ MayReserve(t, w, k))
    BY <1>0, <2>2 DEF NoTwoReserve
  <2> SUFFICES ASSUME NEW j \in LiveIn(t.fi), NEW k \in LiveIn(t.fi), j # k, t.p[j].name = t.p[k].name
               PROVE  ~ (Reserves(t, v, j) /\ Reserves(t, v, k)) /\ ~ (MayReserve(t, v, j) /\ MayReserve(t, v, k))
    BY DEF NoTwoReserve
  <2>3. CASE j = i
    BY <1>8, <2>1, <2>3
  <2>4. CASE k = i
    BY <1>8, <2>1, <2>4
  <2>5. CASE j # i /\ k # i
    BY <1>8, <2>2, <2>5
  <2> QED
    BY <2>3, <2>4, <2>5
<1> QED
  BY <1>0, <1>4, <1>11, <1>12 DEF NameInv

\* All of that, of the reply to the i-th player.
MayAnswer(w, r, i) ==
    /\ r \in Replies /\ ~ r.old /\ r.conn = w.ph.p[i].conn /\ r.key = Key(w.ph.p[i], r.type)
    /\ Expects(w.ph.p[i].status, r.type)
    /\ NewOwn(w.ph, w.db, w.wire, r, i)
    /\ "stale" \notin w.mishaps =>
         (r.ok /\ r.type = "LOAD" /\ r.key \notin w.spoilt /\ r.record.name # NoName => r.record.data = r.key)
    /\ w.mishaps \cap {"raced", "stale"} = {} => NewName(w.ph, w.db, w.wire, r, i)

LEMMA AnswerKeeps ==
    ASSUME NEW w, NEW v, NEW i \in LiveIn(w.ph.fi), NEW r, Holds(w, {i}),
           Quiet(w.ph, w.wire, w.mishaps, i), MayAnswer(w, r, i),
           v = [w EXCEPT !.wire = Append(@, r)]
    PROVE  Holds(v, {})
<1>1. /\ TableInv(w.ph) /\ Current(w.ph, w.wire) /\ Waits(w.ph, w.wire, w.mishaps, {i})
      /\ OwnInv(w.ph, w.db, w.wire) /\ InStep(w.ph, w.wire, w.mishaps)
      /\ DataInv(w.ph, w.db, w.wire, w.spoilt, w.mishaps) /\ NameInv(w.ph, w.db, w.wire, w.mishaps)
      /\ SlotsOK(w.ph.fi, w.ph.p) /\ w \in States /\ w.wire \in Seq(Replies)
      /\ Typed(w.ph, w.db, w.wire, w.spoilt, w.mishaps)
  BY DEF Holds, Inv, Accords, TableInv, States
<1>2. /\ r \in Replies /\ ~ r.old /\ r.conn = w.ph.p[i].conn /\ r.key = Key(w.ph.p[i], r.type)
      /\ Expects(w.ph.p[i].status, r.type)
  BY DEF MayAnswer
<1>3. Append(w.wire, r) \in Seq(Replies) /\ Longer(Append(w.wire, r), w.wire, r, Len(w.wire) + 1)
  BY <1>1, <1>2, AppendIsLonger
<1> DEFINE x == Append(w.wire, r)
           z == Len(w.wire) + 1
<1>4. /\ v \in States /\ v.ph = w.ph /\ v.db = w.db /\ v.spoilt = w.spoilt /\ v.mishaps = w.mishaps
      /\ v.wire = x
  BY <1>1, <1>3 DEF States
<1>5. x \in Seq(Replies) /\ Longer(x, w.wire, r, z)
  BY <1>3
<1> HIDE DEF x, z
<1>6. OwnInv(w.ph, w.db, x)
  <2>1. NewOwn(w.ph, w.db, w.wire, r, i)
    BY DEF MayAnswer
  <2> QED
    BY <1>1, <1>5, <2>1, LongerOwn
<1>7. InStep(w.ph, x, w.mishaps)
  BY <1>1, <1>2, <1>5, LongerStep
<1>8. DataInv(w.ph, w.db, x, w.spoilt, w.mishaps)
  <2>1. "stale" \notin w.mishaps =>
          (r.ok /\ r.type = "LOAD" /\ r.key \notin w.spoilt /\ r.record.name # NoName => r.record.data = r.key)
    BY DEF MayAnswer
  <2> QED
    BY <1>1, <1>5, <2>1, LongerData
<1>9. NameInv(w.ph, w.db, x, w.mishaps)
  <2>1. w.mishaps \cap {"raced", "stale"} = {} => NewName(w.ph, w.db, w.wire, r, i)
    BY DEF MayAnswer
  <2> QED
    BY <1>1, <1>2, <1>5, <2>1, LongerName
<1>10. /\ DOMAIN x = DOMAIN w.wire \cup {z} /\ x[z] = r
       /\ \A k \in DOMAIN w.wire : x[k] = w.wire[k]
  BY <1>5 DEF Longer
<1>11. Current(w.ph, x)
  <2> SUFFICES ASSUME NEW k \in DOMAIN x, ~ x[k].old
               PROVE  \E j \in LiveIn(w.ph.fi) : w.ph.p[j].conn = x[k].conn
    BY DEF Current
  <2>1. CASE k = z
    BY <1>2, <1>10, <2>1
  <2>2. CASE k \in DOMAIN w.wire
    BY <1>1, <1>10, <2>2 DEF Current
  <2> QED
    BY <1>10, <2>1, <2>2
<1>12. Waits(w.ph, x, w.mishaps, {})
  <2> SUFFICES ASSUME w.ph.abort = "none", "lost" \notin w.mishaps, NEW j \in LiveIn(w.ph.fi),
                      w.ph.p[j].status \in DOMAIN Awaits
               PROVE  \E k \in DOMAIN x : /\ x[k].type = Awaits[w.ph.p[j].status]
                                          /\ x[k].conn = w.ph.p[j].conn
                                          /\ x[k].key = Key(w.ph.p[j], x[k].type)
    BY DEF Waits
  <2>1. CASE j = i
    <3>1. r.type = Awaits[w.ph.p[i].status]
      BY <1>2, <2>1 DEF Expects, Awaits
    <3> QED
      BY <1>2, <1>10, <2>1, <3>1
  <2>2. CASE j # i
    <3>1. PICK k \in DOMAIN w.wire : /\ w.wire[k].type = Awaits[w.ph.p[j].status]
                                     /\ w.wire[k].conn = w.ph.p[j].conn
                                     /\ w.wire[k].key = Key(w.ph.p[j], w.wire[k].type)
      BY <1>1, <2>2 DEF Waits
    <3> QED
      BY <1>10, <3>1
  <2> QED
    BY <2>1, <2>2
<1>13. Typed(w.ph, w.db, x, w.spoilt, w.mishaps)
  BY <1>1, <1>5 DEF Typed
<1> QED
  BY <1>1, <1>4, <1>6, <1>7, <1>8, <1>9, <1>11, <1>12, <1>13 DEF Holds, Inv, Accords

-----------------------------------------------------------------------------
\* Redis executes a request.

LEMMA ExecKeeps ==
    ASSUME NEW w, NEW v, NEW e, NEW X, Holds(w, X), v = [w EXCEPT !.db = e], e \in Databases,
           OwnInv(w.ph, e, w.wire), DataInv(w.ph, e, w.wire, w.spoilt, w.mishaps),
           NameInv(w.ph, e, w.wire, w.mishaps)
    PROVE  Holds(v, X)
<1>1. /\ w \in States /\ TableInv(w.ph) /\ Current(w.ph, w.wire) /\ Waits(w.ph, w.wire, w.mishaps, X)
      /\ InStep(w.ph, w.wire, w.mishaps)
  BY DEF Holds, Inv, Accords
<1>2. /\ v \in States /\ v.ph = w.ph /\ v.wire = w.wire /\ v.spoilt = w.spoilt /\ v.mishaps = w.mishaps
      /\ v.db = e
  BY <1>1 DEF States
<1>3. Typed(v.ph, v.db, v.wire, v.spoilt, v.mishaps)
  BY <1>2 DEF States, Typed
<1> QED
  BY <1>1, <1>2, <1>3 DEF Holds, Inv, Accords

\* PDB_SAVENAME: of a name that nobody else has been told is free.
NotTold(t, w, m, n) ==
    m \cap {"raced", "stale"} = {} => \A j \in LiveIn(t.fi) : MayReserve(t, w, j) => t.p[j].name # n

LEMMA SavedName ==
    ASSUME NEW t, NEW d \in Databases, NEW e, NEW w, NEW s, NEW m, Accords(t, d, w, s, m),
           NEW n \in Names \cup {"", OldName}, e = [d EXCEPT !.names = @ \cup {n}],
           NotTold(t, w, m, n)
    PROVE  e \in Databases /\ OwnInv(t, e, w) /\ DataInv(t, e, w, s, m) /\ NameInv(t, e, w, m)
<1>1. /\ e \in Databases /\ e.user = d.user /\ e.lastid = d.lastid /\ e.char = d.char
      /\ e.names = d.names \cup {n}
  BY DEF Databases
<1>2. OwnInv(t, d, w) /\ DataInv(t, d, w, s, m) /\ NameInv(t, d, w, m)
  BY DEF Accords
<1>3. OwnInv(t, e, w)
  <2>1. BoundOK(e) /\ PlayersOwn(t.fi, t.p, e)
    BY <1>1, <1>2, ZenonT(40) DEF OwnInv, BoundOK, PlayersOwn
  <2>2. ASSUME NEW k \in DOMAIN w, w[k].ok
        PROVE  ReplyOwn(t.fi, t.p, e, w, k)
    <3>1. ReplyOwn(t.fi, t.p, d, w, k)
      BY <1>2, <2>2 DEF OwnInv, RepliesOwn
    <3>2. w[k].type = "QUERY" => QueryOK(e, w[k])
      BY <1>1, <3>1 DEF ReplyOwn, QueryOK
    <3>3. w[k].type = "CHARID" => CharidOK(t.fi, t.p, e, w, k)
      BY <1>1, <3>1 DEF ReplyOwn, CharidOK, Unused
    <3>4. w[k].type = "CREATE" => CreateOK(t.fi, t.p, e, w, k)
      BY <1>1, <3>1 DEF ReplyOwn, CreateOK
    <3>5. w[k].type \in {"BINDCHARID", "LOAD"} => HavingOK(t.fi, t.p, e, w[k])
      BY <1>1, <3>1 DEF ReplyOwn, HavingOK
    <3> QED
      BY <3>2, <3>3, <3>4, <3>5 DEF ReplyOwn
  <2> QED
    BY <2>1, <2>2 DEF OwnInv, RepliesOwn
<1>4. DataInv(t, e, w, s, m)
  BY <1>1, <1>2 DEF DataInv
<1>5. NameInv(t, e, w, m)
  <2> SUFFICES ASSUME m \cap {"raced", "stale"} = {} PROVE NameInv(t, e, w, m)
    BY DEF NameInv
  <2>1. /\ CharNames(d) /\ LoadedNames(d, w) /\ NoTwoReserve(t, w)
        /\ \A j \in LiveIn(t.fi) : PlayerName(t, d, w, j)
    BY <1>2 DEF NameInv
  <2>2. CharNames(e) /\ LoadedNames(e, w)
    <3>1. e.char = d.char /\ d.names \subseteq e.names /\ CharNames(d) /\ LoadedNames(d, w)
      BY <1>1, <2>1
    <3>2. LoadedNames(e, w)
      BY ONLY <3>1, Zenon DEF LoadedNames
    <3>3. CharNames(e)
      BY ONLY <3>1, Zenon DEF CharNames
    <3> QED
      BY <3>2, <3>3
  <2>3. \A j \in LiveIn(t.fi) : PlayerName(t, e, w, j)
    BY <1>1, <2>1 DEF PlayerName, NotTold
  <2> QED
    BY <2>1, <2>2, <2>3 DEF NameInv
<1> QED
  BY <1>1, <1>3, <1>4, <1>5

\* PDB_CHARID.
LEMMA NextCharid ==
    ASSUME NEW t \in Worlds, NEW d \in Databases, NEW e, NEW w \in Seq(Replies), NEW s, NEW m,
           Accords(t, d, w, s, m), d.lastid # MaxChar, e = [d EXCEPT !.lastid = @ + 1]
    PROVE  e \in Databases /\ OwnInv(t, e, w) /\ DataInv(t, e, w, s, m) /\ NameInv(t, e, w, m)
<1>0. MaxChar \in Nat /\ d.lastid \in 0 .. MaxChar
  BY WorldAssumption DEF Databases
<1>1. /\ e \in Databases /\ e.user = d.user /\ e.lastid = d.lastid + 1 /\ e.char = d.char
      /\ e.names = d.names
  <2>1. d.lastid + 1 \in 0 .. MaxChar
    BY <1>0
  <2>2. e.user = d.user /\ e.lastid = d.lastid + 1 /\ e.char = d.char /\ e.names = d.names
    BY DEF Databases
  <2>3. e \in Databases
    BY <2>1 DEF Databases
  <2> QED
    BY <2>2, <2>3
<1>2. OwnInv(t, d, w) /\ DataInv(t, d, w, s, m) /\ NameInv(t, d, w, m)
  BY DEF Accords
<1>3. \A c \in {0} \cup Charids : c <= d.lastid => c <= e.lastid
  BY <1>0, <1>1 DEF Charids
<1>4. BoundOK(e)
  <2>1. \A a \in Accounts : d.user[a] \in {0} \cup Charids
    BY DEF Databases
  <2> QED
    BY <1>1, <1>2, <1>3, <2>1 DEF OwnInv, BoundOK
<1>5. PlayersOwn(t.fi, t.p, e)
  <2>1. \A j \in LiveIn(t.fi) : t.p[j].charid \in {0} \cup Charids
    BY DEF Worlds, Players, LiveIn
  <2> QED
    BY <1>1, <1>2, <1>3, <2>1 DEF OwnInv, PlayersOwn
<1>6. ASSUME NEW k \in DOMAIN w, w[k].ok
      PROVE  ReplyOwn(t.fi, t.p, e, w, k)
  <2>1. ReplyOwn(t.fi, t.p, d, w, k)
    BY <1>2, <1>6 DEF OwnInv, RepliesOwn
  <2>2. w[k].type = "QUERY" => QueryOK(e, w[k])
    BY <1>1, <2>1 DEF ReplyOwn, QueryOK
  <2>3. w[k].type = "CHARID" => CharidOK(t.fi, t.p, e, w, k)
    BY <1>1, <1>3, <2>1 DEF ReplyOwn, CharidOK, Unused
  <2>4. w[k].type = "CREATE" => CreateOK(t.fi, t.p, e, w, k)
    BY <1>1, <1>3, <2>1 DEF ReplyOwn, CreateOK
  <2>5. w[k].type \in {"BINDCHARID", "LOAD"} => HavingOK(t.fi, t.p, e, w[k])
    BY <1>1, <1>3, <2>1 DEF ReplyOwn, HavingOK
  <2> QED
    BY <2>2, <2>3, <2>4, <2>5 DEF ReplyOwn
<1>7. DataInv(t, e, w, s, m)
  BY <1>1, <1>2 DEF DataInv
<1>8. NameInv(t, e, w, m)
  BY <1>1, <1>2 DEF NameInv, CharNames, LoadedNames, PlayerName
<1> QED
  BY <1>1, <1>4, <1>5, <1>6, <1>7, <1>8 DEF OwnInv, RepliesOwn

\* PDB_CREATE: the character is the player's and not yet bound, the name is reserved
\* for it, and the values are its own or it counts as spoilt.
Creates(t, d, w, s, m, i, c) ==
    /\ t.p[i].charid = c /\ c # 0 /\ t.p[i].status = "CREATECHAR" /\ t.p[i].name # ""
    /\ \A a \in Accounts : d.user[a] # c
    /\ "stale" \notin m /\ c \notin s => t.p[i].data = c
    /\ m \cap {"raced", "stale"} = {} =>
         /\ t.p[i].name \in d.names /\ \A b \in Charids : d.char[b].name # t.p[i].name
         /\ \A j \in LiveIn(t.fi) \ {i} : t.p[j].name = t.p[i].name => ~ Reserves(t, w, j)

LEMMA CreatedChar ==
    ASSUME NEW t \in Worlds, NEW d \in Databases, NEW e, NEW w, NEW s, NEW m, NEW i \in LiveIn(t.fi), NEW c,
           SlotsOK(t.fi, t.p), Quiet(t, w, m, i), Accords(t, d, w, s, m), Creates(t, d, w, s, m, i, c),
           e = [d EXCEPT !.char[c] = [data |-> t.p[i].data, name |-> t.p[i].name]]
    PROVE  e \in Databases /\ OwnInv(t, e, w) /\ DataInv(t, e, w, s, m) /\ NameInv(t, e, w, m)
<1> DEFINE n == t.p[i].name
           r == [data |-> t.p[i].data, name |-> n]
<1>1. /\ t.p[i] \in Players /\ c \in Charids /\ t.p[i].charid = c /\ n # "" /\ t.p[i].status = "CREATECHAR"
      /\ \A a \in Accounts : d.user[a] # c
  BY DEF Creates, Worlds, LiveIn, Players
<1>2. r \in Records /\ n # NoName /\ r.name = n /\ r.data = t.p[i].data
  <2>1. NoName # OldName /\ NoName \notin Names /\ NoName # ""
    BY WorldAssumption DEF NoName, OldName
  <2>2. n \in Names \cup {"", OldName} /\ t.p[i].data \in {0} \cup Charids
    BY <1>1 DEF Players
  <2> QED
    BY <1>1, <2>1, <2>2 DEF Records
<1> HIDE DEF r
<1>3. /\ e \in Databases /\ e.user = d.user /\ e.lastid = d.lastid /\ e.names = d.names
      /\ e.char[c] = r /\ \A b \in {0} \cup Charids : b # c => e.char[b] = d.char[b]
  <2>1. d.char \in [{0} \cup Charids -> Records]
    BY DEF Databases
  <2>2. [d.char EXCEPT ![c] = r] \in [{0} \cup Charids -> Records]
    BY <1>1, <1>2, <2>1
  <2>3. e.char = [d.char EXCEPT ![c] = r]
    BY DEF Databases, r
  <2>4. e \in Databases /\ e.user = d.user /\ e.lastid = d.lastid /\ e.names = d.names
    BY <2>2 DEF Databases, r
  <2>5. \A b \in {0} \cup Charids : e.char[b] = IF b = c THEN r ELSE d.char[b]
    BY <2>1, <2>3
  <2> QED
    BY <1>1, <2>4, <2>5
<1>4. OwnInv(t, d, w) /\ DataInv(t, d, w, s, m) /\ NameInv(t, d, w, m)
  BY DEF Accords
<1>5. BoundOK(d) /\ PlayersOwn(t.fi, t.p, d) /\ \A k \in DOMAIN w : w[k].ok => ReplyOwn(t.fi, t.p, d, w, k)
  BY <1>4 DEF OwnInv, RepliesOwn
<1>6. \A b \in {0} \cup Charids : d.char[b].name # NoName => e.char[b].name # NoName
  BY <1>2, <1>3
<1>7. BoundOK(e)
  <2>1. \A a \in Accounts : d.user[a] \in {0} \cup Charids
    BY DEF Databases
  <2>2. c <= d.lastid
    BY <1>1, <1>5 DEF PlayersOwn
  <2>3. \A b \in Charids : e.char[b].name # NoName => b <= e.lastid
    BY <1>3, <1>5, <2>2 DEF BoundOK
  <2> QED
    BY <1>3, <1>5, <1>6, <2>1, <2>3 DEF BoundOK
<1>8. PlayersOwn(t.fi, t.p, e)
  BY <1>3, <1>5 DEF PlayersOwn
<1>9. ASSUME NEW k \in DOMAIN w, w[k].ok
      PROVE  ReplyOwn(t.fi, t.p, e, w, k)
  <2>1. ReplyOwn(t.fi, t.p, d, w, k)
    BY <1>5, <1>9
  <2>2. w[k].type = "QUERY" => QueryOK(e, w[k])
    BY <1>3, <2>1 DEF ReplyOwn, QueryOK
  <2>3. w[k].type = "CHARID" => CharidOK(t.fi, t.p, e, w, k)
    <3> SUFFICES ASSUME w[k].type = "CHARID" PROVE CharidOK(t.fi, t.p, e, w, k)
      OBVIOUS
    <3>1. CharidOK(t.fi, t.p, d, w, k)
      BY <2>1 DEF ReplyOwn
    <3>2. w[k].value \in Charids /\ w[k].value # c
      BY <1>1, <3>1 DEF CharidOK, Unused
    <3> QED
      BY <1>3, <3>1, <3>2 DEF CharidOK, Unused
  <2>4. w[k].type = "CREATE" => CreateOK(t.fi, t.p, e, w, k)
    BY <1>3, <1>6, <2>1 DEF ReplyOwn, CreateOK
  <2>5. w[k].type \in {"BINDCHARID", "LOAD"} => HavingOK(t.fi, t.p, e, w[k])
    BY <1>3, <2>1 DEF ReplyOwn, HavingOK
  <2> QED
    BY <2>2, <2>3, <2>4, <2>5 DEF ReplyOwn
<1>10. DataInv(t, e, w, s, m)
  <2>1. "stale" \notin m => \A b \in Charids \ s : e.char[b].name # NoName => e.char[b].data = b
    BY <1>2, <1>3, <1>4, ZenonT(40) DEF DataInv, Creates
  <2> QED
    BY <1>4, <2>1 DEF DataInv
<1>11. NameInv(t, e, w, m)
  <2> SUFFICES ASSUME m \cap {"raced", "stale"} = {} PROVE NameInv(t, e, w, m)
    BY DEF NameInv
  <2>1. /\ CharNames(d) /\ LoadedNames(d, w) /\ NoTwoReserve(t, w)
        /\ \A j \in LiveIn(t.fi) : PlayerName(t, d, w, j)
    BY <1>4 DEF NameInv
  <2>2. /\ n \in d.names /\ \A b \in Charids : d.char[b].name # n
        /\ \A j \in LiveIn(t.fi) \ {i} : t.p[j].name = n => ~ Reserves(t, w, j)
    BY DEF Creates
  <2>3. CharNames(e)
    BY <1>2, <1>3, <2>1, <2>2 DEF CharNames
  <2>4. LoadedNames(e, w)
    <3> SUFFICES ASSUME NEW k \in DOMAIN w, w[k].ok, w[k].type = "LOAD"
                 PROVE  w[k].record.name = e.char[w[k].key].name
      BY DEF LoadedNames
    <3>1. HavingOK(t.fi, t.p, d, w[k])
      BY <1>5 DEF ReplyOwn
    <3>2. t.p[i].accid \in Accounts
      BY DEF SlotsOK
    <3>3. w[k].key # c /\ w[k].key \in Charids
      BY <1>1, <3>1, <3>2 DEF HavingOK
    <3> QED
      BY <1>3, <2>1, <3>3 DEF LoadedNames
  <2>5. ~ Reserves(t, w, i) /\ ~ MayReserve(t, w, i) /\ ~ Created(t, w, i)
    BY <1>1 DEF Quiet, Reserves, MayReserve, Created
  <2>6. \A j \in LiveIn(t.fi) : PlayerName(t, e, w, j)
    <3> TAKE j \in LiveIn(t.fi)
    <3>1. PlayerName(t, d, w, j)
      BY <2>1
    <3>2. CASE j = i
      BY <2>5, <3>2 DEF PlayerName
    <3>3. CASE j # i
      <4>1. t.p[j].charid \in {0} \cup Charids /\ t.p[j].charid # c
        <5>1. t.p[j].charid \in {0} \cup Charids
          BY DEF Worlds, Players, LiveIn
        <5>2. c # 0
          BY DEF Creates
        <5>3. t.p[i].charid = t.p[j].charid => t.p[i].charid = 0
          BY <3>3, Apart
        <5> QED
          BY <1>1, <5>1, <5>2, <5>3
      <4>2. Reserves(t, w, j) => \A b \in Charids : e.char[b].name # t.p[j].name
        BY <1>2, <1>3, <2>2, <3>1, <3>3 DEF PlayerName
      <4> QED
        BY <1>3, <3>1, <4>1, <4>2 DEF PlayerName
    <3> QED
      BY <3>2, <3>3
  <2> QED
    BY <2>1, <2>3, <2>4, <2>6 DEF NameInv
<1> QED
  BY <1>3, <1>7, <1>8, <1>9, <1>10, <1>11 DEF OwnInv, RepliesOwn

\* PDB_BINDCHARID: the character is there and nobody's, no reply on its way says so any
\* more, and none says anything of the account.
Binds(t, d, w, i, a, c) ==
    /\ t.p[i].accid = a /\ t.p[i].charid = c /\ c # 0 /\ t.p[i].status = "BINDCHARID"
    /\ d.char[c].name # NoName /\ \A b \in Accounts : d.user[b] # c
    /\ \A n \in DOMAIN w : w[n].ok =>
         /\ w[n].type = "CREATE" => w[n].key # c
         /\ w[n].type = "QUERY" => w[n].key # a

LEMMA BoundChar ==
    ASSUME NEW t \in Worlds, NEW d \in Databases, NEW e, NEW w, NEW s, NEW m, NEW i \in LiveIn(t.fi), NEW a, NEW c,
           SlotsOK(t.fi, t.p), Accords(t, d, w, s, m), Binds(t, d, w, i, a, c), e = [d EXCEPT !.user[a] = c]
    PROVE  e \in Databases /\ OwnInv(t, e, w) /\ DataInv(t, e, w, s, m) /\ NameInv(t, e, w, m)
<1>1. /\ t.p[i] \in Players /\ a \in Accounts /\ c \in Charids /\ c # 0
      /\ t.p[i].accid = a /\ t.p[i].charid = c /\ t.p[i].status = "BINDCHARID"
      /\ d.char[c].name # NoName /\ \A b \in Accounts : d.user[b] # c
  BY DEF Binds, Worlds, LiveIn, Players, SlotsOK
<1>2. /\ e \in Databases /\ e.char = d.char /\ e.lastid = d.lastid /\ e.names = d.names
      /\ \A b \in Accounts : e.user[b] = IF b = a THEN c ELSE d.user[b]
  <2>1. d.user \in [Accounts -> {0} \cup Charids]
    BY DEF Databases
  <2>2. [d.user EXCEPT ![a] = c] \in [Accounts -> {0} \cup Charids]
    BY <1>1, <2>1
  <2>3. e.user = [d.user EXCEPT ![a] = c]
    BY DEF Databases
  <2>4. e \in Databases /\ e.char = d.char /\ e.lastid = d.lastid /\ e.names = d.names
    BY <2>2 DEF Databases
  <2>5. \A b \in Accounts : e.user[b] = IF b = a THEN c ELSE d.user[b]
    BY <2>1, <2>3
  <2> QED
    BY <2>4, <2>5
<1>3. OwnInv(t, d, w) /\ DataInv(t, d, w, s, m) /\ NameInv(t, d, w, m)
  BY DEF Accords
<1>4. BoundOK(d) /\ PlayersOwn(t.fi, t.p, d) /\ \A k \in DOMAIN w : w[k].ok => ReplyOwn(t.fi, t.p, d, w, k)
  BY <1>3 DEF OwnInv, RepliesOwn
<1>5. c <= d.lastid
  BY <1>1, <1>4 DEF PlayersOwn
<1>6. \A j \in LiveIn(t.fi) : j # i => t.p[j].accid # a /\ t.p[j].charid # c
  <2> SUFFICES ASSUME NEW j \in LiveIn(t.fi), j # i PROVE t.p[j].accid # a /\ t.p[j].charid # c
    OBVIOUS
  <2>1. t.p[i].accid # t.p[j].accid /\ (t.p[i].charid = t.p[j].charid => t.p[i].charid = 0)
    BY Apart
  <2> QED
    BY <1>1, <2>1
<1>7. \A j \in LiveIn(t.fi) : t.p[j].accid \in Accounts
  BY DEF SlotsOK
<1>8. BoundOK(e)
  <2>1. ASSUME NEW b \in Accounts, e.user[b] # 0
        PROVE  /\ e.user[b] <= e.lastid /\ e.char[e.user[b]].name # NoName
               /\ \A x \in Accounts : e.user[x] = e.user[b] => b = x
    <3>1. CASE b = a
      BY <1>1, <1>2, <1>5, <3>1
    <3>2. CASE b # a
      <4>1. /\ d.user[b] <= d.lastid /\ d.char[d.user[b]].name # NoName
            /\ \A x \in Accounts : d.user[x] = d.user[b] => b = x
        BY <1>2, <1>4, <2>1, <3>2 DEF BoundOK
      <4> QED
        BY <1>1, <1>2, <3>2, <4>1
    <3> QED
      BY <3>1, <3>2
  <2>2. \A b \in Charids : e.char[b].name # NoName => b <= e.lastid
    BY <1>2, <1>4 DEF BoundOK
  <2> QED
    BY <2>1, <2>2 DEF BoundOK
<1>9. PlayersOwn(t.fi, t.p, e)
  <2> SUFFICES ASSUME NEW j \in LiveIn(t.fi)
               PROVE  /\ t.p[j].charid <= e.lastid
                      /\ t.p[j].charid # 0 => \A b \in Accounts : e.user[b] = t.p[j].charid => b = t.p[j].accid
                      /\ t.p[j].status = "GAME" => t.p[j].charid # 0 /\ e.user[t.p[j].accid] = t.p[j].charid
    BY DEF PlayersOwn
  <2>1. /\ t.p[j].charid <= d.lastid
        /\ t.p[j].charid # 0 => \A b \in Accounts : d.user[b] = t.p[j].charid => b = t.p[j].accid
        /\ t.p[j].status = "GAME" => t.p[j].charid # 0 /\ d.user[t.p[j].accid] = t.p[j].charid
    BY <1>4 DEF PlayersOwn
  <2>2. CASE j = i
    BY <1>1, <1>2, <2>1, <2>2
  <2>3. CASE j # i
    BY <1>2, <1>6, <1>7, <2>1, <2>3
  <2> QED
    BY <2>2, <2>3
<1>10. ASSUME NEW k \in DOMAIN w, w[k].ok
       PROVE  ReplyOwn(t.fi, t.p, e, w, k)
  <2>1. ReplyOwn(t.fi, t.p, d, w, k)
    BY <1>4, <1>10
  <2>2. w[k].type = "QUERY" => QueryOK(e, w[k])
    BY <1>2, <1>10, <2>1 DEF ReplyOwn, QueryOK, Binds
  <2>3. w[k].type = "CHARID" => CharidOK(t.fi, t.p, e, w, k)
    <3> SUFFICES ASSUME w[k].type = "CHARID" PROVE CharidOK(t.fi, t.p, e, w, k)
      OBVIOUS
    <3>1. CharidOK(t.fi, t.p, d, w, k)
      BY <2>1 DEF ReplyOwn
    <3>2. w[k].value # c
      BY <1>1, <3>1 DEF CharidOK, Unused
    <3> QED
      BY <1>2, <3>1, <3>2 DEF CharidOK, Unused
  <2>4. w[k].type = "CREATE" => CreateOK(t.fi, t.p, e, w, k)
    <3> SUFFICES ASSUME w[k].type = "CREATE" PROVE CreateOK(t.fi, t.p, e, w, k)
      OBVIOUS
    <3>1. CreateOK(t.fi, t.p, d, w, k)
      BY <2>1 DEF ReplyOwn
    <3>2. w[k].key # c
      BY <1>10 DEF Binds
    <3> QED
      BY <1>2, <3>1, <3>2 DEF CreateOK
  <2>5. w[k].type \in {"BINDCHARID", "LOAD"} => HavingOK(t.fi, t.p, e, w[k])
    <3> SUFFICES ASSUME w[k].type \in {"BINDCHARID", "LOAD"} PROVE HavingOK(t.fi, t.p, e, w[k])
      OBVIOUS
    <3>1. HavingOK(t.fi, t.p, d, w[k])
      BY <2>1 DEF ReplyOwn
    <3>2. \A j \in LiveIn(t.fi) : t.p[j].charid = w[k].key => e.user[t.p[j].accid] = w[k].key
      BY <1>1, <1>2, <1>6, <1>7, <3>1 DEF HavingOK
    <3> QED
      BY <1>2, <3>1, <3>2 DEF HavingOK
  <2> QED
    BY <2>2, <2>3, <2>4, <2>5 DEF ReplyOwn
<1>11. DataInv(t, e, w, s, m)
  BY <1>2, <1>3 DEF DataInv
<1>12. NameInv(t, e, w, m)
  BY <1>2, <1>3 DEF NameInv, CharNames, LoadedNames, PlayerName
<1> QED
  BY <1>2, <1>8, <1>9, <1>10, <1>11, <1>12 DEF OwnInv, RepliesOwn

\* PDB_SAVE: of values that are the character's, or the character counts as spoilt.
LEMMA SavedChar ==
    ASSUME NEW t \in Worlds, NEW d \in Databases, NEW e, NEW w, NEW s, NEW m, Accords(t, d, w, s, m),
           NEW c \in {0} \cup Charids, NEW x \in {0} \cup Charids, e = [d EXCEPT !.char[c].data = x],
           "stale" \notin m /\ c # 0 /\ c \notin s => x = c
    PROVE  e \in Databases /\ OwnInv(t, e, w) /\ DataInv(t, e, w, s, m) /\ NameInv(t, e, w, m)
<1> DEFINE r == [d.char[c] EXCEPT !.data = x]
<1>1. r \in Records /\ r.name = d.char[c].name /\ r.data = x
  <2>1. d.char[c] \in Records
    BY DEF Databases
  <2> QED
    BY <2>1 DEF Records
<1>2. /\ e \in Databases /\ e.user = d.user /\ e.lastid = d.lastid /\ e.names = d.names
      /\ \A b \in {0} \cup Charids : /\ e.char[b].name = d.char[b].name
                                     /\ e.char[b].data = IF b = c THEN x ELSE d.char[b].data
  <2>1. d.char \in [{0} \cup Charids -> Records]
    BY DEF Databases
  <2>2. e = [d EXCEPT !.char = [d.char EXCEPT ![c] = r]]
    BY DEF Databases
  <2> HIDE DEF r
  <2>3. [d.char EXCEPT ![c] = r] \in [{0} \cup Charids -> Records]
    BY <1>1, <2>1
  <2>4. e.char = [d.char EXCEPT ![c] = r]
    BY <2>2 DEF Databases
  <2>5. e \in Databases /\ e.user = d.user /\ e.lastid = d.lastid /\ e.names = d.names
    BY <2>2, <2>3 DEF Databases
  <2>6. \A b \in {0} \cup Charids : e.char[b] = IF b = c THEN r ELSE d.char[b]
    BY <2>1, <2>4
  <2> QED
    BY <1>1, <2>5, <2>6
<1> HIDE DEF r
<1>3. OwnInv(t, d, w) /\ DataInv(t, d, w, s, m) /\ NameInv(t, d, w, m)
  BY DEF Accords
<1>4. BoundOK(d) /\ PlayersOwn(t.fi, t.p, d) /\ \A k \in DOMAIN w : w[k].ok => ReplyOwn(t.fi, t.p, d, w, k)
  BY <1>3 DEF OwnInv, RepliesOwn
<1>5. BoundOK(e) /\ PlayersOwn(t.fi, t.p, e)
  <2>1. \A a \in Accounts : d.user[a] \in {0} \cup Charids
    BY DEF Databases
  <2> QED
    BY <1>2, <1>4, <2>1 DEF BoundOK, PlayersOwn
<1>6. ASSUME NEW k \in DOMAIN w, w[k].ok
      PROVE  ReplyOwn(t.fi, t.p, e, w, k)
  <2>1. ReplyOwn(t.fi, t.p, d, w, k)
    BY <1>4, <1>6
  <2>2. w[k].type = "QUERY" => QueryOK(e, w[k])
    BY <1>2, <2>1 DEF ReplyOwn, QueryOK
  <2>3. w[k].type = "CHARID" => CharidOK(t.fi, t.p, e, w, k)
    BY <1>2, <2>1 DEF ReplyOwn, CharidOK, Unused
  <2>4. w[k].type = "CREATE" => CreateOK(t.fi, t.p, e, w, k)
    BY <1>2, <2>1 DEF ReplyOwn, CreateOK
  <2>5. w[k].type \in {"BINDCHARID", "LOAD"} => HavingOK(t.fi, t.p, e, w[k])
    BY <1>2, <2>1 DEF ReplyOwn, HavingOK
  <2> QED
    BY <2>2, <2>3, <2>4, <2>5 DEF ReplyOwn
<1>7. 0 \notin Charids
  BY DEF Charids
<1>8. DataInv(t, e, w, s, m)
  <2>1. "stale" \notin m => \A b \in Charids \ s : e.char[b].name # NoName => e.char[b].data = b
    BY <1>2, <1>3, <1>7 DEF DataInv
  <2> QED
    BY <1>3, <2>1 DEF DataInv
<1>9. NameInv(t, e, w, m)
  <2> SUFFICES ASSUME m \cap {"raced", "stale"} = {} PROVE NameInv(t, e, w, m)
    BY DEF NameInv
  <2>1. /\ CharNames(d) /\ LoadedNames(d, w) /\ NoTwoReserve(t, w)
        /\ \A j \in LiveIn(t.fi) : PlayerName(t, d, w, j)
    BY <1>3 DEF NameInv
  <2>2. CharNames(e)
    BY <1>2, <2>1 DEF CharNames
  <2>3. LoadedNames(e, w)
    <3>1. \A k \in DOMAIN w : w[k].ok /\ w[k].type = "LOAD" => w[k].key \in Charids
      BY <1>4 DEF ReplyOwn, HavingOK
    <3> QED
      BY <1>2, <2>1, <3>1 DEF LoadedNames
  <2>4. \A j \in LiveIn(t.fi) : t.p[j].charid \in {0} \cup Charids
    BY DEF Worlds, Players, LiveIn
  <2>5. \A j \in LiveIn(t.fi) : PlayerName(t, e, w, j)
    BY <1>2, <2>1, <2>4 DEF PlayerName
  <2> QED
    BY <2>1, <2>2, <2>3, <2>5 DEF NameInv
<1> QED
  BY <1>2, <1>5, <1>6, <1>8, <1>9 DEF OwnInv, RepliesOwn

-----------------------------------------------------------------------------
\* A request is sent: executed or not, answered or not.

LEMMA ReplyIs ==
    ASSUME NEW w \in States, NEW i \in Ids, NEW type \in PdbTypes \ {"SAVE"}, NEW ok \in BOOLEAN,
           w.ph.p[i].accid \in Accounts, ok => ~ Refuses(w.db, w.ph.p[i], type)
    PROVE  LET r == Reply(w.db, w.ph.p[i], type, ok) IN
           /\ r \in Replies /\ ~ r.old /\ r.conn = w.ph.p[i].conn /\ r.key = Key(w.ph.p[i], type)
           /\ r.type = type /\ r.ok = ok
           /\ ok => r.value = Value(w.db, w.ph.p[i], type)
           /\ ok /\ type = "LOAD" => r.record = w.db.char[w.ph.p[i].charid]
<1> DEFINE p == w.ph.p[i]
           d == w.db
           k == Key(p, type)
           n == IF ok THEN Value(d, p, type) ELSE 0
           c == IF ok /\ type = "LOAD" THEN d.char[p.charid] ELSE NoRecord
           r == Reply(d, p, type, ok)
<1>1. p \in Players /\ d \in Databases
  BY DEF States, Worlds
<1>2. k \in Accounts \cup {0} \cup Charids
  BY <1>1 DEF Key, Players
<1>3. n \in 0 .. MaxChar
  <2>1. MaxChar \in Nat \ {0} /\ d.lastid \in 0 .. MaxChar
    BY <1>1, WorldAssumption DEF Databases
  <2>2. 0 \in 0 .. MaxChar /\ 1 \in 0 .. MaxChar
    BY <2>1
  <2>3. d.user[p.accid] \in 0 .. MaxChar
    <3>1. d.user[p.accid] \in {0} \cup Charids
      BY <1>1 DEF Databases
    <3> QED
      BY <2>1, <3>1 DEF Charids
  <2>4. ok /\ type = "CHARID" => d.lastid + 1 \in 0 .. MaxChar
    BY <2>1 DEF Refuses
  <2> QED
    BY <2>2, <2>3, <2>4 DEF Value
<1>4. c \in Records
  <2>1. NoRecord \in Records
    BY DEF NoRecord, Records
  <2>2. p.charid \in {0} \cup Charids
    BY <1>1 DEF Players
  <2>3. d.char \in [{0} \cup Charids -> Records]
    BY <1>1 DEF Databases
  <2> QED
    BY <2>1, <2>2, <2>3
<1>5. r = [type |-> type, conn |-> p.conn, key |-> k, ok |-> ok, old |-> FALSE, value |-> n, record |-> c]
  BY DEF Reply
<1>6. p.conn \in Conns \cup {0}
  BY <1>1 DEF Players
<1> HIDE DEF k, n, c, r
<1>7. /\ r \in Replies /\ ~ r.old /\ r.conn = p.conn /\ r.key = k /\ r.type = type /\ r.ok = ok
      /\ r.value = n /\ r.record = c
  BY <1>2, <1>3, <1>4, <1>5, <1>6 DEF Replies
<1> QED
  BY <1>7 DEF k, n, c, r

\* A request the i-th player's status calls for, and what holds when it is executed.
MayAsk(w, i, type) ==
    LET p == w.ph.p[i]
        e == Executed(w.db, p, type)
        r == Reply(w.db, p, type, TRUE)
    IN /\ Expects(p.status, type)
       /\ ~ Refuses(w.db, p, type) =>
            /\ e \in Databases /\ OwnInv(w.ph, e, w.wire)
            /\ DataInv(w.ph, e, w.wire, w.spoilt, w.mishaps) /\ NameInv(w.ph, e, w.wire, w.mishaps)
            /\ NewOwn(w.ph, e, w.wire, r, i)
            /\ "stale" \notin w.mishaps =>
                 (type = "LOAD" /\ r.key \notin w.spoilt /\ r.record.name # NoName => r.record.data = r.key)
            /\ w.mishaps \cap {"raced", "stale"} = {} => NewName(w.ph, e, w.wire, r, i)

LEMMA SentKeeps ==
    ASSUME NEW w, NEW i \in LiveIn(w.ph.fi), NEW type \in PdbTypes \ {"SAVE"},
           NEW fate \in {"ok"} \cup AllFaults, Holds(w, {i}),
           Quiet(w.ph, w.wire, w.mishaps, i), MayAsk(w, i, type)
    PROVE  Holds(Sent(w, i, type, fate), {})
<1> DEFINE p == w.ph.p[i]
           e == Executed(w.db, p, type)
           done == fate \in {"ok", "noreply"} /\ ~ Refuses(w.db, p, type)
           answered == fate \in {"ok", "error"}
           d == IF done THEN e ELSE w.db
           x == [w EXCEPT !.db = d]
           r == Reply(w.db, p, type, done)
           v == Sent(w, i, type, fate)
<1>1. /\ w \in States /\ i \in Ids /\ p.accid \in Accounts /\ Inv(w.ph, w.db, w.wire, w.spoilt, w.mishaps, {i})
      /\ OwnInv(w.ph, w.db, w.wire) /\ DataInv(w.ph, w.db, w.wire, w.spoilt, w.mishaps)
      /\ NameInv(w.ph, w.db, w.wire, w.mishaps)
  BY DEF Holds, Inv, Accords, TableInv, SlotsOK, LiveIn
<1>2. done \in BOOLEAN /\ (done => ~ Refuses(w.db, p, type))
  OBVIOUS
<1>3. /\ r \in Replies /\ ~ r.old /\ r.conn = p.conn /\ r.key = Key(p, type) /\ r.type = type /\ r.ok = done
  <2> HIDE DEF done
  <2> QED
    BY <1>1, <1>2, ReplyIs
<1>4. v = [w EXCEPT !.db = d, !.wire = IF answered THEN Append(@, r) ELSE @,
                    !.mishaps = IF answered THEN @ ELSE @ \cup {"lost"}]
  BY DEF Sent
<1>5. /\ Expects(p.status, type)
      /\ done =>
           /\ e \in Databases /\ OwnInv(w.ph, e, w.wire)
           /\ DataInv(w.ph, e, w.wire, w.spoilt, w.mishaps) /\ NameInv(w.ph, e, w.wire, w.mishaps)
           /\ r = Reply(w.db, p, type, TRUE)
           /\ NewOwn(w.ph, e, w.wire, r, i)
           /\ "stale" \notin w.mishaps =>
                (type = "LOAD" /\ r.key \notin w.spoilt /\ r.record.name # NoName => r.record.data = r.key)
           /\ w.mishaps \cap {"raced", "stale"} = {} => NewName(w.ph, e, w.wire, r, i)
  <2>1. done => r = Reply(w.db, p, type, TRUE)
    OBVIOUS
  <2> QED
    BY <2>1 DEF MayAsk
<1> HIDE DEF p, e, done, r, v
<1>6. /\ d \in Databases /\ OwnInv(w.ph, d, w.wire)
      /\ DataInv(w.ph, d, w.wire, w.spoilt, w.mishaps) /\ NameInv(w.ph, d, w.wire, w.mishaps)
  BY <1>1, <1>5 DEF States
<1> HIDE DEF d
<1>7. Holds(x, {i})
  BY <1>6, ExecKeeps
<1>8. /\ x \in States /\ x.ph = w.ph /\ x.db = d /\ x.wire = w.wire /\ x.spoilt = w.spoilt /\ x.mishaps = w.mishaps
  BY <1>1, <1>6 DEF States
<1>9. CASE answered
  <2>1. v = [x EXCEPT !.wire = Append(@, r)]
    BY <1>1, <1>4, <1>9 DEF States
  <2> HIDE DEF x
  <2>2. NewOwn(w.ph, d, w.wire, r, i)
    BY <1>3, <1>5 DEF NewOwn, d
  <2>3. "stale" \notin w.mishaps =>
          (r.ok /\ r.type = "LOAD" /\ r.key \notin w.spoilt /\ r.record.name # NoName => r.record.data = r.key)
    BY <1>3, <1>5
  <2>4. w.mishaps \cap {"raced", "stale"} = {} => NewName(w.ph, d, w.wire, r, i)
    BY <1>3, <1>5 DEF NewName, d
  <2>5. MayAnswer(x, r, i)
    BY <1>3, <1>5, <1>8, <2>2, <2>3, <2>4 DEF MayAnswer, p
  <2>6. i \in LiveIn(x.ph.fi) /\ Quiet(x.ph, x.wire, x.mishaps, i)
    BY <1>8
  <2> QED
    BY <1>7, <2>1, <2>5, <2>6, AnswerKeeps DEF v
<1>10. CASE ~ answered
  <2>1. v = [x EXCEPT !.mishaps = @ \cup {"lost"}]
    BY <1>1, <1>4, <1>10 DEF States
  <2>2. /\ v \in States /\ v.ph = x.ph /\ v.db = x.db /\ v.wire = x.wire /\ v.spoilt = x.spoilt
        /\ v.mishaps = x.mishaps \cup {"lost"}
    BY <1>8, <2>1 DEF States
  <2>3. Inv(x.ph, x.db, x.wire, x.spoilt, x.mishaps, {i})
    BY <1>7 DEF Holds
  <2>4. Inv(x.ph, x.db, x.wire, x.spoilt, x.mishaps \cup {"lost"}, {})
    BY <2>3, LostKeeps
  <2> QED
    BY <2>2, <2>4 DEF Holds, v
<1> QED
  BY <1>9, <1>10

\* What asking needs, request by request.  Those that only read leave the database as it is.
LEMMA MayRead ==
    ASSUME NEW w, NEW i \in LiveIn(w.ph.fi), NEW type \in {"QUERY", "CHECKNAME", "LOAD"}, Holds(w, {i}),
           NEW r, r = Reply(w.db, w.ph.p[i], type, TRUE),
           Expects(w.ph.p[i].status, type), NewOwn(w.ph, w.db, w.wire, r, i),
           "stale" \notin w.mishaps =>
             (type = "LOAD" /\ r.key \notin w.spoilt /\ r.record.name # NoName => r.record.data = r.key),
           w.mishaps \cap {"raced", "stale"} = {} => NewName(w.ph, w.db, w.wire, r, i)
    PROVE  MayAsk(w, i, type)
<1>1. Executed(w.db, w.ph.p[i], type) = w.db
  BY DEF Executed
<1>2. /\ w.db \in Databases /\ OwnInv(w.ph, w.db, w.wire)
      /\ DataInv(w.ph, w.db, w.wire, w.spoilt, w.mishaps) /\ NameInv(w.ph, w.db, w.wire, w.mishaps)
  BY DEF Holds, States, Inv, Accords
<1> QED
  BY <1>1, <1>2 DEF MayAsk

\* The facts of a live player and of a reply to it.
LEMMA AskedIs ==
    ASSUME NEW w, NEW i \in LiveIn(w.ph.fi), NEW type \in PdbTypes \ {"SAVE"}, Holds(w, {i}),
           ~ Refuses(w.db, w.ph.p[i], type)
    PROVE  LET p == w.ph.p[i]
               r == Reply(w.db, p, type, TRUE)
           IN /\ r.type = type /\ r.ok /\ r.key = Key(p, type) /\ r.value = Value(w.db, p, type)
              /\ p \in Players /\ p.accid \in Accounts /\ p.charid <= w.db.lastid
              /\ w \in States /\ w.ph \in Worlds /\ w.db \in Databases /\ w.wire \in Seq(Replies)
              /\ SlotsOK(w.ph.fi, w.ph.p) /\ OwnInv(w.ph, w.db, w.wire)
              /\ Accords(w.ph, w.db, w.wire, w.spoilt, w.mishaps)
<1>1. /\ w \in States /\ i \in Ids /\ w.ph.p[i].accid \in Accounts /\ w.ph.p[i].charid <= w.db.lastid
      /\ SlotsOK(w.ph.fi, w.ph.p) /\ OwnInv(w.ph, w.db, w.wire)
      /\ Accords(w.ph, w.db, w.wire, w.spoilt, w.mishaps)
  BY DEF Holds, Inv, Accords, TableInv, SlotsOK, LiveIn, OwnInv, PlayersOwn
<1>2. w.ph \in Worlds /\ w.db \in Databases /\ w.wire \in Seq(Replies) /\ w.ph.p[i] \in Players
  BY <1>1 DEF States, Worlds
<1>3. LET r == Reply(w.db, w.ph.p[i], type, TRUE) IN
        /\ r.type = type /\ r.ok = TRUE /\ r.key = Key(w.ph.p[i], type)
        /\ r.value = Value(w.db, w.ph.p[i], type)
  BY <1>1, ReplyIs, ZenonT(40)
<1> QED
  BY <1>1, <1>2, <1>3

LEMMA MayQuery ==
    ASSUME NEW w, NEW i \in LiveIn(w.ph.fi), Holds(w, {i}),
           w.ph.p[i].status = "FREE", w.ph.p[i].charid = 0
    PROVE  MayAsk(w, i, "QUERY")
<1> DEFINE r == Reply(w.db, w.ph.p[i], "QUERY", TRUE)
<1>1. "QUERY" \in PdbTypes \ {"SAVE"} /\ ~ Refuses(w.db, w.ph.p[i], "QUERY")
  BY DEF PdbTypes, Refuses
<1>2. /\ r.type = "QUERY" /\ r.ok /\ r.key = Key(w.ph.p[i], "QUERY") /\ r.value = Value(w.db, w.ph.p[i], "QUERY")
      /\ w.ph.p[i].accid \in Accounts
  BY <1>1, AskedIs, ZenonT(40)
<1> HIDE DEF r
<1>3. r.key = w.ph.p[i].accid /\ r.value = w.db.user[w.ph.p[i].accid]
  BY <1>2 DEF Key, Value
<1>4. NewOwn(w.ph, w.db, w.wire, r, i)
  BY <1>2, <1>3 DEF NewOwn, QueryOK
<1>5. NewName(w.ph, w.db, w.wire, r, i)
  BY <1>2 DEF NewName
<1>6. Expects(w.ph.p[i].status, "QUERY")
  BY DEF Expects, Awaits
<1> QED
  BY <1>4, <1>5, <1>6, MayRead DEF r

LEMMA MayCheckname ==
    ASSUME NEW w, NEW i \in LiveIn(w.ph.fi), Holds(w, {i}), w.ph.p[i].status = "WAITCREATECHAR",
           w.mishaps \cap {"raced", "stale"} = {} =>
             \A j \in LiveIn(w.ph.fi) \ {i} : w.ph.p[j].name = w.ph.p[i].name => ~ MayReserve(w.ph, w.wire, j)
    PROVE  MayAsk(w, i, "CHECKNAME")
<1> DEFINE r == Reply(w.db, w.ph.p[i], "CHECKNAME", TRUE)
<1>1. "CHECKNAME" \in PdbTypes \ {"SAVE"} /\ ~ Refuses(w.db, w.ph.p[i], "CHECKNAME")
  BY DEF PdbTypes, Refuses
<1>2. /\ r.type = "CHECKNAME" /\ r.ok /\ r.value = Value(w.db, w.ph.p[i], "CHECKNAME")
  BY <1>1, AskedIs
<1> HIDE DEF r
<1>3. r.value = 0 => w.ph.p[i].name \notin w.db.names
  BY <1>2 DEF Value
<1>4. NewOwn(w.ph, w.db, w.wire, r, i)
  BY <1>2 DEF NewOwn
<1>5. w.mishaps \cap {"raced", "stale"} = {} => NewName(w.ph, w.db, w.wire, r, i)
  BY <1>2, <1>3 DEF NewName
<1>6. Expects(w.ph.p[i].status, "CHECKNAME")
  BY DEF Expects
<1> QED
  BY <1>2, <1>4, <1>5, <1>6, MayRead DEF r

LEMMA MayLoad ==
    ASSUME NEW w, NEW i \in LiveIn(w.ph.fi), Holds(w, {i}), w.ph.p[i].status = "LOADCHAR",
           w.ph.p[i].charid \in Charids, w.db.user[w.ph.p[i].accid] = w.ph.p[i].charid
    PROVE  MayAsk(w, i, "LOAD")
<1> DEFINE c == w.ph.p[i].charid
           r == Reply(w.db, w.ph.p[i], "LOAD", TRUE)
<1>1. "LOAD" \in PdbTypes \ {"SAVE"} /\ ~ Refuses(w.db, w.ph.p[i], "LOAD")
  BY DEF PdbTypes, Refuses
<1>2. /\ r.type = "LOAD" /\ r.ok /\ r.key = Key(w.ph.p[i], "LOAD") /\ r.record = w.db.char[c]
      /\ c <= w.db.lastid /\ SlotsOK(w.ph.fi, w.ph.p) /\ Accords(w.ph, w.db, w.wire, w.spoilt, w.mishaps)
  <2>1. /\ r.type = "LOAD" /\ r.ok /\ r.key = Key(w.ph.p[i], "LOAD")
        /\ c <= w.db.lastid /\ SlotsOK(w.ph.fi, w.ph.p) /\ Accords(w.ph, w.db, w.wire, w.spoilt, w.mishaps)
    BY <1>1, AskedIs, ZenonT(40)
  <2>2. r.record = w.db.char[c]
    BY DEF Reply
  <2> QED
    BY <2>1, <2>2
<1> HIDE DEF r
<1>3. r.key = c /\ c # 0
  BY <1>2 DEF Key, Charids
<1>4. \A j \in LiveIn(w.ph.fi) : w.ph.p[j].charid = c => j = i
  BY <1>2, <1>3, Apart
<1>5. NewOwn(w.ph, w.db, w.wire, r, i)
  BY <1>2, <1>3, <1>4 DEF NewOwn, HavingOK
<1>6. NewName(w.ph, w.db, w.wire, r, i)
  BY <1>2, <1>3, SMTT(40) DEF NewName
<1>7. "stale" \notin w.mishaps => (r.key \notin w.spoilt /\ r.record.name # NoName => r.record.data = r.key)
  BY <1>2, <1>3 DEF Accords, DataInv
<1>8. Expects(w.ph.p[i].status, "LOAD")
  BY DEF Expects, Awaits
<1> QED
  BY <1>5, <1>6, <1>7, <1>8, MayRead DEF r

LEMMA MaySavename ==
    ASSUME NEW w, NEW i \in LiveIn(w.ph.fi), Holds(w, {i}), w.ph.p[i].status = "SAVECHARNAME",
           Quiet(w.ph, w.wire, w.mishaps, i),
           w.mishaps \cap {"raced", "stale"} = {} =>
             /\ w.ph.p[i].name \notin w.db.names
             /\ \A j \in LiveIn(w.ph.fi) \ {i} : w.ph.p[j].name = w.ph.p[i].name => ~ MayReserve(w.ph, w.wire, j)
    PROVE  MayAsk(w, i, "SAVENAME")
<1> DEFINE p == w.ph.p[i]
           e == Executed(w.db, p, "SAVENAME")
           r == Reply(w.db, p, "SAVENAME", TRUE)
<1>1. "SAVENAME" \in PdbTypes \ {"SAVE"} /\ ~ Refuses(w.db, p, "SAVENAME")
  BY DEF PdbTypes, Refuses
<1>2. /\ r.type = "SAVENAME" /\ r.ok /\ p \in Players /\ w.db \in Databases
      /\ Accords(w.ph, w.db, w.wire, w.spoilt, w.mishaps)
  BY <1>1, AskedIs
<1>3. e = [w.db EXCEPT !.names = @ \cup {p.name}] /\ p.name \in Names \cup {"", OldName}
  BY <1>2 DEF Executed, Players
<1> HIDE DEF r, e
<1>4. e.names = w.db.names \cup {p.name} /\ e.char = w.db.char
  BY <1>2, <1>3 DEF Databases
<1>5. ~ MayReserve(w.ph, w.wire, i) \/ w.mishaps \cap {"raced", "stale"} # {}
  BY DEF Quiet, MayReserve
<1>6. /\ e \in Databases /\ OwnInv(w.ph, e, w.wire)
      /\ DataInv(w.ph, e, w.wire, w.spoilt, w.mishaps) /\ NameInv(w.ph, e, w.wire, w.mishaps)
  <2>1. NotTold(w.ph, w.wire, w.mishaps, p.name)
    BY <1>5 DEF NotTold
  <2> HIDE DEF p
  <2> QED
    BY <1>2, <1>3, <2>1, SavedName
<1>7. NewOwn(w.ph, e, w.wire, r, i)
  BY <1>2 DEF NewOwn
<1>8. ASSUME w.mishaps \cap {"raced", "stale"} = {}
      PROVE  NewName(w.ph, e, w.wire, r, i)
  <2>1. /\ CharNames(w.db) /\ \A j \in LiveIn(w.ph.fi) : PlayerName(w.ph, w.db, w.wire, j)
    BY <1>2, <1>8 DEF Accords, NameInv
  <2>2. \A c \in Charids : w.db.char[c].name # p.name
    <3>1. p.name # NoName
      <4>1. NoName # OldName /\ NoName \notin Names /\ NoName # ""
        BY WorldAssumption DEF NoName, OldName
      <4> QED
        BY <1>3, <4>1
    <3> QED
      BY <1>8, <2>1, <3>1 DEF CharNames
  <2>3. \A j \in LiveIn(w.ph.fi) : w.ph.p[j].name = p.name => ~ Reserves(w.ph, w.wire, j)
    BY <1>8, <2>1 DEF PlayerName
  <2> QED
    BY <1>2, <1>4, <2>2, <2>3 DEF NewName
<1>9. Expects(p.status, "SAVENAME")
  BY DEF Expects, Awaits
<1> QED
  BY <1>6, <1>7, <1>8, <1>9 DEF MayAsk, e, r

LEMMA MayCharid ==
    ASSUME NEW w, NEW i \in LiveIn(w.ph.fi), Holds(w, {i}), w.ph.p[i].status = "CHARUNIQUEID"
    PROVE  MayAsk(w, i, "CHARID")
<1> DEFINE p == w.ph.p[i]
           d == w.db
           e == Executed(d, p, "CHARID")
           r == Reply(d, p, "CHARID", TRUE)
           c == d.lastid + 1
<1>0. Expects(p.status, "CHARID")
  BY DEF Expects, Awaits
<1> SUFFICES ASSUME ~ Refuses(d, p, "CHARID") PROVE MayAsk(w, i, "CHARID")
  BY <1>0 DEF MayAsk
<1>1. "CHARID" \in PdbTypes \ {"SAVE"}
  BY DEF PdbTypes
<1>2. /\ r.type = "CHARID" /\ r.ok /\ r.value = Value(d, p, "CHARID") /\ d \in Databases /\ w.ph \in Worlds
      /\ w.wire \in Seq(Replies) /\ Accords(w.ph, d, w.wire, w.spoilt, w.mishaps) /\ OwnInv(w.ph, d, w.wire)
  BY <1>1, AskedIs
<1>3. e = [d EXCEPT !.lastid = @ + 1] /\ d.lastid # MaxChar /\ r.value = c
  BY <1>2 DEF Executed, Refuses, Value
<1> HIDE DEF r, e
<1>4. /\ e \in Databases /\ OwnInv(w.ph, e, w.wire)
      /\ DataInv(w.ph, e, w.wire, w.spoilt, w.mishaps) /\ NameInv(w.ph, e, w.wire, w.mishaps)
  BY <1>2, <1>3, NextCharid
<1>5. d.lastid \in 0 .. MaxChar /\ MaxChar \in Nat
  BY <1>2, WorldAssumption DEF Databases
<1>6. c \in Charids /\ \A x \in {0} \cup Charids : x <= d.lastid => x # c
  BY <1>3, <1>5 DEF Charids
<1>7. e.lastid = c /\ e.user = d.user /\ e.char = d.char
  BY <1>2, <1>3 DEF Databases
<1>8. BoundOK(d) /\ PlayersOwn(w.ph.fi, w.ph.p, d) /\ \A k \in DOMAIN w.wire : w.wire[k].ok => ReplyOwn(w.ph.fi, w.ph.p, d, w.wire, k)
  BY <1>2 DEF OwnInv, RepliesOwn
<1>9. Unused(w.ph.fi, w.ph.p, e, c)
  <2>1. \A a \in Accounts : d.user[a] # c
    <3>1. \A a \in Accounts : d.user[a] \in {0} \cup Charids /\ (d.user[a] # 0 => d.user[a] <= d.lastid)
      BY <1>2, <1>8 DEF Databases, BoundOK
    <3> QED
      BY <1>5, <1>6, <3>1
  <2>2. \A j \in LiveIn(w.ph.fi) : w.ph.p[j].charid # c
    <3>1. \A j \in LiveIn(w.ph.fi) : w.ph.p[j].charid \in {0} \cup Charids /\ w.ph.p[j].charid <= d.lastid
      BY <1>2, <1>8 DEF Worlds, Players, LiveIn, PlayersOwn
    <3> QED
      BY <1>6, <3>1
  <2>3. d.char[c].name = NoName
    BY <1>6, <1>8 DEF BoundOK
  <2>4. c <= c
    BY <1>5
  <2> QED
    BY <1>6, <1>7, <2>1, <2>2, <2>3, <2>4 DEF Unused
<1>10. ASSUME NEW n \in DOMAIN w.wire, w.wire[n].ok
       PROVE  /\ w.wire[n].type = "CHARID" => w.wire[n].value # c
              /\ w.wire[n].type \in {"CREATE", "BINDCHARID", "LOAD"} => w.wire[n].key # c
  <2>1. ReplyOwn(w.ph.fi, w.ph.p, d, w.wire, n)
    BY <1>8, <1>10
  <2>2. w.wire[n].type = "CHARID" => w.wire[n].value \in Charids /\ w.wire[n].value <= d.lastid
    BY <2>1 DEF ReplyOwn, CharidOK, Unused
  <2>3. w.wire[n].type \in {"CREATE", "BINDCHARID", "LOAD"} => w.wire[n].key \in Charids /\ w.wire[n].key <= d.lastid
    BY <2>1 DEF ReplyOwn, CreateOK, HavingOK
  <2> QED
    BY <1>6, <2>2, <2>3
<1>11. NewOwn(w.ph, e, w.wire, r, i)
  BY <1>2, <1>3, <1>9, <1>10 DEF NewOwn
<1>12. NewName(w.ph, e, w.wire, r, i)
  BY <1>2 DEF NewName
<1> QED
  BY <1>0, <1>4, <1>11, <1>12 DEF MayAsk, e, r

\* What the handler of PDB_CHARID leaves for PDB_CREATE; the name may still be empty.
Creatable(t, d, w, s, m, i) ==
    LET c == t.p[i].charid IN
    /\ c # 0 /\ t.p[i].status = "CREATECHAR" /\ \A a \in Accounts : d.user[a] # c
    /\ \A n \in DOMAIN w : w[n].ok /\ w[n].type = "CREATE" => w[n].key # c
    /\ "stale" \notin m /\ c \notin s => t.p[i].data = c
    /\ m \cap {"raced", "stale"} = {} =>
         /\ t.p[i].name \in d.names /\ \A b \in Charids : d.char[b].name # t.p[i].name
         /\ \A j \in LiveIn(t.fi) \ {i} : t.p[j].name = t.p[i].name => ~ Reserves(t, w, j)

LEMMA MayCreate ==
    ASSUME NEW w, NEW i \in LiveIn(w.ph.fi), Holds(w, {i}), Quiet(w.ph, w.wire, w.mishaps, i),
           Creatable(w.ph, w.db, w.wire, w.spoilt, w.mishaps, i)
    PROVE  MayAsk(w, i, "CREATE")
<1> DEFINE p == w.ph.p[i]
           d == w.db
           c == p.charid
           e == Executed(d, p, "CREATE")
           r == Reply(d, p, "CREATE", TRUE)
<1>0. Expects(p.status, "CREATE")
  BY DEF Creatable, Expects, Awaits
<1> SUFFICES ASSUME ~ Refuses(d, p, "CREATE") PROVE MayAsk(w, i, "CREATE")
  BY <1>0 DEF MayAsk
<1>1. "CREATE" \in PdbTypes \ {"SAVE"}
  BY DEF PdbTypes
<1>2. /\ r.type = "CREATE" /\ r.ok /\ r.key = Key(p, "CREATE") /\ d \in Databases /\ w.ph \in Worlds
      /\ Accords(w.ph, d, w.wire, w.spoilt, w.mishaps) /\ SlotsOK(w.ph.fi, w.ph.p)
      /\ p \in Players /\ c <= d.lastid
  BY <1>1, AskedIs, ZenonT(40)
<1>3. /\ e = [d EXCEPT !.char[c] = [data |-> p.data, name |-> p.name]] /\ p.name # ""
      /\ r.key = c
  BY <1>2 DEF Executed, Refuses, Key
<1>4. c \in Charids
  BY <1>2 DEF Creatable, Players
<1>5. Creates(w.ph, d, w.wire, w.spoilt, w.mishaps, i, c)
  BY <1>3 DEF Creatable, Creates
<1> HIDE DEF r, e, c
<1>6. /\ e \in Databases /\ OwnInv(w.ph, e, w.wire)
      /\ DataInv(w.ph, e, w.wire, w.spoilt, w.mishaps) /\ NameInv(w.ph, e, w.wire, w.mishaps)
  BY <1>2, <1>3, <1>5, CreatedChar
<1>7. e.user = d.user /\ e.lastid = d.lastid /\ e.char[c].name = p.name
  <2>1. d.char \in [{0} \cup Charids -> Records]
    BY <1>2 DEF Databases
  <2>2. e.user = d.user /\ e.lastid = d.lastid
    BY <1>2, <1>3 DEF Databases
  <2>3. e.char = [d.char EXCEPT ![c] = [data |-> p.data, name |-> p.name]]
    BY <1>2, <1>3 DEF Databases
  <2> QED
    BY <1>4, <2>1, <2>2, <2>3
<1>8. p.name # NoName
  <2>1. NoName # OldName /\ NoName \notin Names /\ NoName # ""
    BY WorldAssumption DEF NoName, OldName
  <2> QED
    BY <1>2, <2>1 DEF Players
<1>9. NewOwn(w.ph, e, w.wire, r, i)
  <2>1. /\ \A a \in Accounts : d.user[a] # c
        /\ \A n \in DOMAIN w.wire : w.wire[n].ok /\ w.wire[n].type = "CREATE" => w.wire[n].key # c
    BY DEF Creatable, c
  <2>2. r.key = w.ph.p[i].charid
    BY <1>3 DEF c
  <2> QED
    BY <1>2, <1>3, <1>4, <1>7, <1>8, <2>1, <2>2 DEF NewOwn
<1>10. NewName(w.ph, e, w.wire, r, i)
  BY <1>2, <1>7 DEF NewName, c
<1> QED
  BY <1>0, <1>2, <1>6, <1>9, <1>10 DEF MayAsk, e, r

\* What the handler of PDB_CREATE leaves for PDB_BINDCHARID.
Bindable(t, d, w, i) == Binds(t, d, w, i, t.p[i].accid, t.p[i].charid)

LEMMA MayBind ==
    ASSUME NEW w, NEW i \in LiveIn(w.ph.fi), Holds(w, {i}), Bindable(w.ph, w.db, w.wire, i)
    PROVE  MayAsk(w, i, "BINDCHARID")
<1> DEFINE p == w.ph.p[i]
           d == w.db
           c == p.charid
           a == p.accid
           e == Executed(d, p, "BINDCHARID")
           r == Reply(d, p, "BINDCHARID", TRUE)
<1>0. Expects(p.status, "BINDCHARID") /\ ~ Refuses(d, p, "BINDCHARID")
  BY DEF Bindable, Binds, Expects, Awaits, Refuses
<1>1. "BINDCHARID" \in PdbTypes \ {"SAVE"}
  BY DEF PdbTypes
<1>2. /\ r.type = "BINDCHARID" /\ r.ok /\ r.key = Key(p, "BINDCHARID") /\ d \in Databases /\ w.ph \in Worlds
      /\ Accords(w.ph, d, w.wire, w.spoilt, w.mishaps) /\ SlotsOK(w.ph.fi, w.ph.p)
      /\ p \in Players /\ a \in Accounts /\ c <= d.lastid
  BY <1>0, <1>1, AskedIs, ZenonT(40)
<1>3. e = [d EXCEPT !.user[a] = c] /\ r.key = c
  BY <1>2 DEF Executed, Key
<1>4. c \in Charids /\ c # 0 /\ Binds(w.ph, d, w.wire, i, a, c)
  BY <1>2 DEF Bindable, Binds, Players
<1>5. \A j \in LiveIn(w.ph.fi) : w.ph.p[j].charid = c => j = i
  BY <1>2, <1>4, Apart
<1> HIDE DEF r, e, c, a
<1>6. /\ e \in Databases /\ OwnInv(w.ph, e, w.wire)
      /\ DataInv(w.ph, e, w.wire, w.spoilt, w.mishaps) /\ NameInv(w.ph, e, w.wire, w.mishaps)
  BY <1>2, <1>3, <1>4, BoundChar
<1>7. e.user[a] = c /\ e.lastid = d.lastid
  <2>1. d.user \in [Accounts -> {0} \cup Charids]
    BY <1>2 DEF Databases
  <2>2. e.user = [d.user EXCEPT ![a] = c] /\ e.lastid = d.lastid
    BY <1>2, <1>3 DEF Databases
  <2> QED
    BY <1>2, <2>1, <2>2
<1>8. HavingOK(w.ph.fi, w.ph.p, e, r)
  BY <1>2, <1>3, <1>4, <1>5, <1>7 DEF HavingOK, a
<1>9. NewOwn(w.ph, e, w.wire, r, i)
  <2>1. r.key = w.ph.p[i].charid
    BY <1>3 DEF c
  <2> QED
    BY <1>2, <1>8, <2>1 DEF NewOwn
<1>10. NewName(w.ph, e, w.wire, r, i)
  BY <1>2 DEF NewName
<1> QED
  BY <1>0, <1>2, <1>6, <1>9, <1>10 DEF MayAsk, e, r

-----------------------------------------------------------------------------
\* The handlers.

\* Nobody's answer is asked for any more, more went wrong, more is spoilt.
LEMMA MoreKeeps ==
    ASSUME NEW w, NEW v, NEW X, NEW Y, Holds(w, X), X \subseteq Y, v \in States,
           v.ph = w.ph, v.db = w.db, v.wire = w.wire, w.spoilt \subseteq v.spoilt, w.mishaps \subseteq v.mishaps
    PROVE  Holds(v, Y)
<1>1. w \in States /\ Inv(w.ph, w.db, w.wire, w.spoilt, w.mishaps, X)
  BY DEF Holds
<1>2. Kept(w.wire, w.wire, 0)
  <2>1. DOMAIN w.wire \subseteq Nat
    BY <1>1, WireIs DEF States
  <2> QED
    BY <2>1 DEF Kept
<1>3. Fewer(w.ph, w.ph)
  BY DEF Fewer
<1>4. Accords(w.ph, w.db, w.wire, w.spoilt, w.mishaps)
  BY <1>1 DEF Inv
<1>5. Accords(w.ph, w.db, w.wire, v.spoilt, v.mishaps)
  BY <1>2, <1>3, <1>4, LessKeeps
<1>6. Waits(w.ph, w.wire, v.mishaps, Y)
  BY <1>1 DEF Inv, Waits
<1>7. Typed(w.ph, w.db, w.wire, v.spoilt, v.mishaps)
  BY <1>1 DEF Inv, Typed, States
<1> QED
  BY <1>1, <1>5, <1>6, <1>7 DEF Holds, Inv

LEMMA NoteKeeps ==
    ASSUME NEW w, NEW X, Holds(w, X), NEW what \in {"lost", "stale", "raced"}
    PROVE  /\ Holds(Note(w, what), X)
           /\ Note(w, what).ph = w.ph /\ Note(w, what).db = w.db /\ Note(w, what).wire = w.wire
           /\ Note(w, what).spoilt = w.spoilt /\ Note(w, what).mishaps = w.mishaps \cup {what}
<1> DEFINE v == Note(w, what)
<1>1. w \in States
  BY DEF Holds
<1>2. /\ v \in States /\ v.ph = w.ph /\ v.db = w.db /\ v.wire = w.wire /\ v.spoilt = w.spoilt
      /\ v.mishaps = w.mishaps \cup {what}
  BY <1>1 DEF Note, States
<1> HIDE DEF v
<1>3. Holds(v, X)
  BY <1>2, MoreKeeps
<1> QED
  BY <1>2, <1>3 DEF v

-----------------------------------------------------------------------------
\* PDB_SAVE, of what the slot holds.

LEMMA SaveExecutes ==
    ASSUME NEW d, NEW p
    PROVE  /\ ~ Refuses(d, p, "SAVE")
           /\ Executed(d, p, "SAVE") = [d EXCEPT !.char[p.charid].data = p.data]
<1>1. ~ Refuses(d, p, "SAVE")
  BY DEF Refuses
<1>2. Executed(d, p, "SAVE") = [d EXCEPT !.char[p.charid].data = p.data]
  BY Zenon DEF Executed
<1> QED
  BY <1>1, <1>2

LEMMA SaveSends ==
    ASSUME NEW w, NEW i, NEW fate
    PROVE  Sent(w, i, "SAVE", fate) =
             [w EXCEPT !.db = IF fate \in {"ok", "noreply"} THEN Executed(@, w.ph.p[i], "SAVE") ELSE @]
<1>1. ~ Refuses(w.db, w.ph.p[i], "SAVE")
  BY SaveExecutes
<1>2. Sent(w, i, "SAVE", fate) =
        [w EXCEPT !.db = IF fate \in {"ok", "noreply"} THEN Executed(@, w.ph.p[i], "SAVE") ELSE @,
                  !.wire = @, !.mishaps = @]
  BY <1>1 DEF Sent
<1> QED
  BY <1>2

LEMMA SaveKeeps ==
    ASSUME NEW w, NEW i \in LiveIn(w.ph.fi), Holds(w, {}), NEW fate \in {"ok"} \cup AllFaults
    PROVE  Holds(SaveAnyStatus(w, i, fate), {}) /\ SaveAnyStatus(w, i, fate).ph = w.ph
<1> DEFINE p == w.ph.p[i]
           b == IF p.status = "LOADCHAR" THEN [w EXCEPT !.spoilt = @ \cup {p.charid}] ELSE w
           e == [w.db EXCEPT !.char[p.charid].data = p.data]
           v == SaveAnyStatus(w, i, fate)
<1>1. /\ w \in States /\ w.ph \in Worlds /\ w.db \in Databases /\ i \in Ids
      /\ p.charid \in {0} \cup Charids /\ p.data \in {0} \cup Charids
      /\ p.status = "LOADCHAR" => p.charid # 0
      /\ Inv(w.ph, w.db, w.wire, w.spoilt, w.mishaps, {})
  BY DEF Holds, States, Inv, TableInv, SlotsOK, LiveIn, Worlds, Players
<1>2. /\ b \in States /\ b.ph = w.ph /\ b.db = w.db /\ b.wire = w.wire /\ b.mishaps = w.mishaps
      /\ w.spoilt \subseteq b.spoilt /\ (p.status = "LOADCHAR" => p.charid \in b.spoilt)
  BY <1>1 DEF States
<1>3. v = Sent(b, i, "SAVE", fate)
  BY DEF SaveAnyStatus, _db
<1> HIDE DEF b, v
<1>4. Holds(b, {})
  BY <1>2, MoreKeeps
<1>5. Executed(b.db, b.ph.p[i], "SAVE") = e
  <2>1. b.ph.p[i] = p /\ b.db = w.db
    BY <1>2
  <2> HIDE DEF p
  <2>2. Executed(w.db, p, "SAVE") = e
    BY SaveExecutes
  <2> QED
    BY <2>1, <2>2
<1> HIDE DEF e
<1>6. v = [b EXCEPT !.db = IF fate \in {"ok", "noreply"} THEN e ELSE @]
  <2>1. v = [b EXCEPT !.db = IF fate \in {"ok", "noreply"} THEN Executed(@, b.ph.p[i], "SAVE") ELSE @]
    BY <1>3, SaveSends
  <2> QED
    BY <1>5, <2>1
<1>7. /\ v \in [ph : {v.ph}, db : {v.db}, wire : {v.wire}, spoilt : {v.spoilt}, mishaps : {v.mishaps}]
      /\ v.ph = b.ph /\ v.wire = b.wire /\ v.spoilt = b.spoilt /\ v.mishaps = b.mishaps
      /\ v.db = IF fate \in {"ok", "noreply"} THEN e ELSE b.db
  <2>1. b \in [ph : {b.ph}, db : {b.db}, wire : {b.wire}, spoilt : {b.spoilt}, mishaps : {b.mishaps}]
    BY <1>2 DEF States
  <2> HIDE DEF p
  <2> QED
    BY <1>6, <2>1
<1>8. Holds(v, {})
  <2>1. "stale" \notin b.mishaps /\ p.charid # 0 /\ p.charid \notin b.spoilt => p.data = p.charid
    <3>1. DataInv(w.ph, w.db, w.wire, w.spoilt, w.mishaps)
      BY <1>1 DEF Inv, Accords
    <3> QED
      BY <1>2, <3>1 DEF DataInv
  <2>2. Accords(w.ph, w.db, w.wire, b.spoilt, b.mishaps)
    BY <1>2, <1>4 DEF Holds, Inv
  <2> HIDE DEF p
  <2>3. e \in Databases /\ OwnInv(w.ph, e, w.wire) /\ DataInv(w.ph, e, w.wire, b.spoilt, b.mishaps)
        /\ NameInv(w.ph, e, w.wire, b.mishaps)
    BY <1>1, <2>1, <2>2, SavedChar DEF e
  <2>4. CASE fate \in {"ok", "noreply"}
    <3>1. v = [b EXCEPT !.db = e]
      BY <1>2, <1>6, <1>7, <2>4 DEF States
    <3> QED
      BY <1>2, <1>4, <2>3, <3>1, ExecKeeps
  <2>5. CASE fate \notin {"ok", "noreply"}
    <3>1. v \in States
      BY <1>2, <1>7, <2>5 DEF States
    <3> QED
      BY <1>2, <1>4, <1>7, <2>5, <3>1, MoreKeeps
  <2> QED
    BY <2>4, <2>5
<1> QED
  BY <1>2, <1>7, <1>8 DEF v

-----------------------------------------------------------------------------
\* A player takes a slot.

\* u is t with a player of the account on the connection, in the j-th slot.
Joined(t, u, conn, accid, j) ==
    /\ u.fi = freeid_alloc(t.fi, conn) /\ u.hi2 = hashid_alloc(t.hi2, accid)
    /\ u.hi = t.hi /\ u.abort = t.abort
    /\ \A k \in Ids \ {j} : u.p[k] = t.p[k]
    /\ u.p[j].conn = conn /\ u.p[j].accid = accid /\ u.p[j].times = 0
    /\ u.p[j].charid = 0 /\ u.p[j].name = "" /\ u.p[j].status = "FREE"

\* The slots that are left for it.
LEMMA LiveIsHeld ==
    ASSUME NEW f \in FreeidType
    PROVE  LiveIn(f) = Held(f) /\ LiveIn(f) \subseteq Ids
<1>1. \A h \in Hashes : f.slots[h] \in Ids \cup {-1}
  BY DEF FreeidType
<1> QED
  BY <1>1, NotAnId DEF LiveIn, Held

LEMMA LiveIsFinite ==
    ASSUME NEW f, NEW p
    PROVE  /\ IsFiniteSet(LiveIn(f)) /\ Cardinality(LiveIn(f)) \in Nat
           /\ Cardinality(AccidsOf(f, p)) <= Cardinality(LiveIn(f)) /\ Cardinality(AccidsOf(f, p)) \in Nat
           /\ \A j \in Ids \ LiveIn(f) : Cardinality(LiveIn(f)) < Cap
<1> DEFINE L == LiveIn(f)
           A == AccidsOf(f, p)
           accid == [i \in L |-> p[i].accid]
<1>1. IsFiniteSet(Ids) /\ Cardinality(Ids) = Cap
  <2>1. 0 <= Cap - 1 /\ 0 \in Int /\ Cap - 1 \in Int /\ Cap - 1 - 0 + 1 = Cap
    BY FreeidAssumption
  <2> QED
    BY <2>1, FS_Interval DEF Ids
<1>2. L \in SUBSET Ids
  BY DEF LiveIn
<1>3. IsFiniteSet(L) /\ Cardinality(L) \in Nat
  BY <1>1, <1>2, FS_Subset, FS_CardinalityType
<1>4. accid \in Surjection(L, A)
  BY DEF Surjection, AccidsOf
<1> HIDE DEF accid, A, L
<1>5. IsFiniteSet(A) /\ Cardinality(A) <= Cardinality(L)
  BY <1>3, <1>4, FS_Surjection
<1>6. Cardinality(A) \in Nat
  BY <1>5, FS_CardinalityType
<1>7. ASSUME NEW j \in Ids \ L PROVE Cardinality(L) < Cap
  <2>1. L \in SUBSET (Ids \ {j})
    BY <1>2, <1>7
  <2>2. IsFiniteSet(Ids \ {j}) /\ Cardinality(Ids \ {j}) = Cap - 1
    BY <1>1, <1>7, FS_RemoveElement
  <2>3. Cardinality(L) <= Cap - 1
    BY <2>1, <2>2, FS_Subset
  <2> QED
    BY <1>3, <2>3, FreeidAssumption
<1> QED
  BY <1>3, <1>5, <1>6, <1>7 DEF A, L

\* While a slot is left, there is one in the index of the accounts.
LEMMA AccountHasRoom ==
    ASSUME NEW t \in Worlds, TableInv(t), NEW j \in Ids \ LiveIn(t.fi)
    PROVE  ~ hashid_full(t.hi2)
<1>1. \A x, y \in Nat : x <= y /\ y < Cap => x < Cap
  BY FreeidAssumption
<1>2. Cardinality(AccidsOf(t.fi, t.p)) < Cap
  BY <1>1, LiveIsFinite
<1>3. t.hi2 \in Indexes(Accounts) /\ Indexed(t.hi2, AccidsOf(t.fi, t.p))
  BY DEF Worlds, TableInv
<1> QED
  BY <1>2, <1>3, HashRoom

LEMMA JoinedTables ==
    ASSUME NEW t \in Worlds, TableInv(t), NEW u, NEW conn \in Hashes, NEW accid \in Accounts, NEW j,
           t.fi.slots[conn] = -1, ~ freeid_full(t.fi, conn), j = t.fi.free,
           accid \notin AccidsOf(t.fi, t.p), Joined(t, u, conn, accid, j)
    PROVE  /\ j \in Ids \ LiveIn(t.fi) /\ LiveIn(u.fi) = LiveIn(t.fi) \cup {j}
           /\ u.fi \in FreeidType /\ u.fi.slots[conn] = j
           /\ u.hi2 \in Indexes(Accounts) /\ TableInv(u)
<1> DEFINE L == LiveIn(t.fi)
<1>1. /\ WellFormed(t.fi) /\ L \subseteq Ids /\ t.fi \in FreeidType /\ L = Held(t.fi)
      /\ Indexed(t.hi2, AccidsOf(t.fi, t.p)) /\ Indexed(t.hi, CharidsOf(t.fi, t.p))
  BY LiveIsHeld DEF TableInv, SlotsOK, WellFormed
<1>2. \A k \in L :
        /\ t.p[k].conn \in Hashes /\ t.fi.slots[t.p[k].conn] = k
        /\ t.p[k].accid \in Accounts /\ t.p[k].times < CreateTimes
        /\ t.p[k].charid # 0 => t.p[k].status # "FREE"
        /\ t.p[k].status = "LOADCHAR" => t.p[k].charid # 0
  BY DEF TableInv, SlotsOK
<1>3. \A k \in Ids \ L :
         t.p[k].accid = 0 /\ t.p[k].charid = 0 /\ t.p[k].name = "" /\ t.p[k].status = "FREE"
  BY DEF TableInv, SlotsOK
<1>4. \A i, k \in L : i # k =>
         t.p[i].accid # t.p[k].accid /\ (t.p[i].charid = t.p[k].charid => t.p[i].charid = 0)
  BY DEF TableInv, SlotsOK
<1>5. /\ WellFormed(u.fi) /\ u.fi.slots = [t.fi.slots EXCEPT ![conn] = j] /\ j \in Ids \ L
  <2>1. LowHeap /\ u.fi = freeid_alloc(t.fi, conn)
    BY WorldAssumption DEF Joined
  <2> QED
    BY <1>1, <2>1, AllocKeepsWellFormed
<1>6. t.fi.slots \in [Hashes -> Ids \cup {-1}] /\ u.fi \in FreeidType
  BY <1>1, <1>5 DEF WellFormed, FreeidType
<1> DEFINE fs == t.fi.slots
           us == u.fi.slots
<1>7. us[conn] = j /\ fs[conn] = -1 /\ \A h \in Hashes \ {conn} : us[h] = fs[h]
  BY <1>5, <1>6
<1>8. L = {k \in Ids : \E h \in Hashes : fs[h] = k} /\ LiveIn(u.fi) = {k \in Ids : \E h \in Hashes : us[h] = k}
  BY DEF LiveIn
<1>9. \A k \in Ids \ {j} : u.p[k] = t.p[k]
  BY DEF Joined
<1>10. /\ u.p[j].conn = conn /\ u.p[j].accid = accid /\ u.p[j].times = 0
      /\ u.p[j].charid = 0 /\ u.p[j].name = "" /\ u.p[j].status = "FREE"
      /\ u.hi2 = hashid_alloc(t.hi2, accid) /\ u.hi = t.hi
  BY DEF Joined
<1> HIDE DEF L, fs, us
<1>11. LiveIn(u.fi) = L \cup {j}
  <2>1. ASSUME NEW k \in LiveIn(u.fi) PROVE k \in L \cup {j}
    BY <1>7, <1>8, <2>1
  <2>2. ASSUME NEW k \in L PROVE k \in LiveIn(u.fi)
    <3>1. PICK h \in Hashes : fs[h] = k /\ k \in Ids
      BY <1>8, <2>2
    <3>2. h # conn
      BY <1>7, <3>1, NotAnId
    <3> QED
      BY <1>7, <1>8, <3>1, <3>2
  <2>3. j \in LiveIn(u.fi)
    BY <1>5, <1>7, <1>8
  <2> QED
    BY <2>1, <2>2, <2>3
<1>12. \A k \in L : u.p[k] = t.p[k] /\ k # j
  BY <1>1, <1>5, <1>9
<1>13. accid \notin {t.p[k].accid : k \in L}
  BY DEF AccidsOf, L
<1>14. SlotsOK(u.fi, u.p)
  <2>1. ASSUME NEW k \in LiveIn(u.fi)
        PROVE  /\ u.p[k].conn \in Hashes /\ u.fi.slots[u.p[k].conn] = k
               /\ u.p[k].accid \in Accounts /\ u.p[k].times < CreateTimes
               /\ u.p[k].charid # 0 => u.p[k].status # "FREE"
               /\ u.p[k].status = "LOADCHAR" => u.p[k].charid # 0
    <3>1. CASE k = j
      <4>1. 0 < CreateTimes
        <5>1. CreateTimes \in Nat \ {0}
          BY WorldAssumption
        <5> QED
          BY <5>1
      <4>2. conn \in Hashes /\ accid \in Accounts
        OBVIOUS
      <4> QED
        BY <1>7, <1>10, <3>1, <4>1, <4>2 DEF us
    <3>2. CASE k \in L
      <4>1. u.p[k] = t.p[k] /\ t.p[k].conn # conn
        <5>1. fs[t.p[k].conn] = k /\ k \in Ids
          BY <1>1, <1>2, <3>2 DEF fs
        <5> QED
          BY <1>7, <1>12, <3>2, <5>1, NotAnId
      <4>2. us[t.p[k].conn] = k
        BY <1>2, <1>7, <3>2, <4>1 DEF fs
      <4> QED
        BY <1>2, <3>2, <4>1, <4>2 DEF us
    <3> QED
      BY <1>11, <2>1, <3>1, <3>2
  <2>2. \A k \in Ids \ LiveIn(u.fi) :
          u.p[k].accid = 0 /\ u.p[k].charid = 0 /\ u.p[k].name = "" /\ u.p[k].status = "FREE"
    BY <1>9, <1>11, <1>3
  <2>3. ASSUME NEW i \in LiveIn(u.fi), NEW k \in LiveIn(u.fi), i # k
        PROVE  u.p[i].accid # u.p[k].accid /\ (u.p[i].charid = u.p[k].charid => u.p[i].charid = 0)
    <3>1. CASE i \in L /\ k \in L
      <4>1. u.p[i] = t.p[i] /\ u.p[k] = t.p[k]
        BY <1>12, <3>1
      <4> QED
        BY <1>4, <2>3, <3>1, <4>1
    <3>2. CASE i = j /\ k \in L
      BY <1>10, <1>12, <1>13, <3>2, ZenonT(40)
    <3>3. CASE i \in L /\ k = j
      BY <1>10, <1>12, <1>13, <3>3, ZenonT(40)
    <3> QED
      BY <1>11, <2>3, <3>1, <3>2, <3>3
  <2> QED
    BY <1>5, <2>1, <2>2, <2>3 DEF SlotsOK
<1>15. AccidsOf(u.fi, u.p) = AccidsOf(t.fi, t.p) \cup {accid}
  <2>1. {u.p[k].accid : k \in L} = {t.p[k].accid : k \in L}
    BY <1>12
  <2>2. AccidsOf(u.fi, u.p) = {u.p[k].accid : k \in L} \cup {accid}
    BY <1>10, <1>11 DEF AccidsOf
  <2> QED
    BY <2>1, <2>2 DEF AccidsOf, L
<1>16. CharidsOf(u.fi, u.p) = CharidsOf(t.fi, t.p)
  <2>1. {u.p[k].charid : k \in L} = {t.p[k].charid : k \in L}
    BY <1>12
  <2>2. {u.p[k].charid : k \in LiveIn(u.fi)} = {u.p[k].charid : k \in L} \cup {0}
    BY <1>10, <1>11
  <2> QED
    BY <2>1, <2>2 DEF CharidsOf, L
<1>17. u.hi2 \in Indexes(Accounts) /\ Indexed(u.hi2, AccidsOf(u.fi, u.p))
  <2>1. ~ hashid_full(t.hi2)
    BY <1>5, AccountHasRoom DEF L
  <2>2. t.hi2 \in Indexes(Accounts)
    BY DEF Worlds
  <2>3. Indexed(t.hi2, AccidsOf(t.fi, t.p)) /\ accid \notin AccidsOf(t.fi, t.p) /\ accid \in Accounts
    BY <1>1
  <2>4. /\ hashid_alloc(t.hi2, accid) \in Indexes(Accounts)
        /\ Indexed(hashid_alloc(t.hi2, accid), AccidsOf(t.fi, t.p) \cup {accid})
    BY <2>1, <2>2, <2>3, HashAlloc
  <2> QED
    BY <1>10, <1>15, <2>4
<1> QED
  BY <1>1, <1>5, <1>6, <1>7, <1>10, <1>11, <1>14, <1>16, <1>17 DEF TableInv, L, us

\* Nothing is on its way to the new player, and nothing is said of its character.
JoinedFacts(t, u, w, j) ==
    /\ LiveIn(u.fi) = LiveIn(t.fi) \cup {j} /\ j \notin LiveIn(t.fi)
    /\ \A k \in LiveIn(t.fi) : u.p[k] = t.p[k]
    /\ u.p[j].charid = 0 /\ u.p[j].status = "FREE"
    /\ \A k \in DOMAIN w : ~ Comes(w, k, u.p[j].conn)

LEMMA JoinedOwn ==
    ASSUME NEW t \in Worlds, NEW u, NEW d \in Databases, NEW w, NEW j, JoinedFacts(t, u, w, j), OwnInv(t, d, w)
    PROVE  OwnInv(u, d, w)
<1> DEFINE L == LiveIn(t.fi)
<1>1. /\ LiveIn(u.fi) = L \cup {j} /\ \A k \in L : u.p[k] = t.p[k]
      /\ u.p[j].charid = 0 /\ u.p[j].status = "FREE"
  BY DEF JoinedFacts
<1>2. 0 \notin Charids /\ 0 <= d.lastid
  <2>1. d.lastid \in 0 .. MaxChar
    BY DEF Databases
  <2>2. MaxChar \in Nat
    BY WorldAssumption
  <2> QED
    BY <2>1, <2>2 DEF Charids
<1>3. PlayersOwn(u.fi, u.p, d)
  <2> SUFFICES ASSUME NEW i \in LiveIn(u.fi)
               PROVE  /\ u.p[i].charid <= d.lastid
                      /\ u.p[i].charid # 0 => \A b \in Accounts : d.user[b] = u.p[i].charid => b = u.p[i].accid
                      /\ u.p[i].status = "GAME" => u.p[i].charid # 0 /\ d.user[u.p[i].accid] = u.p[i].charid
    BY DEF PlayersOwn
  <2>1. CASE i = j
    BY <1>1, <1>2, <2>1
  <2>2. CASE i \in L
    BY <1>1, <2>2 DEF OwnInv, PlayersOwn
  <2> QED
    BY <1>1, <2>1, <2>2
<1>4. ASSUME NEW k \in DOMAIN w, w[k].ok PROVE ReplyOwn(u.fi, u.p, d, w, k)
  <2>1. ReplyOwn(t.fi, t.p, d, w, k)
    BY <1>4 DEF OwnInv, RepliesOwn
  <2>2. \A c \in Charids, i \in LiveIn(u.fi) : u.p[i].charid = c => i \in L /\ t.p[i].charid = c /\ u.p[i] = t.p[i]
    BY <1>1, <1>2
  <2>3. w[k].type = "CHARID" => CharidOK(u.fi, u.p, d, w, k)
    <3> SUFFICES ASSUME w[k].type = "CHARID" PROVE CharidOK(u.fi, u.p, d, w, k)
      OBVIOUS
    <3>1. CharidOK(t.fi, t.p, d, w, k)
      BY <2>1 DEF ReplyOwn
    <3>2. Unused(t.fi, t.p, d, w[k].value)
      BY <3>1 DEF CharidOK
    <3>3. \A i \in LiveIn(u.fi) : u.p[i].charid # w[k].value
      BY <2>2, <3>2 DEF Unused, L
    <3>4. Unused(u.fi, u.p, d, w[k].value)
      BY <3>2, <3>3 DEF Unused
    <3> QED
      BY <3>1, <3>4 DEF CharidOK
  <2>4. w[k].type = "CREATE" => CreateOK(u.fi, u.p, d, w, k)
    <3> SUFFICES ASSUME w[k].type = "CREATE" PROVE CreateOK(u.fi, u.p, d, w, k)
      OBVIOUS
    <3>1. CreateOK(t.fi, t.p, d, w, k)
      BY <2>1 DEF ReplyOwn
    <3>2. \A i \in LiveIn(u.fi) : u.p[i].charid = w[k].key =>
            \A n \in DOMAIN w : n > k /\ w[n].ok /\ w[n].type = "QUERY" => w[n].key # u.p[i].accid
      <4> TAKE i \in LiveIn(u.fi)
      <4> HAVE u.p[i].charid = w[k].key
      <4>1. i \in L /\ t.p[i].charid = w[k].key /\ u.p[i] = t.p[i]
        BY <2>2, <3>1 DEF CreateOK
      <4> QED
        BY <3>1, <4>1 DEF CreateOK, L
    <3> QED
      BY <3>1, <3>2 DEF CreateOK
  <2>5. w[k].type \in {"BINDCHARID", "LOAD"} => HavingOK(u.fi, u.p, d, w[k])
    <3> SUFFICES ASSUME w[k].type \in {"BINDCHARID", "LOAD"} PROVE HavingOK(u.fi, u.p, d, w[k])
      OBVIOUS
    <3>1. HavingOK(t.fi, t.p, d, w[k])
      BY <2>1 DEF ReplyOwn
    <3> QED
      BY <2>2, <3>1 DEF HavingOK, L
  <2> QED
    BY <2>1, <2>3, <2>4, <2>5 DEF ReplyOwn
<1> QED
  BY <1>3, <1>4 DEF OwnInv, RepliesOwn

LEMMA JoinedNames ==
    ASSUME NEW t, NEW u, NEW d, NEW w, NEW m, NEW j, JoinedFacts(t, u, w, j), NameInv(t, d, w, m)
    PROVE  NameInv(u, d, w, m)
<1> SUFFICES ASSUME m \cap {"raced", "stale"} = {}
             PROVE  /\ NoTwoReserve(u, w)
                    /\ \A i \in LiveIn(u.fi) : PlayerName(u, d, w, i)
  BY DEF NameInv
<1> DEFINE L == LiveIn(t.fi)
<1>1. LiveIn(u.fi) = L \cup {j} /\ \A k \in L : u.p[k] = t.p[k]
  BY DEF JoinedFacts
<1>2. ~ Reserves(u, w, j) /\ ~ MayReserve(u, w, j) /\ ~ Created(u, w, j)
  BY DEF JoinedFacts, Reserves, MayReserve, Created
<1>3. \A i \in L : /\ Reserves(u, w, i) <=> Reserves(t, w, i)
                   /\ MayReserve(u, w, i) <=> MayReserve(t, w, i)
                   /\ Created(u, w, i) <=> Created(t, w, i)
  <2> TAKE i \in L
  <2>1. u.p[i] = t.p[i]
    BY <1>1
  <2> QED
    BY <2>1 DEF Reserves, MayReserve, Created
<1>4. NoTwoReserve(t, w) /\ \A i \in L : PlayerName(t, d, w, i)
  BY DEF NameInv
<1>5. NoTwoReserve(u, w)
  <2> SUFFICES ASSUME NEW i \in LiveIn(u.fi), NEW k \in LiveIn(u.fi), i # k, u.p[i].name = u.p[k].name
               PROVE  ~ (Reserves(u, w, i) /\ Reserves(u, w, k)) /\ ~ (MayReserve(u, w, i) /\ MayReserve(u, w, k))
    BY DEF NoTwoReserve
  <2>1. CASE i \in L /\ k \in L
    <3>1. t.p[i].name = t.p[k].name
      BY <1>1, <2>1
    <3> QED
      BY <1>3, <1>4, <2>1, <3>1 DEF NoTwoReserve
  <2>2. CASE i = j \/ k = j
    BY <1>2, <2>2
  <2> QED
    BY <1>1, <2>1, <2>2
<1>6. ASSUME NEW i \in LiveIn(u.fi) PROVE PlayerName(u, d, w, i)
  <2>1. CASE i = j
    BY <1>2, <2>1 DEF PlayerName
  <2>2. CASE i \in L
    <3>1. u.p[i] = t.p[i] /\ PlayerName(t, d, w, i)
      BY <1>1, <1>4, <2>2
    <3> QED
      BY <1>3, <2>2, <3>1 DEF PlayerName
  <2> QED
    BY <1>1, <1>6, <2>1, <2>2
<1> QED
  BY <1>5, <1>6

LEMMA JoinedKeeps ==
    ASSUME NEW w, NEW v, NEW j, Holds(w, {}), v \in States, v.db = w.db, v.wire = w.wire,
           v.spoilt = w.spoilt, v.mishaps = w.mishaps, v.ph.abort = w.ph.abort, TableInv(v.ph),
           JoinedFacts(w.ph, v.ph, w.wire, j)
    PROVE  /\ Holds(v, {j}) /\ j \in LiveIn(v.ph.fi)
           /\ Quiet(v.ph, v.wire, v.mishaps, j)
<1> DEFINE t == w.ph
           u == v.ph
           o == w.wire
           m == w.mishaps
           L == LiveIn(t.fi)
<1>1. /\ w \in States /\ t \in Worlds /\ w.db \in Databases
      /\ Accords(t, w.db, o, w.spoilt, m) /\ Current(t, o) /\ Waits(t, o, m, {})
  BY DEF Holds, Inv, States
<1>2. /\ LiveIn(u.fi) = L \cup {j} /\ j \notin L /\ \A k \in L : u.p[k] = t.p[k]
      /\ u.p[j].charid = 0 /\ u.p[j].status = "FREE"
      /\ \A k \in DOMAIN o : ~ Comes(o, k, u.p[j].conn)
      /\ v.ph.abort = w.ph.abort
  BY DEF JoinedFacts
<1>3. Typed(u, v.db, v.wire, v.spoilt, v.mishaps)
  BY DEF States, Typed
<1>4. OwnInv(u, w.db, o) /\ NameInv(u, w.db, o, m)
  BY <1>1, JoinedOwn, JoinedNames DEF Accords
<1> HIDE DEF t, u, o, m, L
<1>5. InStep(u, o, m)
  <2> SUFFICES ASSUME "stale" \notin m, NEW i \in LiveIn(u.fi), NEW k \in DOMAIN o, Comes(o, k, u.p[i].conn)
               PROVE  /\ o[k].type = "QUERY" => u.p[i].status = "FREE"
                      /\ u.p[i].status \in {"FREE", "LOADCHAR"} \/ "raced" \notin m =>
                           /\ Expects(u.p[i].status, o[k].type)
                           /\ \A n \in DOMAIN o : Comes(o, n, u.p[i].conn) => n = k
    BY DEF InStep
  <2>1. i \in L /\ u.p[i] = t.p[i]
    BY <1>2
  <2> QED
    BY <1>1, <2>1 DEF Accords, InStep, L
<1>6. DataInv(u, w.db, o, w.spoilt, m)
  <2> SUFFICES ASSUME "stale" \notin m
               PROVE  /\ \A c \in Charids \ w.spoilt : w.db.char[c].name # NoName => w.db.char[c].data = c
                      /\ \A k \in DOMAIN o : o[k].ok /\ o[k].type = "LOAD" /\ o[k].key \notin w.spoilt
                                              /\ o[k].record.name # NoName => o[k].record.data = o[k].key
                      /\ \A i \in LiveIn(u.fi) : u.p[i].charid # 0 /\ u.p[i].charid \notin w.spoilt
                                                  /\ u.p[i].status # "LOADCHAR" => u.p[i].data = u.p[i].charid
    BY DEF DataInv
  <2>1. DataInv(t, w.db, o, w.spoilt, m)
    BY <1>1 DEF Accords
  <2>2. \A i \in LiveIn(u.fi) : u.p[i].charid # 0 => i \in L /\ u.p[i] = t.p[i]
    BY <1>2
  <2> QED
    BY <2>1, <2>2 DEF DataInv, L
<1>7. Current(u, o)
  <2> SUFFICES ASSUME NEW k \in DOMAIN o, ~ o[k].old PROVE \E i \in LiveIn(u.fi) : u.p[i].conn = o[k].conn
    BY DEF Current
  <2>1. PICK i \in L : t.p[i].conn = o[k].conn
    BY <1>1 DEF Current, L
  <2> QED
    BY <1>2, <2>1
<1>8. Waits(u, o, m, {j})
  <2>1. u.abort = t.abort
    BY <1>2 DEF u, t
  <2> SUFFICES ASSUME t.abort = "none", "lost" \notin m, NEW i \in LiveIn(u.fi) \ {j}, u.p[i].status \in DOMAIN Awaits
               PROVE  \E k \in DOMAIN o : /\ o[k].type = Awaits[u.p[i].status] /\ o[k].conn = u.p[i].conn
                                          /\ o[k].key = Key(u.p[i], o[k].type)
    BY <2>1 DEF Waits
  <2>2. i \in L /\ u.p[i] = t.p[i]
    BY <1>2
  <2>3. t.p[i].status \in DOMAIN Awaits
    BY <2>2
  <2> QED
    BY <1>1, <2>2, <2>3 DEF Waits, L
<1>9. Quiet(u, o, m, j)
  BY <1>2 DEF Quiet
<1>10. Inv(u, w.db, o, w.spoilt, m, {j})
  BY <1>3, <1>4, <1>5, <1>6, <1>7, <1>8 DEF Inv, Accords, u, o, m
<1> QED
  BY <1>2, <1>9, <1>10 DEF Holds, u, o, m

-----------------------------------------------------------------------------
\* Requests of clients.

\* The player of a connection is live.
LEMMA PlayerIsLive ==
    ASSUME NEW w, NEW X, Holds(w, X), NEW conn
    PROVE  LET i == _getplayer(w, conn) IN
           /\ i # -1 => i \in LiveIn(w.ph.fi) /\ w.ph.p[i].conn = conn
           /\ i = -1 /\ conn \in Hashes => w.ph.fi.slots[conn] = -1
<1> DEFINE i == _getplayer(w, conn)
           f == w.ph.fi
<1>1. WellFormed(f) /\ f \in FreeidType /\ f.slots \in [Hashes -> Ids \cup {-1}]
  BY DEF Holds, Inv, TableInv, SlotsOK, WellFormed, FreeidType
<1>2. i = IF conn \in Hashes THEN f.slots[conn] ELSE -1
  BY DEF _getplayer, freeid_find
<1>3. ASSUME i # -1 PROVE i \in LiveIn(f) /\ w.ph.p[i].conn = conn
  <2>1. conn \in Hashes /\ f.slots[conn] = i /\ i \in Ids
    BY <1>1, <1>2, <1>3
  <2>2. i \in LiveIn(f)
    BY <2>1 DEF LiveIn
  <2>3. w.ph.p[i].conn \in Hashes /\ f.slots[w.ph.p[i].conn] = i
    BY <2>2 DEF Holds, Inv, TableInv, SlotsOK
  <2>4. f.slots[w.ph.p[i].conn] = f.slots[conn] /\ f.slots[conn] # -1
    BY <1>3, <2>1, <2>3
  <2>5. w.ph.p[i].conn = conn
    BY <1>1, <2>1, <2>3, <2>4 DEF WellFormed
  <2> QED
    BY <2>2, <2>5
<1> QED
  BY <1>2, <1>3

\* What _hashplayeracc leaves of what _allocplayer leaves.
LEMMA AllocatedIs ==
    ASSUME NEW w \in States, NEW conn \in Hashes \cap Conns, NEW accid \in Accounts, TableInv(w.ph),
           w.ph.fi.slots[conn] = -1, ~ freeid_full(w.ph.fi, conn), accid \notin AccidsOf(w.ph.fi, w.ph.p)
    PROVE  LET a == _allocplayer(w, conn)
               j == w.ph.fi.free
               h == _hashplayeracc(a, j, accid)
           IN /\ _getplayer(a, conn) = j /\ a.ph.abort = w.ph.abort
              /\ ~ HashaccFails(a, j) /\ j # -1
              /\ h \in States /\ h.db = w.db /\ h.wire = w.wire
              /\ h.spoilt = w.spoilt /\ h.mishaps = w.mishaps
              /\ Joined(w.ph, h.ph, conn, accid, j)
<1> DEFINE t == w.ph
           j == t.fi.free
           a == _allocplayer(w, conn)
           p == t.p[j]
           h == _hashplayeracc(a, j, accid)
           F == freeid_alloc(t.fi, conn)
           H == hashid_alloc(t.hi2, accid)
           q == [p EXCEPT !.conn = conn, !.times = 0, !.accid = accid]
<1>1. /\ t \in Worlds /\ t.p \in [Ids -> Players] /\ t.fi \in FreeidType /\ t.hi2 \in Indexes(Accounts)
      /\ WellFormed(t.fi) /\ LiveIn(t.fi) = Held(t.fi)
      /\ Indexed(t.hi2, AccidsOf(t.fi, t.p))
  BY LiveIsHeld DEF States, Worlds, TableInv, SlotsOK
<1>2. /\ WellFormed(F) /\ j \in Ids \ LiveIn(t.fi) /\ F.slots = [t.fi.slots EXCEPT ![conn] = j]
  <2>1. LowHeap
    BY WorldAssumption
  <2> QED
    BY <1>1, <2>1, AllocKeepsWellFormed
<1>3. p.accid = 0 /\ p.charid = 0 /\ p.name = "" /\ p.status = "FREE" /\ p \in Players
  BY <1>1, <1>2 DEF TableInv, SlotsOK
<1>4. j # -1 /\ AllocId(t.fi, conn) = j
  BY <1>2, NotAnId DEF AllocId
<1>5. a = [w EXCEPT !.ph.fi = F, !.ph.p[j].conn = conn, !.ph.p[j].times = 0]
  BY <1>3, <1>4 DEF _allocplayer
<1>6. F \in FreeidType /\ F.slots[conn] = j
  BY <1>1, <1>2 DEF WellFormed, FreeidType
<1>7. ~ hashid_full(t.hi2)
  BY <1>1, <1>2, AccountHasRoom
<1>8. H \in Indexes(Accounts)
  BY <1>1, <1>7, HashAlloc
<1>9. q \in Players /\ q.conn = conn /\ q.accid = accid /\ q.times = 0 /\ q.charid = 0 /\ q.name = "" /\ q.status = "FREE"
  <2>1. CreateTimes \in Nat
    BY WorldAssumption
  <2>2. 0 \in 0 .. CreateTimes
    BY <2>1
  <2>3. conn \in Conns \cup {0} /\ accid \in Accounts \cup {0}
    BY ZenonT(40)
  <2> QED
    BY <1>3, <2>2, <2>3 DEF Players
<1> HIDE DEF F, H
<1> DEFINE n == [p EXCEPT !.conn = conn, !.times = 0]
<1>10. /\ a.ph = [t EXCEPT !.fi = F, !.p[j].conn = conn, !.p[j].times = 0]
       /\ a.db = w.db /\ a.wire = w.wire /\ a.spoilt = w.spoilt /\ a.mishaps = w.mishaps
       /\ a \in [ph : {a.ph}, db : {a.db}, wire : {a.wire}, spoilt : {a.spoilt}, mishaps : {a.mishaps}]
  BY <1>5 DEF States
<1>11. n \in Players /\ n.accid = 0
  <2>1. CreateTimes \in Nat
    BY WorldAssumption
  <2>2. 0 \in 0 .. CreateTimes
    BY <2>1
  <2>3. conn \in Conns \cup {0}
    BY ZenonT(40)
  <2> QED
    BY <1>3, <2>2, <2>3 DEF Players
<1>12. [t.p EXCEPT ![j].conn = conn, ![j].times = 0] = [t.p EXCEPT ![j] = n]
  BY <1>1, <1>2
<1> HIDE DEF a, n
<1>13. /\ a.ph.fi = F /\ a.ph.hi2 = t.hi2 /\ a.ph.hi = t.hi /\ a.ph.abort = t.abort
       /\ a.ph.p = [t.p EXCEPT ![j] = n] /\ a.ph.p[j].accid = p.accid
       /\ a.ph \in [fi : {a.ph.fi}, hi : {a.ph.hi}, hi2 : {a.ph.hi2}, p : {a.ph.p}, abort : {a.ph.abort}]
  <2>1. /\ a.ph.fi = F /\ a.ph.hi2 = t.hi2 /\ a.ph.hi = t.hi /\ a.ph.abort = t.abort
        /\ a.ph.p = [t.p EXCEPT ![j].conn = conn, ![j].times = 0]
        /\ a.ph \in [fi : {a.ph.fi}, hi : {a.ph.hi}, hi2 : {a.ph.hi2}, p : {a.ph.p}, abort : {a.ph.abort}]
    BY <1>1, <1>10 DEF Worlds
  <2> QED
    BY <1>1, <1>2, <1>3, <1>11, <1>12, <2>1, ZenonT(40)
<1>14. h = [a EXCEPT !.ph.p[j].accid = accid, !.ph.hi2 = hashid_alloc(@, accid)]
  BY DEF _hashplayeracc
<1>15. /\ h.ph = [a.ph EXCEPT !.p[j].accid = accid, !.hi2 = hashid_alloc(@, accid)]
       /\ h.db = w.db /\ h.wire = w.wire /\ h.spoilt = w.spoilt /\ h.mishaps = w.mishaps
       /\ h \in [ph : {h.ph}, db : {h.db}, wire : {h.wire}, spoilt : {h.spoilt}, mishaps : {h.mishaps}]
  BY <1>10, <1>14
<1> HIDE DEF q, h
<1>16. [t.p EXCEPT ![j] = q] \in [Ids -> Players]
  BY <1>1, <1>9, ZenonT(40)
<1>17. [[t.p EXCEPT ![j] = n] EXCEPT ![j].accid = accid] = [t.p EXCEPT ![j] = q]
  BY <1>1, <1>2, <1>3, <1>11 DEF n, q, Players
<1>18. /\ h.ph.fi = F /\ h.ph.hi2 = H /\ h.ph.hi = t.hi /\ h.ph.abort = t.abort
       /\ h.ph.p = [t.p EXCEPT ![j] = q]
       /\ h.ph \in [fi : {h.ph.fi}, hi : {h.ph.hi}, hi2 : {h.ph.hi2}, p : {h.ph.p}, abort : {h.ph.abort}]
  <2>1. h.ph.p = [a.ph.p EXCEPT ![j].accid = accid]
    BY <1>13, <1>15
  <2>2. h.ph.p = [t.p EXCEPT ![j] = q]
    BY <1>13, <1>17, <2>1
  <2>3. h.ph.hi2 = hashid_alloc(a.ph.hi2, accid)
    BY <1>13, <1>15
  <2>4. h.ph.hi2 = H
    BY <1>13, <2>3 DEF H
  <2> QED
    BY <1>13, <1>15, <2>2, <2>4
<1>19. h.ph \in Worlds
  BY <1>1, <1>6, <1>8, <1>16, <1>18 DEF Worlds
<1>20. h \in States
  BY <1>15, <1>19 DEF States
<1>21. Joined(t, h.ph, conn, accid, j)
  <2>1. h.ph.p[j] = q /\ \A k \in Ids \ {j} : h.ph.p[k] = t.p[k]
    BY <1>1, <1>2, <1>18
  <2> QED
    BY <1>9, <1>18, <2>1 DEF Joined, F, H
<1>22. _getplayer(a, conn) = j
  BY <1>6, <1>13 DEF _getplayer, freeid_find
<1>23. ~ HashaccFails(a, j)
  BY <1>3, <1>7, <1>13 DEF HashaccFails
<1> QED
  BY <1>4, <1>13, <1>15, <1>20, <1>21, <1>22, <1>23 DEF a, h

\* g is w with a new player of the account in the n-th slot.
Joins(w, g, conn, accid, n) ==
    /\ n \in Ids \ LiveIn(w.ph.fi) /\ LiveIn(g.ph.fi) = LiveIn(w.ph.fi) \cup {n} /\ TableInv(g.ph)
    /\ conn \in Hashes /\ w.ph.fi.slots[conn] = -1
    /\ g \in States /\ g.db = w.db /\ g.wire = w.wire /\ g.spoilt = w.spoilt /\ g.mishaps = w.mishaps
    /\ Joined(w.ph, g.ph, conn, accid, n)

LEMMA LoginIs ==
    ASSUME NEW w, Holds(w, {}), w.ph.abort = "none", NEW conn \in Conns, NEW accid \in Accounts, NEW fate
    PROVE  LET i == _getplayer(w, conn)
               n == w.ph.fi.free
               g == _hashplayeracc(_allocplayer(w, conn), n, accid)
               v == _login(w, conn, accid, fate)
           IN \/ i # -1 /\ v = _freeplayer(w, i)
              \/ v = w
              \/ /\ Joins(w, g, conn, accid, n)
                 /\ v = IF fate = "nodb" THEN _freeplayer(g, n) ELSE _db(g, n, "QUERY", fate)
<1> DEFINE i == _getplayer(w, conn)
           a == _allocplayer(w, conn)
           j == _getplayer(a, conn)
           h == _hashplayeracc(a, j, accid)
           n == w.ph.fi.free
           g == _hashplayeracc(a, n, accid)
           v == _login(w, conn, accid, fate)
<1>1. w \in States /\ w.ph \in Worlds /\ TableInv(w.ph)
  BY DEF Holds, Inv, States
<1>2. CASE i # -1
  BY <1>2 DEF _login
<1>3. CASE i = -1 /\ _getplayerbyaccid(w, accid) # -1
  BY <1>3 DEF _login
<1>4. CASE i = -1 /\ _getplayerbyaccid(w, accid) = -1
  <2>1. v = IF a.ph.abort # "none" \/ j = -1 THEN a
            ELSE IF HashaccFails(a, j) THEN _freeplayer(h, j)
            ELSE IF fate = "nodb" THEN _freeplayer(h, j)
            ELSE _db(h, j, "QUERY", fate)
    BY <1>4 DEF _login
  <2>2. accid \notin AccidsOf(w.ph.fi, w.ph.p)
    <3>1. w.ph.hi2 \in Indexes(Accounts) /\ Indexed(w.ph.hi2, AccidsOf(w.ph.fi, w.ph.p))
      BY <1>1 DEF TableInv, Worlds
    <3>2. hashid_find(w.ph.hi2, accid) = -1
      BY <1>4 DEF _getplayerbyaccid
    <3> QED
      BY <3>1, <3>2, PositionOf, NotAnId
  <2>3. CASE freeid_full(w.ph.fi, conn)
    <3>1. a = w
      BY <2>3 DEF _allocplayer, AllocId
    <3>2. j = -1
      BY <1>4, <3>1
    <3> QED
      BY <2>1, <3>1, <3>2
  <2>4. CASE ~ freeid_full(w.ph.fi, conn)
    <3>1. conn \in Hashes \cap Conns /\ w.ph.fi.slots[conn] = -1
      <4>1. conn \in Hashes
        BY <2>4 DEF freeid_full
      <4> QED
        BY <1>4, <4>1, PlayerIsLive
    <3>2. /\ j = n /\ a.ph.abort = w.ph.abort /\ ~ HashaccFails(a, n) /\ n # -1
          /\ g \in States /\ g.db = w.db /\ g.wire = w.wire
          /\ g.spoilt = w.spoilt /\ g.mishaps = w.mishaps
          /\ Joined(w.ph, g.ph, conn, accid, n)
      BY <1>1, <2>2, <2>4, <3>1, AllocatedIs
    <3> HIDE DEF a
    <3>3. v = IF fate = "nodb" THEN _freeplayer(g, n) ELSE _db(g, n, "QUERY", fate)
      BY <2>1, <3>2
    <3> HIDE DEF g, n, v
    <3>4. /\ n \in Ids \ LiveIn(w.ph.fi) /\ LiveIn(g.ph.fi) = LiveIn(w.ph.fi) \cup {n} /\ TableInv(g.ph)
      <4>1. n = w.ph.fi.free
        BY DEF n
      <4>2. Joined(w.ph, g.ph, conn, accid, n) /\ conn \in Hashes /\ w.ph.fi.slots[conn] = -1
        BY <3>1, <3>2
      <4>3. w.ph \in Worlds /\ TableInv(w.ph) /\ accid \notin AccidsOf(w.ph.fi, w.ph.p)
            /\ ~ freeid_full(w.ph.fi, conn)
        BY <1>1, <2>2, <2>4
      <4> HIDE DEF i, j, h
      <4>4. n \in Ids \ LiveIn(w.ph.fi)
        BY <4>1, <4>2, <4>3, JoinedTables
      <4>5. ASSUME NEW u, u = g.ph PROVE LiveIn(u.fi) = LiveIn(w.ph.fi) \cup {n}
        <5>1. Joined(w.ph, u, conn, accid, n)
          BY <4>2, <4>5
        <5> QED
          BY <4>1, <4>2, <4>3, <5>1, JoinedTables
      <4>6. TableInv(g.ph)
        BY <4>1, <4>2, <4>3, JoinedTables
      <4> QED
        BY <4>4, <4>5, <4>6
    <3>5. Joins(w, g, conn, accid, n)
      BY <3>1, <3>2, <3>4 DEF Joins
    <3> QED
      BY <3>3, <3>5 DEF g, n, v, a
  <2> QED
    BY <2>3, <2>4
<1> QED
  BY <1>2, <1>3, <1>4

\* A new player waits for the answer to its first request, and nothing else is on its
\* way to it.
LEMMA JoinsKeeps ==
    ASSUME NEW w, Holds(w, {}), NEW g, NEW conn, NEW accid \in Accounts, NEW n, Joins(w, g, conn, accid, n)
    PROVE  /\ Holds(g, {n}) /\ n \in LiveIn(g.ph.fi) /\ Quiet(g.ph, g.wire, g.mishaps, n)
           /\ g.ph.p[n].charid = 0 /\ g.ph.p[n].status = "FREE"
<1>1. /\ w \in States /\ w.ph \in Worlds /\ TableInv(w.ph) /\ Current(w.ph, w.wire)
  BY DEF Holds, Inv, States
<1>2. JoinedFacts(w.ph, g.ph, w.wire, n)
  <2>1. \A k \in LiveIn(w.ph.fi) : g.ph.p[k] = w.ph.p[k]
    <3>1. LiveIn(w.ph.fi) \subseteq Ids
      BY DEF LiveIn
    <3> QED
      BY <3>1 DEF Joins, Joined
  <2>2. g.ph.p[n].conn = conn /\ g.ph.p[n].charid = 0 /\ g.ph.p[n].status = "FREE"
    BY DEF Joins, Joined
  <2>3. ASSUME NEW k \in DOMAIN w.wire, Comes(w.wire, k, conn) PROVE FALSE
    <3>1. PICK l \in LiveIn(w.ph.fi) : w.ph.p[l].conn = conn
      BY <1>1, <2>3 DEF Current, Comes
    <3>2. w.ph.fi.slots[conn] = l /\ l \in Ids
      BY <1>1, <3>1 DEF TableInv, SlotsOK, LiveIn
    <3> QED
      BY <3>2, NotAnId DEF Joins
  <2>4. LiveIn(g.ph.fi) = LiveIn(w.ph.fi) \cup {n} /\ n \notin LiveIn(w.ph.fi)
    BY DEF Joins
  <2> QED
    BY <2>1, <2>2, <2>3, <2>4 DEF JoinedFacts
<1>3. /\ g \in States /\ g.db = w.db /\ g.wire = w.wire /\ g.spoilt = w.spoilt /\ g.mishaps = w.mishaps
      /\ TableInv(g.ph) /\ g.ph.abort = w.ph.abort /\ n \in Ids \ LiveIn(w.ph.fi)
      /\ LiveIn(g.ph.fi) = LiveIn(w.ph.fi) \cup {n} /\ Joined(w.ph, g.ph, conn, accid, n)
      /\ conn \in Hashes /\ w.ph.fi.slots[conn] = -1
  BY DEF Joins, Joined
<1>4. Holds(g, {n}) /\ n \in LiveIn(g.ph.fi) /\ Quiet(g.ph, g.wire, g.mishaps, n)
  BY <1>1, <1>2, <1>3, JoinedKeeps
<1> QED
  BY <1>3, <1>4 DEF Joined

LEMMA LoginKeeps ==
    ASSUME NEW w, Holds(w, {}), w.ph.abort = "none", NEW conn \in Conns, NEW accid \in Accounts,
           NEW fate \in {"ok"} \cup AllFaults
    PROVE  Holds(_login(w, conn, accid, fate), {})
<1> DEFINE i == _getplayer(w, conn)
           n == w.ph.fi.free
           g == _hashplayeracc(_allocplayer(w, conn), n, accid)
           v == _login(w, conn, accid, fate)
<1>1. \/ i # -1 /\ v = _freeplayer(w, i)
      \/ v = w
      \/ /\ Joins(w, g, conn, accid, n)
         /\ v = IF fate = "nodb" THEN _freeplayer(g, n) ELSE _db(g, n, "QUERY", fate)
  BY LoginIs
<1>2. CASE i # -1 /\ v = _freeplayer(w, i)
  <2>1. i \in LiveIn(w.ph.fi)
    BY <1>2, PlayerIsLive
  <2>2. w \in States
    BY DEF Holds
  <2>3. Holds(w, {i})
    BY <2>2, MoreKeeps
  <2> QED
    BY <1>2, <2>1, <2>3, FreePlayerKeeps
<1>3. CASE /\ Joins(w, g, conn, accid, n)
           /\ v = IF fate = "nodb" THEN _freeplayer(g, n) ELSE _db(g, n, "QUERY", fate)
  <2> HIDE DEF g, n, v
  <2>1. /\ Holds(g, {n}) /\ n \in LiveIn(g.ph.fi) /\ Quiet(g.ph, g.wire, g.mishaps, n)
        /\ g.ph.p[n].charid = 0 /\ g.ph.p[n].status = "FREE"
    BY <1>3, JoinsKeeps
  <2>2. CASE fate = "nodb"
    <3>1. v = _freeplayer(g, n)
      BY <1>3, <2>2
    <3> QED
      BY <2>1, <3>1, FreePlayerKeeps DEF v
  <2>3. CASE fate # "nodb"
    <3>1. v = Sent(g, n, "QUERY", fate)
      BY <1>3, <2>3 DEF _db
    <3>2. MayAsk(g, n, "QUERY")
      BY <2>1, MayQuery
    <3>3. "QUERY" \in PdbTypes \ {"SAVE"}
      BY DEF PdbTypes
    <3> QED
      BY <2>1, <3>1, <3>2, <3>3, SentKeeps DEF v
  <2> QED
    BY <2>2, <2>3
<1>4. CASE v = w
  BY <1>4
<1> QED
  BY <1>1, <1>2, <1>3, <1>4

-----------------------------------------------------------------------------
\* A reply is taken.

\* What an answer says that was the first on the way, o being what is behind it.
ArrivedOwn(t, d, o, i, r) ==
    LET p == t.p[i] IN
    /\ r.type = "QUERY" /\ r.value # 0 => d.user[p.accid] = r.value
    /\ r.type = "CHARID" =>
         /\ Unused(t.fi, t.p, d, r.value)
         /\ \A n \in DOMAIN o : o[n].ok =>
              /\ o[n].type = "CHARID" => o[n].value # r.value
              /\ o[n].type \in {"CREATE", "BINDCHARID", "LOAD"} => o[n].key # r.value
    /\ r.type = "CREATE" =>
         /\ p.charid \in Charids /\ d.char[p.charid].name # NoName /\ \A a \in Accounts : d.user[a] # p.charid
         /\ \A n \in DOMAIN o : o[n].ok =>
              /\ o[n].type = "CREATE" => o[n].key # p.charid
              /\ o[n].type = "QUERY" => o[n].key # p.accid
    /\ r.type \in {"BINDCHARID", "LOAD"} => p.charid \in Charids /\ d.user[p.accid] = p.charid

ArrivedName(t, d, o, i, r) ==
    LET p == t.p[i] IN
    /\ r.type = "CHECKNAME" /\ r.value = 0 =>
         /\ p.name \notin d.names
         /\ \A j \in LiveIn(t.fi) \ {i} : t.p[j].name = p.name => ~ MayReserve(t, o, j)
    /\ r.type = "SAVENAME" =>
         /\ p.name \in d.names /\ \A c \in Charids : d.char[c].name # p.name
         /\ \A j \in LiveIn(t.fi) \ {i} : t.p[j].name = p.name => ~ Reserves(t, o, j)
    /\ r.type = "CREATE" => p.name = d.char[p.charid].name
    /\ r.type = "LOAD" => r.record.name = d.char[p.charid].name

\* w is the state without the answer r, which is for the i-th player.
Arrived(w, i, r) ==
    /\ Holds(w, {i}) /\ i \in LiveIn(w.ph.fi) /\ Quiet(w.ph, w.wire, w.mishaps, i)
    /\ r \in Replies
    /\ "stale" \notin w.mishaps =>
         /\ r.type = "QUERY" => w.ph.p[i].status = "FREE"
         /\ w.ph.p[i].status \in {"FREE", "LOADCHAR"} \/ "raced" \notin w.mishaps =>
              Expects(w.ph.p[i].status, r.type)
         /\ r.ok /\ r.type = "LOAD" /\ w.ph.p[i].charid \notin w.spoilt /\ r.record.name # NoName =>
              r.record.data = w.ph.p[i].charid
    /\ r.ok => ArrivedOwn(w.ph, w.db, w.wire, i, r)
    /\ r.ok /\ w.mishaps \cap {"raced", "stale"} = {} => ArrivedName(w.ph, w.db, w.wire, i, r)

LEMMA TailIs ==
    ASSUME NEW w \in Seq(Replies), w # <<>>
    PROVE  /\ Tail(w) \in Seq(Replies) /\ 1 \in DOMAIN w /\ Head(w) = w[1] /\ w[1] \in Replies
           /\ \A k \in DOMAIN Tail(w) : Tail(w)[k] = w[k + 1] /\ k + 1 \in DOMAIN w /\ k + 1 # 1 /\ k + 1 > 1
<1>1. DOMAIN w = 1 .. Len(w) /\ Len(w) \in Nat /\ \A k \in DOMAIN w : w[k] \in Replies
  BY WireIs
<1>2. /\ Tail(w) \in Seq(Replies) /\ Len(Tail(w)) = Len(w) - 1 /\ Head(w) = w[1]
      /\ \A k \in 1 .. Len(Tail(w)) : Tail(w)[k] = w[k + 1]
  BY HeadTailProperties
<1>3. DOMAIN Tail(w) = 1 .. Len(w) - 1
  BY <1>2, LenProperties
<1>4. Len(w) # 0
  BY EmptySeq
<1> QED
  BY <1>1, <1>2, <1>3, <1>4

LEMMA OwnArrives ==
    ASSUME NEW t, NEW d, NEW w \in Seq(Replies), w # <<>>, NEW i \in LiveIn(t.fi), SlotsOK(t.fi, t.p),
           OwnInv(t, d, w), Head(w).ok, Head(w).key = Key(t.p[i], Head(w).type)
    PROVE  ArrivedOwn(t, d, Tail(w), i, Head(w))
<1> DEFINE r == Head(w)
           o == Tail(w)
           p == t.p[i]
<1>1. /\ 1 \in DOMAIN w /\ r = w[1] /\ r.ok /\ r.key = Key(p, r.type)
      /\ \A k \in DOMAIN o : o[k] = w[k + 1] /\ k + 1 \in DOMAIN w /\ k + 1 # 1 /\ k + 1 > 1
  BY TailIs
<1>2. ReplyOwn(t.fi, t.p, d, w, 1)
  BY <1>1 DEF OwnInv, RepliesOwn
<1>3. /\ r.type = "QUERY" => r.key = p.accid
      /\ r.type \in {"CREATE", "BINDCHARID", "LOAD"} => r.key = p.charid
  BY <1>1 DEF Key
<1> HIDE DEF r, o, p
<1>4. r.type = "QUERY" /\ r.value # 0 => d.user[p.accid] = r.value
  BY <1>1, <1>2, <1>3 DEF ReplyOwn, QueryOK
<1>5. ASSUME r.type = "CHARID"
      PROVE  /\ Unused(t.fi, t.p, d, r.value)
             /\ \A n \in DOMAIN o : o[n].ok =>
                  /\ o[n].type = "CHARID" => o[n].value # r.value
                  /\ o[n].type \in {"CREATE", "BINDCHARID", "LOAD"} => o[n].key # r.value
  <2>1. CharidOK(t.fi, t.p, d, w, 1)
    BY <1>1, <1>2, <1>5 DEF ReplyOwn
  <2> QED
    BY <1>1, <2>1 DEF CharidOK
<1>6. ASSUME r.type = "CREATE"
      PROVE  /\ p.charid \in Charids /\ d.char[p.charid].name # NoName
             /\ \A a \in Accounts : d.user[a] # p.charid
             /\ \A n \in DOMAIN o : o[n].ok =>
                  /\ o[n].type = "CREATE" => o[n].key # p.charid
                  /\ o[n].type = "QUERY" => o[n].key # p.accid
  <2>1. CreateOK(t.fi, t.p, d, w, 1) /\ w[1].key = p.charid
    BY <1>1, <1>2, <1>3, <1>6 DEF ReplyOwn
  <2>2. \A n \in DOMAIN w : n > 1 /\ w[n].ok /\ w[n].type = "QUERY" => w[n].key # p.accid
    BY <2>1 DEF CreateOK, p
  <2>3. \A n \in DOMAIN w : w[n].ok /\ w[n].type = "CREATE" /\ w[n].key = p.charid => n = 1
    BY <2>1 DEF CreateOK
  <2>4. p.charid \in Charids /\ d.char[p.charid].name # NoName /\ \A a \in Accounts : d.user[a] # p.charid
    BY <2>1 DEF CreateOK
  <2> QED
    BY <1>1, <2>2, <2>3, <2>4
<1>7. ASSUME r.type \in {"BINDCHARID", "LOAD"}
      PROVE  p.charid \in Charids /\ d.user[p.accid] = p.charid
  <2>1. HavingOK(t.fi, t.p, d, w[1]) /\ w[1].key = p.charid
    BY <1>1, <1>2, <1>3, <1>7 DEF ReplyOwn
  <2> QED
    BY <2>1 DEF HavingOK, p
<1> QED
  BY <1>4, <1>5, <1>6, <1>7 DEF ArrivedOwn, r, o, p

LEMMA NameArrives ==
    ASSUME NEW t, NEW d, NEW w \in Seq(Replies), w # <<>>, NEW m, NEW i \in LiveIn(t.fi), NameInv(t, d, w, m),
           m \cap {"raced", "stale"} = {}, Head(w).ok, Comes(w, 1, t.p[i].conn),
           Head(w).key = Key(t.p[i], Head(w).type)
    PROVE  ArrivedName(t, d, Tail(w), i, Head(w))
<1> DEFINE r == Head(w)
           o == Tail(w)
           p == t.p[i]
<1>1. /\ 1 \in DOMAIN w /\ r = w[1] /\ r.ok /\ r.key = Key(p, r.type)
      /\ \A k \in DOMAIN o : o[k] = w[k + 1] /\ k + 1 \in DOMAIN w
  BY TailIs
<1>2. LoadedNames(d, w) /\ NoTwoReserve(t, w) /\ PlayerName(t, d, w, i)
  BY DEF NameInv
<1>3. \A j \in LiveIn(t.fi) : /\ MayReserve(t, o, j) => MayReserve(t, w, j)
                              /\ Reserves(t, o, j) => Reserves(t, w, j)
  <2> TAKE j \in LiveIn(t.fi)
  <2>1. \A k \in DOMAIN o : Comes(o, k, t.p[j].conn) => Comes(w, k + 1, t.p[j].conn)
    BY <1>1 DEF Comes
  <2>2. MayReserve(t, o, j) => MayReserve(t, w, j)
    BY <1>1, <2>1 DEF MayReserve
  <2>3. Reserves(t, o, j) => Reserves(t, w, j)
    BY <1>1, <2>1 DEF Reserves
  <2> QED
    BY <2>2, <2>3
<1>4. ASSUME r.type = "CHECKNAME", r.value = 0
      PROVE  /\ p.name \notin d.names
             /\ \A j \in LiveIn(t.fi) \ {i} : t.p[j].name = p.name => ~ MayReserve(t, o, j)
  <2>1. MayReserve(t, w, i)
    BY <1>1, <1>4 DEF MayReserve
  <2> QED
    BY <1>2, <1>3, <2>1 DEF PlayerName, NoTwoReserve
<1>5. ASSUME r.type = "SAVENAME"
      PROVE  /\ p.name \in d.names /\ \A c \in Charids : d.char[c].name # p.name
             /\ \A j \in LiveIn(t.fi) \ {i} : t.p[j].name = p.name => ~ Reserves(t, o, j)
  <2>1. Reserves(t, w, i)
    BY <1>1, <1>5 DEF Reserves
  <2> QED
    BY <1>2, <1>3, <2>1 DEF PlayerName, NoTwoReserve
<1>6. ASSUME r.type = "CREATE" PROVE p.name = d.char[p.charid].name
  <2>1. Created(t, w, i)
    BY <1>1, <1>6 DEF Created
  <2> QED
    BY <1>2, <2>1 DEF PlayerName
<1>7. ASSUME r.type = "LOAD" PROVE r.record.name = d.char[p.charid].name
  <2>1. r.key = p.charid
    BY <1>1, <1>7 DEF Key
  <2> QED
    BY <1>1, <1>2, <1>7, <2>1 DEF LoadedNames
<1> HIDE DEF r, o, p
<1> QED
  BY <1>4, <1>5, <1>6, <1>7 DEF ArrivedName, r, o, p

\* The state behind a reply that has a player.
Opened(w) == Taken(IF Head(w.wire).old THEN Note(w, "stale") ELSE w)

LEMMA TakenIs ==
    ASSUME NEW w \in States, w.wire # <<>>
    PROVE  /\ Taken(w) \in States /\ Taken(w).ph = w.ph /\ Taken(w).db = w.db /\ Taken(w).wire = Tail(w.wire)
           /\ Taken(w).spoilt = w.spoilt /\ Taken(w).mishaps = w.mishaps
           /\ Opened(w) \in States /\ Opened(w).ph = w.ph /\ Opened(w).db = w.db /\ Opened(w).wire = Tail(w.wire)
           /\ Opened(w).spoilt = w.spoilt
           /\ Opened(w).mishaps = IF Head(w.wire).old THEN w.mishaps \cup {"stale"} ELSE w.mishaps
<1> DEFINE n == IF Head(w.wire).old THEN Note(w, "stale") ELSE w
<1>1. /\ n \in States /\ n.ph = w.ph /\ n.db = w.db /\ n.wire = w.wire /\ n.spoilt = w.spoilt
      /\ n.mishaps = IF Head(w.wire).old THEN w.mishaps \cup {"stale"} ELSE w.mishaps
  BY DEF Note, States
<1>2. Tail(w.wire) \in Seq(Replies)
  BY TailIs DEF States
<1> HIDE DEF n
<1>3. ASSUME NEW x \in States, x.wire = w.wire
      PROVE  /\ Taken(x) \in States /\ Taken(x).ph = x.ph /\ Taken(x).db = x.db /\ Taken(x).wire = Tail(w.wire)
             /\ Taken(x).spoilt = x.spoilt /\ Taken(x).mishaps = x.mishaps
  BY <1>2, <1>3 DEF Taken, States
<1>4. Opened(w) = Taken(n)
  BY DEF Opened, n
<1> QED
  BY <1>1, <1>3, <1>4

\* A reply whose player is gone changes nothing but the wire.
LEMMA DropKeeps ==
    ASSUME NEW w, Holds(w, {}), w.wire # <<>>, Addressee(w, Head(w.wire)) = -1
    PROVE  Holds(Taken(w), {})
<1> DEFINE r == Head(w.wire)
<1>1. /\ w \in States /\ Inv(w.ph, w.db, w.wire, w.spoilt, w.mishaps, {})
      /\ w.mishaps \subseteq {"lost", "stale", "raced"}
  BY DEF Holds, States
<1>2. ASSUME NEW i \in LiveIn(w.ph.fi), r.conn = w.ph.p[i].conn, r.key = Key(w.ph.p[i], r.type)
      PROVE  FALSE
  <2>1. i \in Ids /\ r.conn \in Hashes /\ w.ph.fi.slots[r.conn] = i
    BY <1>1, <1>2 DEF Inv, TableInv, SlotsOK, LiveIn
  <2>2. _getplayer(w, r.conn) = i /\ i # -1
    BY <2>1, NotAnId DEF _getplayer, freeid_find
  <2>3. Addressee(w, r) = i
    BY <1>2, <2>2 DEF Addressee
  <2> QED
    BY <2>2, <2>3
<1>3. \A i \in LiveIn(w.ph.fi) \ {} :
        Head(w.wire).conn # w.ph.p[i].conn \/ Head(w.wire).key # Key(w.ph.p[i], Head(w.wire).type)
  BY <1>2
<1>4. Inv(w.ph, w.db, Tail(w.wire), w.spoilt, w.mishaps, {})
  BY <1>1, <1>3, TakeKeeps
<1> QED
  BY <1>1, <1>4, TakenIs DEF Holds

LEMMA ReplyArrives ==
    ASSUME NEW w, Holds(w, {}), w.wire # <<>>, NEW i, i = Addressee(w, Head(w.wire)), i # -1
    PROVE  Arrived(Opened(w), i, Head(w.wire))
<1> DEFINE r == Head(w.wire)
           v == Opened(w)
           t == w.ph
           o == w.wire
           m == v.mishaps
<1>1. /\ w \in States /\ Inv(t, w.db, o, w.spoilt, w.mishaps, {}) /\ o \in Seq(Replies)
      /\ w.mishaps \subseteq {"lost", "stale", "raced"} /\ SlotsOK(t.fi, t.p)
  BY DEF Holds, Inv, States, TableInv
<1>2. i = _getplayer(w, r.conn) /\ Key(t.p[i], r.type) = r.key
  BY DEF Addressee
<1>3. i \in LiveIn(t.fi) /\ t.p[i].conn = r.conn
  BY <1>2, PlayerIsLive
<1>4. /\ v \in States /\ v.ph = t /\ v.db = w.db /\ v.wire = Tail(o) /\ v.spoilt = w.spoilt
      /\ m = IF r.old THEN w.mishaps \cup {"stale"} ELSE w.mishaps
  BY <1>1, TakenIs
<1>5. w.mishaps \subseteq m /\ m \subseteq {"lost", "stale", "raced"}
  BY <1>1, <1>4
<1> HIDE DEF v
<1>6. Holds(v, {i})
  <2>1. \A j \in LiveIn(t.fi) \ {i} : Head(o).conn # t.p[j].conn \/ Head(o).key # Key(t.p[j], Head(o).type)
    BY <1>1, <1>3, Apart
  <2>2. Inv(t, w.db, Tail(o), w.spoilt, m, {i})
    BY <1>1, <1>5, <2>1, TakeKeeps
  <2> QED
    BY <1>4, <2>2 DEF Holds
<1>7. /\ 1 \in DOMAIN o /\ r = o[1] /\ r \in Replies
      /\ \A k \in DOMAIN Tail(o) : Tail(o)[k] = o[k + 1] /\ k + 1 \in DOMAIN o /\ k + 1 # 1
  BY <1>1, TailIs
<1>8. ASSUME "stale" \notin m
      PROVE  m = w.mishaps /\ Comes(o, 1, t.p[i].conn) /\ ~ r.old
  BY <1>3, <1>4, <1>7, <1>8 DEF Comes
<1>9. ASSUME "stale" \notin m
      PROVE  /\ r.type = "QUERY" => t.p[i].status = "FREE"
             /\ t.p[i].status \in {"FREE", "LOADCHAR"} \/ "raced" \notin m =>
                  /\ Expects(t.p[i].status, r.type)
                  /\ \A n \in DOMAIN o : Comes(o, n, t.p[i].conn) => n = 1
  <2>1. InStep(t, o, m)
    BY <1>1, <1>8, <1>9 DEF Inv, Accords
  <2> QED
    BY <1>3, <1>7, <1>8, <1>9, <2>1 DEF InStep
<1>10. Quiet(t, Tail(o), m, i)
  <2> SUFFICES ASSUME "stale" \notin m, NEW k \in DOMAIN Tail(o), Comes(Tail(o), k, t.p[i].conn)
               PROVE  Tail(o)[k].type # "QUERY" /\ t.p[i].status \notin {"FREE", "LOADCHAR"} /\ "raced" \in m
    BY DEF Quiet
  <2>1. k + 1 \in DOMAIN o /\ Comes(o, k + 1, t.p[i].conn) /\ k + 1 # 1 /\ Tail(o)[k] = o[k + 1]
    BY <1>7 DEF Comes
  <2>2. t.p[i].status \notin {"FREE", "LOADCHAR"} /\ "raced" \in m
    BY <1>9, <2>1
  <2>3. InStep(t, o, m)
    BY <1>1, <1>8 DEF Inv, Accords
  <2>4. Tail(o)[k].type = "QUERY" => t.p[i].status = "FREE"
    BY <1>3, <2>1, <2>3 DEF InStep
  <2> QED
    BY <2>2, <2>4
<1>11. ASSUME "stale" \notin m, r.ok, r.type = "LOAD", t.p[i].charid \notin w.spoilt, r.record.name # NoName
       PROVE  r.record.data = t.p[i].charid
  <2>1. DataInv(t, w.db, o, w.spoilt, m)
    BY <1>1, <1>8, <1>11 DEF Inv, Accords
  <2>2. r.key = t.p[i].charid
    BY <1>2, <1>11 DEF Key
  <2> QED
    BY <1>7, <1>11, <2>1, <2>2 DEF DataInv
<1>12. r.ok => ArrivedOwn(t, w.db, Tail(o), i, r)
  <2>1. OwnInv(t, w.db, o)
    BY <1>1 DEF Inv, Accords
  <2> QED
    BY <1>1, <1>2, <1>3, <2>1, OwnArrives
<1>13. r.ok /\ m \cap {"raced", "stale"} = {} => ArrivedName(t, w.db, Tail(o), i, r)
  <2> SUFFICES ASSUME r.ok, m \cap {"raced", "stale"} = {} PROVE ArrivedName(t, w.db, Tail(o), i, r)
    OBVIOUS
  <2>1. NameInv(t, w.db, o, m) /\ Comes(o, 1, t.p[i].conn)
    BY <1>1, <1>8 DEF Inv, Accords
  <2> QED
    BY <1>1, <1>2, <1>3, <2>1, NameArrives
<1> HIDE DEF r, t, o, m
<1>14. Arrived(v, i, r)
  BY <1>3, <1>4, <1>6, <1>7, <1>9, <1>10, <1>11, <1>12, <1>13 DEF Arrived, m, t, o
<1> QED
  BY <1>14 DEF v, r

-----------------------------------------------------------------------------
\* The player it is for moves on.

\* v is w with q in the i-th slot, H as the index of the characters and S as those
\* that are spoilt.
Updated(w, v, i, q, H, S) ==
    /\ v \in States /\ v.db = w.db /\ v.wire = w.wire /\ v.mishaps = w.mishaps /\ v.spoilt = S
    /\ v.ph.fi = w.ph.fi /\ v.ph.hi2 = w.ph.hi2 /\ v.ph.abort = w.ph.abort /\ v.ph.hi = H
    /\ v.ph.p[i] = q /\ \A j \in Ids \ {i} : v.ph.p[j] = w.ph.p[j]

LEMMA UpdateIs ==
    ASSUME NEW w \in States, NEW i \in Ids, NEW q \in Players, NEW v, v = [w EXCEPT !.ph.p[i] = q]
    PROVE  Updated(w, v, i, q, w.ph.hi, w.spoilt)
<1>1. w.ph \in Worlds /\ w.ph.p \in [Ids -> Players]
  BY DEF States, Worlds
<1>2. /\ v.ph = [w.ph EXCEPT !.p[i] = q] /\ v.db = w.db /\ v.wire = w.wire /\ v.mishaps = w.mishaps
      /\ v.spoilt = w.spoilt
      /\ v \in [ph : {v.ph}, db : {v.db}, wire : {v.wire}, spoilt : {v.spoilt}, mishaps : {v.mishaps}]
  BY DEF States
<1>3. /\ v.ph.fi = w.ph.fi /\ v.ph.hi2 = w.ph.hi2 /\ v.ph.abort = w.ph.abort /\ v.ph.hi = w.ph.hi
      /\ v.ph.p = [w.ph.p EXCEPT ![i] = q]
      /\ v.ph \in [fi : {v.ph.fi}, hi : {v.ph.hi}, hi2 : {v.ph.hi2}, p : {v.ph.p}, abort : {v.ph.abort}]
  BY <1>1, <1>2 DEF Worlds
<1>4. v.ph.p \in [Ids -> Players] /\ v.ph.p[i] = q /\ \A j \in Ids \ {i} : v.ph.p[j] = w.ph.p[j]
  BY <1>1, <1>3
<1>5. v.ph \in Worlds
  BY <1>1, <1>3, <1>4 DEF Worlds
<1>6. v \in States
  BY <1>2, <1>5 DEF States
<1> QED
  BY <1>2, <1>3, <1>4, <1>6 DEF Updated

\* The name goes with the status.
NameFits(t, d, o, i, q) ==
    /\ q.status = "CHARUNIQUEID" =>
         /\ q.name \in d.names /\ \A c \in Charids : d.char[c].name # q.name
         /\ \A j \in LiveIn(t.fi) \ {i} : t.p[j].name = q.name => ~ Reserves(t, o, j)
    /\ q.status \in {"BINDCHARID", "GAME"} => q.name = d.char[q.charid].name

\* q is the i-th player with the same ids, moved on.
Follows(w, i, q) ==
    LET p == w.ph.p[i] IN
    /\ q \in Players /\ q.conn = p.conn /\ q.accid = p.accid /\ q.charid = p.charid
    /\ q.times < CreateTimes /\ q.status \notin {"FREE", "LOADCHAR"}
    /\ q.status = "GAME" => p.charid # 0 /\ w.db.user[p.accid] = p.charid
    /\ "stale" \notin w.mishaps /\ p.charid # 0 /\ p.charid \notin w.spoilt => q.data = p.charid
    /\ w.mishaps \cap {"raced", "stale"} = {} => NameFits(w.ph, w.db, w.wire, i, q)

LEMMA FollowsIsMove ==
    ASSUME NEW w, NEW i \in LiveIn(w.ph.fi), NEW q, NEW v, Holds(w, {i}), Follows(w, i, q),
           Updated(w, v, i, q, w.ph.hi, w.spoilt)
    PROVE  MayMove(w, v, i)
<1>1. /\ v \in States /\ v.db = w.db /\ v.wire = w.wire /\ v.mishaps = w.mishaps /\ v.spoilt = w.spoilt
      /\ v.ph.fi = w.ph.fi /\ v.ph.hi2 = w.ph.hi2 /\ v.ph.abort = w.ph.abort /\ v.ph.hi = w.ph.hi
      /\ v.ph.p[i] = q /\ \A j \in Ids \ {i} : v.ph.p[j] = w.ph.p[j]
  BY DEF Updated
<1>2. Moved(w.ph, v.ph, i)
  BY <1>1 DEF Moved, Follows
<1>3. MovedOwns(w.ph, v.ph, w.db, w.wire, i)
  BY <1>1 DEF MovedOwns, Follows
<1>4. w.mishaps \cap {"raced", "stale"} = {} => MovedNames(w.ph, v.ph, w.db, w.wire, i)
  BY <1>1 DEF MovedNames, NameFits, Follows
<1>5. "stale" \notin w.mishaps =>
        /\ v.ph.p[i].status \in {"FREE", "LOADCHAR"} => w.ph.p[i].status \in {"FREE", "LOADCHAR"}
        /\ v.ph.p[i].charid # 0 /\ v.ph.p[i].charid \notin v.spoilt /\ v.ph.p[i].status # "LOADCHAR" =>
             v.ph.p[i].data = v.ph.p[i].charid
  BY <1>1 DEF Follows
<1> QED
  BY <1>1, <1>2, <1>3, <1>4, <1>5 DEF MayMove

\* It moves on, and need not be answered; it asks for something, and is.
LEMMA MovesOn ==
    ASSUME NEW w, NEW i \in LiveIn(w.ph.fi), NEW q, Holds(w, {i}), Quiet(w.ph, w.wire, w.mishaps, i),
           Follows(w, i, q)
    PROVE  LET v == [w EXCEPT !.ph.p[i] = q] IN
           /\ Updated(w, v, i, q, w.ph.hi, w.spoilt) /\ LiveIn(v.ph.fi) = LiveIn(w.ph.fi)
           /\ Holds(v, {i}) /\ Quiet(v.ph, v.wire, v.mishaps, i)
           /\ q.status \notin DOMAIN Awaits => Holds(v, {})
<1> DEFINE v == [w EXCEPT !.ph.p[i] = q]
<1>1. w \in States /\ i \in Ids /\ q \in Players
  BY DEF Holds, LiveIn, Follows
<1>2. Updated(w, v, i, q, w.ph.hi, w.spoilt)
  BY <1>1, UpdateIs
<1> HIDE DEF v
<1>3. MayMove(w, v, i)
  BY <1>2, FollowsIsMove
<1>4. v.ph.p[i] = q
  BY <1>2 DEF Updated
<1>5. /\ Holds(v, {i}) /\ LiveIn(v.ph.fi) = LiveIn(w.ph.fi)
      /\ Quiet(v.ph, v.wire, v.mishaps, i)
      /\ v.ph.p[i].status \notin DOMAIN Awaits => Holds(v, {})
  BY <1>3, MoveKeeps
<1> QED
  BY <1>2, <1>4, <1>5 DEF v

\* With a character that is nobody's player's.
LEMMA HashedIs ==
    ASSUME NEW w \in States, TableInv(w.ph), NEW i \in LiveIn(w.ph.fi), ~ HashcharFails(w, i),
           NEW c \in Charids, \A j \in LiveIn(w.ph.fi) : w.ph.p[j].charid # c,
           NEW s \in Statuses \ {"LOGIN"}
    PROVE  /\ Indexed(hashid_alloc(w.ph.hi, c), CharidsOf(w.ph.fi, w.ph.p) \cup {c})
           /\ Updated(w, Status(_hashplayer(w, i, c), i, s), i,
                      [w.ph.p[i] EXCEPT !.charid = c, !.status = s], hashid_alloc(w.ph.hi, c), w.spoilt)
<1> DEFINE p == w.ph.p[i]
           H == hashid_alloc(w.ph.hi, c)
           a == _hashplayer(w, i, c)
           n == [p EXCEPT !.charid = c]
           q == [p EXCEPT !.charid = c, !.status = s]
           v == Status(a, i, s)
<1>1. w.ph \in Worlds /\ w.ph.p \in [Ids -> Players] /\ i \in Ids /\ p \in Players /\ w.ph.hi \in Indexes(Charids)
  BY DEF States, Worlds, LiveIn
<1>2. H \in Indexes(Charids) /\ Indexed(H, CharidsOf(w.ph.fi, w.ph.p) \cup {c})
  <2>1. c \notin CharidsOf(w.ph.fi, w.ph.p)
    BY DEF CharidsOf
  <2>2. ~ hashid_full(w.ph.hi) /\ Indexed(w.ph.hi, CharidsOf(w.ph.fi, w.ph.p))
    BY DEF HashcharFails, TableInv
  <2> QED
    BY <1>1, <2>1, <2>2, HashAlloc
<1>3. n \in Players /\ q \in Players /\ q = [n EXCEPT !.status = s]
  BY <1>1 DEF Players
<1>4. /\ a.ph = [w.ph EXCEPT !.p[i].charid = c, !.hi = hashid_alloc(@, c)] /\ a.db = w.db /\ a.wire = w.wire
      /\ a.mishaps = w.mishaps /\ a.spoilt = w.spoilt
      /\ a \in [ph : {a.ph}, db : {a.db}, wire : {a.wire}, spoilt : {a.spoilt}, mishaps : {a.mishaps}]
  BY DEF States, _hashplayer
<1>5. [w.ph.p EXCEPT ![i].charid = c] = [w.ph.p EXCEPT ![i] = n]
  OBVIOUS
<1> HIDE DEF a, n
<1>6. /\ a.ph.fi = w.ph.fi /\ a.ph.hi2 = w.ph.hi2 /\ a.ph.abort = w.ph.abort /\ a.ph.hi = hashid_alloc(w.ph.hi, c)
      /\ a.ph.p = [w.ph.p EXCEPT ![i].charid = c]
      /\ a.ph \in [fi : {a.ph.fi}, hi : {a.ph.hi}, hi2 : {a.ph.hi2}, p : {a.ph.p}, abort : {a.ph.abort}]
  BY <1>1, <1>4 DEF Worlds
<1>7. a.ph.p \in [Ids -> Players] /\ a.ph.p[i] = n /\ \A j \in Ids \ {i} : a.ph.p[j] = w.ph.p[j]
  BY <1>1, <1>3, <1>5, <1>6
<1> HIDE DEF H
<1>8. a.ph.hi = H
  BY <1>6 DEF H
<1>9. a.ph \in Worlds
  BY <1>1, <1>2, <1>6, <1>7, <1>8 DEF Worlds
<1>10. a \in States
  BY <1>4, <1>9 DEF States
<1>11. v = [a EXCEPT !.ph.p[i] = [a.ph.p[i] EXCEPT !.status = s]]
  BY DEF Status
<1> HIDE DEF q
<1>12. [a.ph.p[i] EXCEPT !.status = s] = q
  BY <1>3, <1>7
<1>13. v = [a EXCEPT !.ph.p[i] = q]
  BY <1>11, <1>12
<1> HIDE DEF v
<1>14. Updated(a, v, i, q, a.ph.hi, a.spoilt)
  BY <1>1, <1>3, <1>10, <1>13, UpdateIs
<1>15. Updated(w, v, i, q, H, w.spoilt)
  BY <1>4, <1>6, <1>7, <1>8, <1>14 DEF Updated
<1> QED
  BY <1>2, <1>15 DEF v, q, H, a

\* What the character has to be for that: its account's or nobody's, and not what a
\* reply on its way is about, but to its account.
MayHave(w, i, c) ==
    /\ c \in Charids /\ c <= w.db.lastid
    /\ \A j \in LiveIn(w.ph.fi) : w.ph.p[j].charid # c
    /\ \A b \in Accounts : w.db.user[b] = c => b = w.ph.p[i].accid
    /\ \A k \in DOMAIN w.wire : w.wire[k].ok =>
         /\ w.wire[k].type = "CHARID" => w.wire[k].value # c
         /\ w.wire[k].type = "CREATE" => w.wire[k].key # c
         /\ w.wire[k].type \in {"BINDCHARID", "LOAD"} /\ w.wire[k].key = c => w.db.user[w.ph.p[i].accid] = c

LEMMA HavingIsMove ==
    ASSUME NEW w, NEW i \in LiveIn(w.ph.fi), NEW q, NEW v, NEW c, NEW S, Holds(w, {i}), MayHave(w, i, c),
           w.ph.p[i].charid = 0, q.conn = w.ph.p[i].conn, q.accid = w.ph.p[i].accid,
           q.times = w.ph.p[i].times, q.charid = c, q.status \in {"LOADCHAR", "CREATECHAR"},
           Indexed(hashid_alloc(w.ph.hi, c), CharidsOf(w.ph.fi, w.ph.p) \cup {c}),
           Updated(w, v, i, q, hashid_alloc(w.ph.hi, c), S), w.spoilt \subseteq S,
           "stale" \notin w.mishaps =>
             /\ q.status = "LOADCHAR" => w.ph.p[i].status \in {"FREE", "LOADCHAR"}
             /\ q.status = "CREATECHAR" /\ c \notin S => q.data = c
    PROVE  MayMove(w, v, i)
<1>1. /\ v \in States /\ v.db = w.db /\ v.wire = w.wire /\ v.mishaps = w.mishaps /\ v.spoilt = S
      /\ v.ph.fi = w.ph.fi /\ v.ph.hi2 = w.ph.hi2 /\ v.ph.abort = w.ph.abort /\ v.ph.hi = hashid_alloc(w.ph.hi, c)
      /\ v.ph.p[i] = q /\ \A j \in Ids \ {i} : v.ph.p[j] = w.ph.p[j]
  BY DEF Updated
<1>2. c # 0 /\ w.ph.p[i].times < CreateTimes
  BY DEF MayHave, Charids, Holds, Inv, TableInv, SlotsOK
<1>3. Moved(w.ph, v.ph, i)
  <2>1. \A j \in LiveIn(w.ph.fi) : w.ph.p[j].charid # v.ph.p[i].charid
    BY <1>1 DEF MayHave
  <2>2. Indexed(v.ph.hi, CharidsOf(w.ph.fi, w.ph.p) \cup {v.ph.p[i].charid})
    BY <1>1
  <2>3. v.ph.p[i].status \notin {"FREE"} /\ v.ph.p[i].charid # 0
    BY <1>1, <1>2
  <2> QED
    BY <1>1, <1>2, <2>1, <2>2, <2>3 DEF Moved
<1>4. MovedOwns(w.ph, v.ph, w.db, w.wire, i)
  BY <1>1 DEF MovedOwns, MayHave
<1>5. w.mishaps \cap {"raced", "stale"} = {} => MovedNames(w.ph, v.ph, w.db, w.wire, i)
  BY <1>1 DEF MovedNames
<1>6. "stale" \notin w.mishaps =>
        /\ v.ph.p[i].status \in {"FREE", "LOADCHAR"} => w.ph.p[i].status \in {"FREE", "LOADCHAR"}
        /\ v.ph.p[i].charid # 0 /\ v.ph.p[i].charid \notin v.spoilt /\ v.ph.p[i].status # "LOADCHAR" =>
             v.ph.p[i].data = v.ph.p[i].charid
  BY <1>1, SMTT(40)
<1> QED
  BY <1>1, <1>3, <1>4, <1>5, <1>6 DEF MayMove

-----------------------------------------------------------------------------
\* The handlers, reply by reply.

\* What the last lemmas need of a player that is answered.
LEMMA ArrivedIs ==
    ASSUME NEW w, NEW i, NEW r, Arrived(w, i, r)
    PROVE  LET p == w.ph.p[i] IN
           /\ Holds(w, {i}) /\ i \in LiveIn(w.ph.fi) /\ i \in Ids /\ Quiet(w.ph, w.wire, w.mishaps, i)
           /\ w \in States /\ TableInv(w.ph) /\ SlotsOK(w.ph.fi, w.ph.p)
           /\ p \in Players /\ p.times < CreateTimes /\ (p.charid # 0 => p.status # "FREE")
           /\ p.accid \in Accounts /\ r \in Replies
           /\ OwnInv(w.ph, w.db, w.wire) /\ w.db \in Databases
           /\ DataInv(w.ph, w.db, w.wire, w.spoilt, w.mishaps) /\ NameInv(w.ph, w.db, w.wire, w.mishaps)
<1>1. Holds(w, {i}) /\ i \in LiveIn(w.ph.fi) /\ Quiet(w.ph, w.wire, w.mishaps, i) /\ r \in Replies
  BY DEF Arrived
<1>2. w \in States /\ w.ph \in Worlds /\ i \in Ids /\ w.db \in Databases
  BY <1>1 DEF Holds, States, LiveIn
<1>3. TableInv(w.ph) /\ Accords(w.ph, w.db, w.wire, w.spoilt, w.mishaps)
  BY <1>1 DEF Holds, Inv
<1>4. w.ph.p[i] \in Players
  BY <1>2 DEF Worlds
<1> QED
  BY <1>1, <1>2, <1>3, <1>4 DEF TableInv, SlotsOK, Accords

\* The values are the character's when the status does not wait for them.
LEMMA DataIsOwn ==
    ASSUME NEW w, NEW i, NEW r, Arrived(w, i, r), r.type \notin {"LOAD"},
           "stale" \notin w.mishaps, w.ph.p[i].charid # 0, w.ph.p[i].charid \notin w.spoilt
    PROVE  w.ph.p[i].data = w.ph.p[i].charid
<1>1. w.ph.p[i].status # "LOADCHAR"
  BY DEF Arrived, Expects, Awaits
<1> QED
  BY <1>1, ArrivedIs DEF DataInv

LEMMA ErrorKeeps ==
    ASSUME NEW w, NEW i, NEW r, Arrived(w, i, r)
    PROVE  Holds(world_service(w, i, "DBERR"), {}) /\ Holds(world_service(w, i, "WORLDFULL"), {})
<1>1. Holds(_freeplayer(w, i), {})
  BY FreePlayerKeeps DEF Arrived
<1> QED
  BY <1>1 DEF world_service

LEMMA OnQueryKeeps ==
    ASSUME NEW w, NEW i, NEW r, Arrived(w, i, r), r.ok, r.type = "QUERY", NEW fate \in {"ok"} \cup AllFaults
    PROVE  Holds(OnQuery(w, i, r, fate), {})
<1> DEFINE p == w.ph.p[i]
           c == r.value
           v == OnQuery(w, i, r, fate)
<1>1. /\ Holds(w, {i}) /\ i \in LiveIn(w.ph.fi) /\ i \in Ids /\ Quiet(w.ph, w.wire, w.mishaps, i)
      /\ w \in States /\ TableInv(w.ph) /\ SlotsOK(w.ph.fi, w.ph.p)
      /\ p \in Players /\ p.times < CreateTimes /\ (p.charid # 0 => p.status # "FREE")
      /\ p.accid \in Accounts /\ r \in Replies /\ OwnInv(w.ph, w.db, w.wire) /\ w.db \in Databases
  BY ArrivedIs
<1>2. CASE c = 0
  <2> DEFINE q == [p EXCEPT !.status = "WAITCREATECHAR"]
             n == [w EXCEPT !.ph.p[i] = q]
  <2>1. v = n
    BY <1>2 DEF OnQuery, world_service, Status
  <2>2. Follows(w, i, q)
    <3>1. /\ q \in Players /\ q.conn = p.conn /\ q.accid = p.accid /\ q.charid = p.charid
          /\ q.times = p.times /\ q.status = "WAITCREATECHAR" /\ q.data = p.data
      BY <1>1 DEF Players, Statuses
    <3> HIDE DEF q
    <3>2. "stale" \notin w.mishaps /\ p.charid # 0 /\ p.charid \notin w.spoilt => q.data = p.charid
      BY <3>1, DataIsOwn
    <3> QED
      BY <1>1, <3>1, <3>2 DEF Follows, NameFits
  <2>3. q.status \notin DOMAIN Awaits
    <3>1. q.status = "WAITCREATECHAR"
      BY <1>1 DEF Players
    <3> QED
      BY <3>1 DEF Awaits
  <2> HIDE DEF q
  <2>4. Holds(n, {})
    BY <1>1, <2>2, <2>3, MovesOn
  <2> QED
    BY <2>1, <2>4 DEF v
<1>3. CASE c # 0 /\ HashcharFails(w, i)
  <2>1. v = world_service(w, i, "WORLDFULL")
    BY <1>3 DEF OnQuery
  <2> QED
    BY <2>1, ErrorKeeps DEF v
<1>4. CASE c # 0 /\ ~ HashcharFails(w, i)
  <2> DEFINE q == [p EXCEPT !.charid = c, !.status = "LOADCHAR"]
             n == Status(_hashplayer(w, i, c), i, "LOADCHAR")
  <2>1. v = Sent(n, i, "LOAD", fate)
    BY <1>4 DEF OnQuery, Goes, _db
  <2>2. c \in Charids /\ w.db.user[p.accid] = c /\ p.charid = 0
    <3>1. c \in 0 .. MaxChar
      BY <1>1 DEF Replies
    <3>2. MaxChar \in Nat
      BY WorldAssumption
    <3>3. ArrivedOwn(w.ph, w.db, w.wire, i, r)
      BY DEF Arrived
    <3> QED
      BY <1>4, <3>1, <3>2, <3>3 DEF Charids, ArrivedOwn, HashcharFails
  <2>3. MayHave(w, i, c)
    <3>1. BoundOK(w.db) /\ PlayersOwn(w.ph.fi, w.ph.p, w.db) /\ RepliesOwn(w.ph.fi, w.ph.p, w.db, w.wire)
      BY <1>1 DEF OwnInv
    <3>2. c <= w.db.lastid /\ \A b \in Accounts : w.db.user[b] = c => b = p.accid
      BY <1>1, <1>4, <2>2, <3>1 DEF BoundOK
    <3>3. ASSUME NEW j \in LiveIn(w.ph.fi), w.ph.p[j].charid = c PROVE FALSE
      <4>1. w.ph.p[j].accid = p.accid
        BY <1>1, <1>4, <2>2, <3>1, <3>3 DEF PlayersOwn
      <4>2. j = i
        BY <1>1, <4>1, Apart
      <4> QED
        BY <1>4, <2>2, <3>3, <4>2
    <3>4. ASSUME NEW k \in DOMAIN w.wire, w.wire[k].ok
          PROVE  /\ w.wire[k].type = "CHARID" => w.wire[k].value # c
                 /\ w.wire[k].type = "CREATE" => w.wire[k].key # c
      <4>1. ReplyOwn(w.ph.fi, w.ph.p, w.db, w.wire, k)
        BY <3>1, <3>4 DEF RepliesOwn
      <4> QED
        BY <1>1, <2>2, <4>1 DEF ReplyOwn, CharidOK, Unused, CreateOK
    <3> HIDE DEF c
    <3> QED
      BY <2>2, <3>2, <3>3, <3>4 DEF MayHave
  <2>4. /\ q.conn = p.conn /\ q.accid = p.accid /\ q.times = p.times /\ q.charid = c /\ q.status = "LOADCHAR"
    BY <1>1 DEF Players
  <2> HIDE DEF c
  <2>5. /\ Indexed(hashid_alloc(w.ph.hi, c), CharidsOf(w.ph.fi, w.ph.p) \cup {c})
        /\ Updated(w, n, i, q, hashid_alloc(w.ph.hi, c), w.spoilt)
    <3>1. "LOADCHAR" \in Statuses \ {"LOGIN"}
      BY DEF Statuses
    <3>2. \A j \in LiveIn(w.ph.fi) : w.ph.p[j].charid # c
      BY <2>3 DEF MayHave
    <3> QED
      BY <1>1, <1>4, <2>2, <3>1, <3>2, HashedIs
  <2> HIDE DEF q, n
  <2>6. "stale" \notin w.mishaps => p.status \in {"FREE", "LOADCHAR"}
    BY DEF Arrived
  <2>7. MayMove(w, n, i)
    BY <1>1, <2>2, <2>3, <2>4, <2>5, <2>6, HavingIsMove
  <2>8. Holds(n, {i}) /\ LiveIn(n.ph.fi) = LiveIn(w.ph.fi) /\ Quiet(n.ph, n.wire, n.mishaps, i)
    BY <1>1, <2>7, MoveKeeps
  <2>9. n.ph.p[i] = q /\ n.db = w.db
    BY <2>5 DEF Updated
  <2>10. MayAsk(n, i, "LOAD")
    BY <1>1, <2>2, <2>4, <2>8, <2>9, MayLoad
  <2>11. "LOAD" \in PdbTypes \ {"SAVE"}
    BY DEF PdbTypes
  <2>12. Holds(Sent(n, i, "LOAD", fate), {})
    BY <1>1, <2>8, <2>10, <2>11, SentKeeps
  <2> QED
    BY <2>1, <2>12 DEF v
<1> QED
  BY <1>2, <1>3, <1>4

\* Only the status changes, to one that does not wait for values.
LEMMA StatusFollows ==
    ASSUME NEW w, NEW i, NEW r, Arrived(w, i, r), r.type \notin {"LOAD"},
           NEW s \in Statuses \ {"FREE", "LOADCHAR", "LOGIN"}, NEW q, q = [w.ph.p[i] EXCEPT !.status = s],
           s = "GAME" => w.ph.p[i].charid # 0 /\ w.db.user[w.ph.p[i].accid] = w.ph.p[i].charid,
           w.mishaps \cap {"raced", "stale"} = {} => NameFits(w.ph, w.db, w.wire, i, q)
    PROVE  /\ Follows(w, i, q) /\ q.status = s /\ q.conn = w.ph.p[i].conn /\ q.accid = w.ph.p[i].accid
           /\ q.charid = w.ph.p[i].charid /\ q.name = w.ph.p[i].name
<1>1. w.ph.p[i] \in Players /\ w.ph.p[i].times < CreateTimes
  BY ArrivedIs
<1>2. /\ q \in Players /\ q.conn = w.ph.p[i].conn /\ q.accid = w.ph.p[i].accid /\ q.charid = w.ph.p[i].charid
      /\ q.times = w.ph.p[i].times /\ q.status = s /\ q.data = w.ph.p[i].data /\ q.name = w.ph.p[i].name
  BY <1>1 DEF Players
<1>3. "stale" \notin w.mishaps /\ w.ph.p[i].charid # 0 /\ w.ph.p[i].charid \notin w.spoilt =>
        q.data = w.ph.p[i].charid
  BY <1>2, DataIsOwn
<1> QED
  BY <1>1, <1>2, <1>3 DEF Follows

\* Nobody else's reservations change.
LEMMA OthersReserve ==
    ASSUME NEW w, NEW v, NEW i, NEW q, NEW H, NEW S, Updated(w, v, i, q, H, S), NEW j \in LiveIn(w.ph.fi), j # i
    PROVE  /\ v.ph.p[j] = w.ph.p[j]
           /\ Reserves(v.ph, v.wire, j) <=> Reserves(w.ph, w.wire, j)
           /\ MayReserve(v.ph, v.wire, j) <=> MayReserve(w.ph, w.wire, j)
<1>1. v.ph.p[j] = w.ph.p[j] /\ v.wire = w.wire
  BY DEF Updated, LiveIn
<1> QED
  BY <1>1 DEF Reserves, MayReserve

LEMMA OnChecknameKeeps ==
    ASSUME NEW w, NEW i, NEW r, Arrived(w, i, r), r.ok, r.type = "CHECKNAME", NEW fate \in {"ok"} \cup AllFaults
    PROVE  Holds(OnCheckname(w, i, r, fate), {})
<1> DEFINE p == w.ph.p[i]
           v == OnCheckname(w, i, r, fate)
<1>1. /\ Holds(w, {i}) /\ i \in LiveIn(w.ph.fi) /\ i \in Ids /\ Quiet(w.ph, w.wire, w.mishaps, i)
      /\ w \in States /\ p \in Players /\ p.times < CreateTimes
  BY ArrivedIs
<1>2. CASE r.value = 0
  <2> DEFINE q == [p EXCEPT !.status = "SAVECHARNAME"]
             n == [w EXCEPT !.ph.p[i] = q]
  <2>1. v = Sent(n, i, "SAVENAME", fate)
    BY <1>2 DEF OnCheckname, Goes, _db, Status
  <2>2. /\ Follows(w, i, q) /\ q.status = "SAVECHARNAME" /\ q.name = p.name
    <3>1. "SAVECHARNAME" \in Statuses \ {"FREE", "LOADCHAR", "LOGIN"}
      BY DEF Statuses
    <3>2. q.status = "SAVECHARNAME"
      BY <1>1 DEF Players
    <3>3. NameFits(w.ph, w.db, w.wire, i, q)
      BY <3>2 DEF NameFits
    <3> HIDE DEF q
    <3>4. q = [w.ph.p[i] EXCEPT !.status = "SAVECHARNAME"]
      BY DEF q
    <3> QED
      BY <3>1, <3>3, <3>4, StatusFollows
  <2> HIDE DEF q
  <2>3. /\ Updated(w, n, i, q, w.ph.hi, w.spoilt) /\ LiveIn(n.ph.fi) = LiveIn(w.ph.fi)
        /\ Holds(n, {i}) /\ Quiet(n.ph, n.wire, n.mishaps, i)
    BY <1>1, <2>2, MovesOn
  <2> HIDE DEF n
  <2>4. n.ph.p[i] = q /\ n.db = w.db /\ n.mishaps = w.mishaps
    BY <2>3 DEF Updated
  <2>5. n.mishaps \cap {"raced", "stale"} = {} =>
          /\ n.ph.p[i].name \notin n.db.names
          /\ \A j \in LiveIn(n.ph.fi) \ {i} : n.ph.p[j].name = n.ph.p[i].name => ~ MayReserve(n.ph, n.wire, j)
    <3> SUFFICES ASSUME w.mishaps \cap {"raced", "stale"} = {}
                 PROVE  /\ q.name \notin w.db.names
                        /\ \A j \in LiveIn(w.ph.fi) \ {i} : n.ph.p[j].name = q.name => ~ MayReserve(n.ph, n.wire, j)
      BY <2>3, <2>4
    <3>1. ArrivedName(w.ph, w.db, w.wire, i, r)
      BY DEF Arrived
    <3>2. /\ p.name \notin w.db.names
          /\ \A j \in LiveIn(w.ph.fi) \ {i} : w.ph.p[j].name = p.name => ~ MayReserve(w.ph, w.wire, j)
      BY <1>2, <3>1 DEF ArrivedName
    <3> QED
      BY <2>2, <2>3, <3>2, OthersReserve
  <2>6. MayAsk(n, i, "SAVENAME")
    BY <1>1, <2>2, <2>3, <2>4, <2>5, MaySavename
  <2>7. "SAVENAME" \in PdbTypes \ {"SAVE"}
    BY DEF PdbTypes
  <2>8. Holds(Sent(n, i, "SAVENAME", fate), {})
    BY <1>1, <2>3, <2>6, <2>7, SentKeeps
  <2> QED
    BY <2>1, <2>8 DEF v
<1>3. CASE r.value # 0
  <2> DEFINE q == [p EXCEPT !.status = "WAITCREATECHAR", !.times = @ + 1]
             n == [w EXCEPT !.ph.p[i] = q]
             refused == [Status(w, i, "WAITCREATECHAR") EXCEPT !.ph.p[i].times = @ + 1]
  <2>1. p.times \in Nat /\ CreateTimes \in Nat /\ p.times + 1 \in 0 .. CreateTimes
    <3>1. p.times \in 0 .. CreateTimes
      BY <1>1 DEF Players
    <3>2. CreateTimes \in Nat
      BY WorldAssumption
    <3> QED
      BY <1>1, <3>1, <3>2
  <2>2. /\ q \in Players /\ q.conn = p.conn /\ q.accid = p.accid /\ q.charid = p.charid
        /\ q.times = p.times + 1 /\ q.status = "WAITCREATECHAR" /\ q.data = p.data /\ q.name = p.name
    BY <1>1, <2>1, ZenonT(40) DEF Players, Statuses
  <2>3. Updated(w, n, i, q, w.ph.hi, w.spoilt)
    BY <1>1, <2>2, UpdateIs
  <2>4. refused = n
    <3> DEFINE a == [p EXCEPT !.status = "WAITCREATECHAR"]
    <3>1. Status(w, i, "WAITCREATECHAR") = [w EXCEPT !.ph.p[i] = a]
      BY DEF Status
    <3>2. a \in Players /\ q = [a EXCEPT !.times = @ + 1]
      BY <1>1 DEF Players, Statuses
    <3> HIDE DEF q
    <3>3. w.ph \in Worlds /\ w.ph.p \in [Ids -> Players]
      BY <1>1 DEF States, Worlds
    <3>4. [[w.ph.p EXCEPT ![i] = a] EXCEPT ![i].times = @ + 1] = [w.ph.p EXCEPT ![i] = q]
      BY <1>1, <3>2, <3>3
    <3> HIDE DEF a
    <3>5. [[w.ph EXCEPT !.p[i] = a] EXCEPT !.p[i].times = @ + 1] = [w.ph EXCEPT !.p[i] = q]
      BY <3>3, <3>4 DEF Worlds
    <3> QED
      BY <1>1, <3>1, <3>5 DEF States
  <2>5. v = IF n.ph.p[i].times >= CreateTimes THEN world_service(n, i, "CREATECHARMUCHTIMES")
            ELSE world_service(n, i, "NAMEEXIST")
    BY <1>3, <2>4 DEF OnCheckname
  <2> HIDE DEF q
  <2>6. n.ph.p[i] = q
    BY <2>3 DEF Updated
  <2>7. CASE q.times >= CreateTimes
    <3>1. v = _freeplayer(n, i)
      BY <2>5, <2>6, <2>7 DEF world_service
    <3>2. LikeBut(w, n, i)
      BY <2>2, <2>3 DEF LikeBut, Updated
    <3> HIDE DEF n
    <3>3. Holds(_freeplayer(n, i), {})
      BY <1>1, <2>2, <2>6, <3>2, FreedKeeps
    <3> QED
      BY <3>1, <3>3 DEF v
  <2>8. CASE ~ q.times >= CreateTimes
    <3>1. v = n
      BY <2>5, <2>6, <2>8 DEF world_service
    <3>2. "stale" \notin w.mishaps /\ p.charid # 0 /\ p.charid \notin w.spoilt => q.data = p.charid
      BY <2>2, DataIsOwn
    <3>3. q.times < CreateTimes
      BY <2>1, <2>2, <2>8
    <3>4. Follows(w, i, q)
      BY <2>2, <3>2, <3>3 DEF Follows, NameFits
    <3>5. q.status \notin DOMAIN Awaits
      BY <2>2 DEF Awaits
    <3>6. Holds(n, {})
      BY <1>1, <3>4, <3>5, MovesOn
    <3> QED
      BY <3>1, <3>6 DEF v
  <2> QED
    BY <2>7, <2>8
<1> QED
  BY <1>2, <1>3

LEMMA OnSavenameKeeps ==
    ASSUME NEW w, NEW i, NEW r, Arrived(w, i, r), r.ok, r.type = "SAVENAME", NEW fate \in {"ok"} \cup AllFaults
    PROVE  Holds(OnSavename(w, i, r, fate), {})
<1> DEFINE p == w.ph.p[i]
           q == [p EXCEPT !.status = "CHARUNIQUEID"]
           n == [w EXCEPT !.ph.p[i] = q]
           v == OnSavename(w, i, r, fate)
<1>1. /\ Holds(w, {i}) /\ i \in LiveIn(w.ph.fi) /\ i \in Ids /\ Quiet(w.ph, w.wire, w.mishaps, i)
      /\ w \in States /\ p \in Players
  BY ArrivedIs
<1>2. v = Sent(n, i, "CHARID", fate)
  BY DEF OnSavename, Goes, _db, Status
<1>3. /\ Follows(w, i, q) /\ q.status = "CHARUNIQUEID"
  <2>1. "CHARUNIQUEID" \in Statuses \ {"FREE", "LOADCHAR", "LOGIN"}
    BY DEF Statuses
  <2>2. q.status = "CHARUNIQUEID" /\ q.name = p.name
    BY <1>1 DEF Players
  <2>3. q = [w.ph.p[i] EXCEPT !.status = "CHARUNIQUEID"]
    OBVIOUS
  <2> HIDE DEF q
  <2>4. w.mishaps \cap {"raced", "stale"} = {} => NameFits(w.ph, w.db, w.wire, i, q)
    <3> SUFFICES ASSUME w.mishaps \cap {"raced", "stale"} = {} PROVE NameFits(w.ph, w.db, w.wire, i, q)
      OBVIOUS
    <3>1. ArrivedName(w.ph, w.db, w.wire, i, r)
      BY DEF Arrived
    <3> QED
      BY <2>2, <3>1 DEF ArrivedName, NameFits
  <2> QED
    BY <2>1, <2>3, <2>4, StatusFollows
<1> HIDE DEF q
<1>4. /\ Updated(w, n, i, q, w.ph.hi, w.spoilt) /\ LiveIn(n.ph.fi) = LiveIn(w.ph.fi)
      /\ Holds(n, {i}) /\ Quiet(n.ph, n.wire, n.mishaps, i)
  BY <1>1, <1>3, MovesOn
<1> HIDE DEF n
<1>5. n.ph.p[i] = q
  BY <1>4 DEF Updated
<1>6. MayAsk(n, i, "CHARID")
  BY <1>1, <1>3, <1>4, <1>5, MayCharid
<1>7. "CHARID" \in PdbTypes \ {"SAVE"}
  BY DEF PdbTypes
<1>8. Holds(Sent(n, i, "CHARID", fate), {})
  BY <1>1, <1>4, <1>6, <1>7, SentKeeps
<1> QED
  BY <1>2, <1>8 DEF v

\* The name was saved for the player that is given a character.
LEMMA NameIsReserved ==
    ASSUME NEW w, NEW i, NEW r, Arrived(w, i, r), r.type = "CHARID", w.mishaps \cap {"raced", "stale"} = {}
    PROVE  /\ w.ph.p[i].name \in w.db.names /\ \A b \in Charids : w.db.char[b].name # w.ph.p[i].name
           /\ \A j \in LiveIn(w.ph.fi) \ {i} : w.ph.p[j].name = w.ph.p[i].name => ~ Reserves(w.ph, w.wire, j)
<1>1. w.ph.p[i].status = "CHARUNIQUEID"
  <2>1. Expects(w.ph.p[i].status, "CHARID")
    BY DEF Arrived
  <2> QED
    BY <2>1 DEF Expects, Awaits
<1>2. Reserves(w.ph, w.wire, i)
  BY <1>1 DEF Reserves
<1>3. i \in LiveIn(w.ph.fi) /\ NoTwoReserve(w.ph, w.wire) /\ PlayerName(w.ph, w.db, w.wire, i)
  BY ArrivedIs DEF NameInv
<1> QED
  BY <1>2, <1>3 DEF NoTwoReserve, PlayerName

\* The player that has its new character asks for it to be created.
LEMMA CreatesKeeps ==
    ASSUME NEW w, NEW i, NEW r, Arrived(w, i, r), r.ok, r.type = "CHARID", NEW fate \in {"ok"} \cup AllFaults,
           NEW x, NEW q, NEW S, w.ph.p[i].charid = 0, w.spoilt \subseteq S,
           q.conn = w.ph.p[i].conn, q.accid = w.ph.p[i].accid, q.name = w.ph.p[i].name,
           q.times = w.ph.p[i].times, q.charid = r.value, q.status = "CREATECHAR",
           r.value \notin S => q.data = r.value,
           Indexed(hashid_alloc(w.ph.hi, r.value), CharidsOf(w.ph.fi, w.ph.p) \cup {r.value}),
           Updated(w, x, i, q, hashid_alloc(w.ph.hi, r.value), S)
    PROVE  Holds(Sent(x, i, "CREATE", fate), {})
<1> DEFINE c == r.value
<1>1. /\ Holds(w, {i}) /\ i \in LiveIn(w.ph.fi) /\ i \in Ids /\ Quiet(w.ph, w.wire, w.mishaps, i)
  BY ArrivedIs
<1>2. /\ Unused(w.ph.fi, w.ph.p, w.db, c)
      /\ \A n \in DOMAIN w.wire : w.wire[n].ok =>
           /\ w.wire[n].type = "CHARID" => w.wire[n].value # c
           /\ w.wire[n].type \in {"CREATE", "BINDCHARID", "LOAD"} => w.wire[n].key # c
  BY DEF Arrived, ArrivedOwn
<1>3. c \in Charids /\ c # 0 /\ \A a \in Accounts : w.db.user[a] # c
  BY <1>2 DEF Unused, Charids
<1>4. MayHave(w, i, c)
  BY <1>2 DEF MayHave, Unused
<1> HIDE DEF c
<1>5. q.charid = c /\ Updated(w, x, i, q, hashid_alloc(w.ph.hi, c), S) /\ (c \notin S => q.data = c)
      /\ Indexed(hashid_alloc(w.ph.hi, c), CharidsOf(w.ph.fi, w.ph.p) \cup {c})
  BY DEF c
<1>6. MayMove(w, x, i)
  BY <1>1, <1>4, <1>5, HavingIsMove
<1>7. Holds(x, {i}) /\ LiveIn(x.ph.fi) = LiveIn(w.ph.fi) /\ Quiet(x.ph, x.wire, x.mishaps, i)
  BY <1>1, <1>6, MoveKeeps
<1>8. x.ph.p[i] = q /\ x.db = w.db /\ x.wire = w.wire /\ x.mishaps = w.mishaps /\ x.spoilt = S
  BY <1>5 DEF Updated
<1>9. Creatable(x.ph, x.db, x.wire, x.spoilt, x.mishaps, i)
  <2>1. \A n \in DOMAIN x.wire : x.wire[n].ok /\ x.wire[n].type = "CREATE" => x.wire[n].key # c
    BY <1>2, <1>8
  <2>2. x.mishaps \cap {"raced", "stale"} = {} =>
          /\ q.name \in x.db.names /\ \A b \in Charids : x.db.char[b].name # q.name
          /\ \A j \in LiveIn(x.ph.fi) \ {i} : x.ph.p[j].name = q.name => ~ Reserves(x.ph, x.wire, j)
    <3> SUFFICES ASSUME w.mishaps \cap {"raced", "stale"} = {}
                 PROVE  /\ q.name \in w.db.names /\ \A b \in Charids : w.db.char[b].name # q.name
                        /\ \A j \in LiveIn(w.ph.fi) \ {i} : x.ph.p[j].name = q.name => ~ Reserves(x.ph, x.wire, j)
      BY <1>7, <1>8
    <3>1. \A j \in LiveIn(w.ph.fi) \ {i} :
            x.ph.p[j] = w.ph.p[j] /\ (Reserves(x.ph, x.wire, j) <=> Reserves(w.ph, w.wire, j))
      BY <1>5, OthersReserve
    <3> QED
      BY <3>1, NameIsReserved
  <2> QED
    BY <1>3, <1>5, <1>8, <2>1, <2>2 DEF Creatable
<1>10. MayAsk(x, i, "CREATE")
  BY <1>1, <1>7, <1>9, MayCreate
<1>11. "CREATE" \in PdbTypes \ {"SAVE"}
  BY DEF PdbTypes
<1> QED
  BY <1>1, <1>7, <1>10, <1>11, SentKeeps

LEMMA OnCharidKeeps ==
    ASSUME NEW w, NEW i, NEW r, Arrived(w, i, r), r.ok, r.type = "CHARID", NEW fate \in {"ok"} \cup AllFaults
    PROVE  Holds(OnCharid(w, i, r, fate), {})
<1> DEFINE p == w.ph.p[i]
           c == r.value
           v == OnCharid(w, i, r, fate)
<1>1. /\ Holds(w, {i}) /\ i \in LiveIn(w.ph.fi) /\ i \in Ids
      /\ w \in States /\ TableInv(w.ph) /\ p \in Players
  BY ArrivedIs
<1>2. CASE HashcharFails(w, i)
  <2>1. v = world_service(w, i, "WORLDFULL")
    BY <1>2 DEF OnCharid
  <2> QED
    BY <2>1, ErrorKeeps DEF v
<1>3. CASE ~ HashcharFails(w, i)
  <2> DEFINE H == hashid_alloc(w.ph.hi, c)
             q == [p EXCEPT !.charid = c, !.status = "CREATECHAR"]
             n == Status(_hashplayer(w, i, c), i, "CREATECHAR")
  <2>1. v = _db(n, i, "CREATE", fate)
    BY <1>3 DEF OnCharid, Goes
  <2>2. c \in Charids /\ (\A j \in LiveIn(w.ph.fi) : w.ph.p[j].charid # c) /\ p.charid = 0
    BY <1>3 DEF Arrived, ArrivedOwn, Unused, HashcharFails
  <2>3. /\ Indexed(H, CharidsOf(w.ph.fi, w.ph.p) \cup {c})
        /\ Updated(w, n, i, q, H, w.spoilt)
    <3>1. "CREATECHAR" \in Statuses \ {"LOGIN"}
      BY DEF Statuses
    <3> QED
      BY <1>1, <1>3, <2>2, <3>1, HashedIs
  <2>4. /\ q \in Players /\ q.conn = p.conn /\ q.accid = p.accid /\ q.times = p.times /\ q.charid = c
        /\ q.status = "CREATECHAR" /\ q.data = p.data /\ q.name = p.name
    BY <1>1, <2>2 DEF Players, Statuses
  <2> HIDE DEF n, H, q
  <2>5. n.ph.p[i] = q /\ n \in States /\ n.spoilt = w.spoilt
    BY <2>3 DEF Updated
  <2>6. CASE q.data = 0
    <3> DEFINE z == [q EXCEPT !.data = c]
               x == [n EXCEPT !.ph.p[i] = z]
    <3>1. v = Sent(x, i, "CREATE", fate)
      <4>1. v = Sent([n EXCEPT !.ph.p[i].data = n.ph.p[i].charid], i, "CREATE", fate)
        BY <2>1, <2>5, <2>6 DEF _db
      <4>2. n.ph.p[i].charid = c
        BY <2>4, <2>5
      <4>3. [n EXCEPT !.ph.p[i].data = n.ph.p[i].charid] = [n EXCEPT !.ph.p[i] = [n.ph.p[i] EXCEPT !.data = c]]
        BY <4>2
      <4> QED
        BY <2>5, <4>1, <4>3
    <3>2. /\ z \in Players /\ z.conn = p.conn /\ z.accid = p.accid /\ z.times = p.times /\ z.charid = c
          /\ z.status = "CREATECHAR" /\ z.data = c /\ z.name = p.name
      BY <2>2, <2>4 DEF Players
    <3> HIDE DEF z
    <3>3. Updated(n, x, i, z, n.ph.hi, n.spoilt)
      BY <1>1, <2>5, <3>2, UpdateIs
    <3> HIDE DEF x
    <3>4. Updated(w, x, i, z, H, w.spoilt)
      BY <2>3, <3>3 DEF Updated
    <3>5. Holds(Sent(x, i, "CREATE", fate), {})
      BY <2>2, <2>3, <3>2, <3>4, CreatesKeeps DEF H
    <3> QED
      BY <3>1, <3>5 DEF v
  <2>7. CASE q.data # 0
    <3> DEFINE x == [n EXCEPT !.spoilt = @ \cup {c}]
               S == w.spoilt \cup {c}
    <3>1. v = Sent(x, i, "CREATE", fate)
      <4>1. n.ph.p[i].charid = c /\ n.ph.p[i].data # 0
        BY <2>4, <2>5, <2>7
      <4> QED
        BY <2>1, <4>1 DEF _db
    <3>2. /\ x \in States /\ x.ph = n.ph /\ x.db = n.db /\ x.wire = n.wire /\ x.mishaps = n.mishaps /\ x.spoilt = S
      BY <2>2, <2>5 DEF States
    <3> HIDE DEF x
    <3>3. Updated(w, x, i, q, H, S)
      BY <2>3, <3>2 DEF Updated
    <3>4. c \in S /\ w.spoilt \subseteq S
      OBVIOUS
    <3> HIDE DEF S
    <3>5. Holds(Sent(x, i, "CREATE", fate), {})
      BY <2>2, <2>3, <2>4, <3>3, <3>4, CreatesKeeps DEF H
    <3> QED
      BY <3>1, <3>5 DEF v
  <2> QED
    BY <2>6, <2>7
<1> QED
  BY <1>2, <1>3

LEMMA OnCreateKeeps ==
    ASSUME NEW w, NEW i, NEW r, Arrived(w, i, r), r.ok, r.type = "CREATE", NEW fate \in {"ok"} \cup AllFaults
    PROVE  Holds(OnCreate(w, i, r, fate), {})
<1> DEFINE p == w.ph.p[i]
           q == [p EXCEPT !.status = "BINDCHARID"]
           n == [w EXCEPT !.ph.p[i] = q]
           v == OnCreate(w, i, r, fate)
<1>1. /\ Holds(w, {i}) /\ i \in LiveIn(w.ph.fi) /\ i \in Ids /\ Quiet(w.ph, w.wire, w.mishaps, i)
      /\ w \in States /\ p \in Players
  BY ArrivedIs
<1>2. v = Sent(n, i, "BINDCHARID", fate)
  BY DEF OnCreate, Goes, _db, Status
<1>3. ArrivedOwn(w.ph, w.db, w.wire, i, r)
  BY DEF Arrived
<1>4. /\ Follows(w, i, q) /\ q.status = "BINDCHARID" /\ q.charid = p.charid /\ q.accid = p.accid
  <2>1. "BINDCHARID" \in Statuses \ {"FREE", "LOADCHAR", "LOGIN"}
    BY DEF Statuses
  <2>2. q.status = "BINDCHARID" /\ q.name = p.name /\ q.charid = p.charid
    BY <1>1 DEF Players
  <2>3. q = [w.ph.p[i] EXCEPT !.status = "BINDCHARID"]
    OBVIOUS
  <2> HIDE DEF q
  <2>4. w.mishaps \cap {"raced", "stale"} = {} => NameFits(w.ph, w.db, w.wire, i, q)
    <3> SUFFICES ASSUME w.mishaps \cap {"raced", "stale"} = {} PROVE NameFits(w.ph, w.db, w.wire, i, q)
      OBVIOUS
    <3>1. ArrivedName(w.ph, w.db, w.wire, i, r)
      BY DEF Arrived
    <3> QED
      BY <2>2, <3>1 DEF ArrivedName, NameFits
  <2> QED
    BY <2>1, <2>3, <2>4, StatusFollows
<1> HIDE DEF q
<1>5. /\ Updated(w, n, i, q, w.ph.hi, w.spoilt) /\ LiveIn(n.ph.fi) = LiveIn(w.ph.fi)
      /\ Holds(n, {i}) /\ Quiet(n.ph, n.wire, n.mishaps, i)
  BY <1>1, <1>4, MovesOn
<1> HIDE DEF n
<1>6. n.ph.p[i] = q /\ n.db = w.db /\ n.wire = w.wire
  BY <1>5 DEF Updated
<1>7. Bindable(n.ph, n.db, n.wire, i)
  BY <1>3, <1>4, <1>6 DEF Bindable, Binds, ArrivedOwn, Charids
<1>8. MayAsk(n, i, "BINDCHARID")
  BY <1>1, <1>5, <1>7, MayBind
<1>9. "BINDCHARID" \in PdbTypes \ {"SAVE"}
  BY DEF PdbTypes
<1>10. Holds(Sent(n, i, "BINDCHARID", fate), {})
  BY <1>1, <1>5, <1>8, <1>9, SentKeeps
<1> QED
  BY <1>2, <1>10 DEF v

\* By way of the status LOGIN, which world_service ends.
LEMMA LoginToGame ==
    ASSUME NEW w \in States, NEW i \in Ids
    PROVE  world_service(Status(w, i, "LOGIN"), i, "OK") =
             [w EXCEPT !.ph.p[i] = [w.ph.p[i] EXCEPT !.status = "GAME"]]
<1> DEFINE p == w.ph.p[i]
           a == [p EXCEPT !.status = "LOGIN"]
           n == Status(w, i, "LOGIN")
<1>1. w.ph \in Worlds /\ w.ph.p \in [Ids -> Players] /\ p \in Players
  BY DEF States, Worlds
<1>2. n = [w EXCEPT !.ph.p[i] = a]
  BY DEF Status
<1>3. a.status = "LOGIN" /\ [a EXCEPT !.status = "GAME"] = [p EXCEPT !.status = "GAME"]
  BY <1>1 DEF Players
<1> HIDE DEF a, n
<1>4. n.ph = [w.ph EXCEPT !.p[i] = a] /\ n.ph.p = [w.ph.p EXCEPT ![i] = a] /\ n.ph.p[i] = a
  BY <1>1, <1>2 DEF States, Worlds
<1>5. world_service(n, i, "OK") = [n EXCEPT !.ph.p[i].status = "GAME"]
  BY <1>3, <1>4 DEF world_service
<1>6. [[w.ph.p EXCEPT ![i] = a] EXCEPT ![i].status = "GAME"] = [w.ph.p EXCEPT ![i] = [p EXCEPT !.status = "GAME"]]
  BY <1>1, <1>3
<1>7. [[w.ph EXCEPT !.p[i] = a] EXCEPT !.p[i].status = "GAME"] = [w.ph EXCEPT !.p[i] = [p EXCEPT !.status = "GAME"]]
  BY <1>1, <1>6 DEF Worlds
<1>8. [n EXCEPT !.ph.p[i].status = "GAME"] = [w EXCEPT !.ph.p[i] = [p EXCEPT !.status = "GAME"]]
  BY <1>2, <1>7 DEF States
<1> QED
  BY <1>5, <1>8 DEF n

LEMMA OnBindcharidKeeps ==
    ASSUME NEW w, NEW i, NEW r, Arrived(w, i, r), r.ok, r.type = "BINDCHARID", NEW fate \in {"ok"} \cup AllFaults
    PROVE  Holds(OnBindcharid(w, i, r, fate), {})
<1> DEFINE p == w.ph.p[i]
           q == [p EXCEPT !.status = "GAME"]
           n == [w EXCEPT !.ph.p[i] = q]
           v == OnBindcharid(w, i, r, fate)
<1>1. /\ Holds(w, {i}) /\ i \in LiveIn(w.ph.fi) /\ i \in Ids /\ Quiet(w.ph, w.wire, w.mishaps, i)
      /\ w \in States /\ p \in Players
  BY ArrivedIs
<1>2. v = n
  BY <1>1, LoginToGame DEF OnBindcharid
<1>3. p.charid \in Charids /\ w.db.user[p.accid] = p.charid
  BY DEF Arrived, ArrivedOwn
<1>4. /\ Follows(w, i, q) /\ q.status = "GAME"
  <2>1. "GAME" \in Statuses \ {"FREE", "LOADCHAR", "LOGIN"} /\ p.charid # 0
    BY <1>3 DEF Statuses, Charids
  <2>2. q.status = "GAME" /\ q.name = p.name /\ q.charid = p.charid
    BY <1>1 DEF Players
  <2>3. q = [w.ph.p[i] EXCEPT !.status = "GAME"]
    OBVIOUS
  <2> HIDE DEF q
  <2>4. w.mishaps \cap {"raced", "stale"} = {} => NameFits(w.ph, w.db, w.wire, i, q)
    <3> SUFFICES ASSUME w.mishaps \cap {"raced", "stale"} = {} PROVE NameFits(w.ph, w.db, w.wire, i, q)
      OBVIOUS
    <3>1. p.status = "BINDCHARID"
      <4>1. Expects(p.status, "BINDCHARID")
        BY DEF Arrived
      <4> QED
        BY <4>1 DEF Expects, Awaits
    <3>2. Created(w.ph, w.wire, i)
      BY <3>1 DEF Created
    <3>3. p.name = w.db.char[p.charid].name
      <4>1. NameInv(w.ph, w.db, w.wire, w.mishaps) /\ i \in LiveIn(w.ph.fi)
        BY ArrivedIs DEF Holds, Inv, Accords
      <4> QED
        BY <3>2, <4>1 DEF NameInv, PlayerName
    <3> QED
      BY <2>2, <3>3 DEF NameFits
  <2> QED
    <3>1. w.ph.p[i] \in Players /\ w.ph.p[i].times < CreateTimes
      BY ArrivedIs
    <3>2. /\ q \in Players /\ q.conn = w.ph.p[i].conn /\ q.accid = w.ph.p[i].accid
          /\ q.charid = w.ph.p[i].charid /\ q.times = w.ph.p[i].times /\ q.status = "GAME"
          /\ q.data = w.ph.p[i].data /\ q.name = w.ph.p[i].name
      BY ONLY <2>1, <2>3, <3>1 DEF Players
    <3>3. "stale" \notin w.mishaps /\ w.ph.p[i].charid # 0 /\ w.ph.p[i].charid \notin w.spoilt =>
            q.data = w.ph.p[i].charid
      BY <3>2, DataIsOwn
    <3> QED
      BY <1>3, <2>1, <2>4, <3>1, <3>2, <3>3 DEF Follows
<1>5. q.status \notin DOMAIN Awaits
  BY <1>4 DEF Awaits
<1> HIDE DEF q
<1>6. Holds(n, {})
  BY <1>1, <1>4, <1>5, MovesOn
<1> QED
  BY <1>2, <1>6 DEF v

LEMMA OnLoadKeeps ==
    ASSUME NEW w, NEW i, NEW r, Arrived(w, i, r), r.ok, r.type = "LOAD", NEW fate \in {"ok"} \cup AllFaults
    PROVE  Holds(OnLoad(w, i, r, fate), {})
<1> DEFINE p == w.ph.p[i]
           loaded == _loadpdb(w, i, r.record)
           v == OnLoad(w, i, r, fate)
           a(data, name) == [p EXCEPT !.data = data, !.name = name]
           b(data, name) == [w EXCEPT !.ph.p[i].data = data, !.ph.p[i].name = name]
           Filled(data, name) ==
             /\ b(data, name) = [w EXCEPT !.ph.p[i] = a(data, name)]
             /\ a(data, name) \in Players
             /\ Updated(w, b(data, name), i, a(data, name), w.ph.hi, w.spoilt)
             /\ a(data, name).conn = p.conn /\ a(data, name).accid = p.accid
             /\ a(data, name).charid = p.charid /\ a(data, name).status = p.status
<1>1. /\ Holds(w, {i}) /\ i \in LiveIn(w.ph.fi) /\ i \in Ids /\ Quiet(w.ph, w.wire, w.mishaps, i)
      /\ w \in States /\ p \in Players /\ p.times < CreateTimes /\ r \in Replies
      /\ p.charid # 0 => p.status # "FREE"
  BY ArrivedIs
<1>2. p.charid \in Charids /\ w.db.user[p.accid] = p.charid
  BY DEF Arrived, ArrivedOwn
<1>3. /\ r.record \in Records /\ r.record.data \in {0} \cup Charids
      /\ r.record.name \in Names \cup {NoName, OldName}
  BY <1>1 DEF Replies, Records
<1>4. ASSUME NEW data \in {0} \cup Charids, NEW name \in Names \cup {"", OldName}
      PROVE  Filled(data, name)
  <2> DEFINE q == a(data, name)
             n == b(data, name)
  <2>1. w.ph \in Worlds /\ w.ph.p \in [Ids -> Players]
    BY <1>1 DEF States, Worlds
  <2>2. /\ q \in Players /\ q.conn = p.conn /\ q.accid = p.accid /\ q.charid = p.charid
        /\ q.times = p.times /\ q.status = p.status /\ q.data = data /\ q.name = name
    BY <1>1 DEF Players
  <2>3. [w.ph.p EXCEPT ![i].data = data, ![i].name = name] = [w.ph.p EXCEPT ![i] = q]
    BY <1>1, <2>1
  <2>4. [w.ph EXCEPT !.p[i].data = data, !.p[i].name = name] = [w.ph EXCEPT !.p[i] = q]
    BY <2>1, <2>3 DEF Worlds
  <2>5. n = [w EXCEPT !.ph.p[i] = q]
    BY <1>1, <2>4 DEF States
  <2>6. Updated(w, n, i, q, w.ph.hi, w.spoilt)
    BY <1>1, <2>2, <2>5, UpdateIs
  <2> QED
    BY <2>2, <2>5, <2>6
<1> HIDE DEF a, b, Filled
<1>5. CASE r.record.name = NoName
  <2> DEFINE data == 0
             name == ""
             n == b(data, name)
             c == a(data, name)
  <2>1. v = _freeplayer(n, i)
    BY <1>5 DEF OnLoad, world_service, _loadpdb, b
  <2>2. data \in {0} \cup Charids /\ name \in Names \cup {"", OldName}
    OBVIOUS
  <2> HIDE DEF data, name
  <2>3. Filled(data, name)
    BY <1>4, <2>2
  <2>4. /\ Updated(w, n, i, c, w.ph.hi, w.spoilt)
        /\ c.conn = p.conn /\ c.accid = p.accid /\ c.charid = p.charid /\ c.status = p.status
    BY <2>3 DEF Filled
  <2> HIDE DEF n, c
  <2>5. LikeBut(w, n, i) /\ n.ph.p[i].status # "FREE"
    <3>1. p.status # "FREE"
      BY <1>1, <1>2 DEF Charids
    <3> QED
      BY <2>4, <3>1 DEF LikeBut, Updated
  <2>6. Holds(_freeplayer(n, i), {})
    BY <1>1, <2>5, FreedKeeps
  <2> QED
    BY <2>1, <2>6 DEF v
<1>6. CASE r.record.name # NoName
  <2> DEFINE data == r.record.data
             name == r.record.name
             n == b(data, name)
             c == a(data, name)
             q == [p EXCEPT !.data = data, !.name = name, !.status = "GAME"]
  <2>1. v = world_service(Status(n, i, "LOGIN"), i, "OK")
    BY <1>6 DEF OnLoad, _loadpdb, b
  <2>2. data \in {0} \cup Charids /\ name \in Names \cup {"", OldName}
    BY <1>3, <1>6
  <2> HIDE DEF data, name
  <2>3. /\ q \in Players /\ q.conn = p.conn /\ q.accid = p.accid /\ q.charid = p.charid
        /\ q.times = p.times /\ q.status = "GAME" /\ q.data = data /\ q.name = name
    <3>1. p \in Players /\ "GAME" \in Statuses \ {"LOGIN"}
      BY <1>1 DEF Statuses
    <3> HIDE DEF p
    <3> QED
      BY <2>2, <3>1 DEF Players
  <2>4. q = [c EXCEPT !.status = "GAME"]
    BY <1>1 DEF Players, a
  <2> HIDE DEF q, c
  <2>5. /\ n = [w EXCEPT !.ph.p[i] = c] /\ c \in Players
        /\ Updated(w, n, i, c, w.ph.hi, w.spoilt)
    <3>1. Filled(data, name)
      BY <1>4, <2>2
    <3> QED
      BY <3>1 DEF Filled, c
  <2> HIDE DEF n
  <2>6. n \in States /\ n.ph.p[i] = c
    BY <2>5 DEF Updated
  <2>7. v = [n EXCEPT !.ph.p[i] = q]
    BY <1>1, <2>1, <2>4, <2>6, LoginToGame
  <2>8. v = [w EXCEPT !.ph.p[i] = q]
    <3>1. w.ph \in Worlds /\ w.ph.p \in [Ids -> Players]
      BY <1>1 DEF States, Worlds
    <3>2. [[w.ph.p EXCEPT ![i] = c] EXCEPT ![i] = q] = [w.ph.p EXCEPT ![i] = q]
      BY <1>1, <3>1
    <3>3. [[w.ph EXCEPT !.p[i] = c] EXCEPT !.p[i] = q] = [w.ph EXCEPT !.p[i] = q]
      BY <3>1, <3>2 DEF Worlds
    <3> HIDE DEF v
    <3> QED
      BY <1>1, <2>5, <2>7, <3>3 DEF States
  <2>9. Follows(w, i, q)
    <3>1. "stale" \notin w.mishaps /\ p.charid # 0 /\ p.charid \notin w.spoilt => q.data = p.charid
      BY <1>6, <2>3 DEF Arrived, data
    <3>2. w.mishaps \cap {"raced", "stale"} = {} => q.name = w.db.char[q.charid].name
      BY <2>3 DEF Arrived, ArrivedName, name
    <3>3. p.times < CreateTimes /\ p.charid # 0 /\ w.db.user[p.accid] = p.charid
      BY <1>1, <1>2 DEF Charids
    <3>4. w.mishaps \cap {"raced", "stale"} = {} => NameFits(w.ph, w.db, w.wire, i, q)
      BY ONLY <2>3, <3>2 DEF NameFits
    <3> QED
      BY ONLY <2>3, <3>1, <3>3, <3>4 DEF Follows, p
  <2>10. q.status \notin DOMAIN Awaits
    BY <2>3 DEF Awaits
  <2>11. Holds([w EXCEPT !.ph.p[i] = q], {})
    BY <1>1, <2>9, <2>10, MovesOn
  <2> QED
    BY <2>8, <2>11
<1> QED
  BY <1>5, <1>6

LEMMA HandleRedisKeeps ==
    ASSUME NEW w, NEW i, NEW r, Arrived(w, i, r), NEW fate \in {"ok"} \cup AllFaults
    PROVE  Holds(_handle_redis(w, i, r, fate), {})
<1>1. r.ok \in BOOLEAN /\ r.type \in PdbTypes \ {"SAVE"}
  BY DEF Arrived, Replies
<1>2. CASE ~ r.ok
  BY <1>2, ErrorKeeps DEF _handle_redis
<1>3. CASE r.ok /\ r.type = "QUERY"
  BY <1>3, OnQueryKeeps DEF _handle_redis
<1>4. CASE r.ok /\ r.type = "CHECKNAME"
  BY <1>4, OnChecknameKeeps DEF _handle_redis
<1>5. CASE r.ok /\ r.type = "SAVENAME"
  BY <1>5, OnSavenameKeeps DEF _handle_redis
<1>6. CASE r.ok /\ r.type = "CHARID"
  BY <1>6, OnCharidKeeps DEF _handle_redis
<1>7. CASE r.ok /\ r.type = "CREATE"
  BY <1>7, OnCreateKeeps DEF _handle_redis
<1>8. CASE r.ok /\ r.type = "BINDCHARID"
  BY <1>8, OnBindcharidKeeps DEF _handle_redis
<1>9. CASE r.ok /\ r.type = "LOAD"
  BY <1>9, OnLoadKeeps DEF _handle_redis
<1> QED
  BY <1>1, <1>2, <1>3, <1>4, <1>5, <1>6, <1>7, <1>8, <1>9 DEF PdbTypes

-----------------------------------------------------------------------------
\* The other requests of clients.

\* Whoever asks for a name has no answer coming, or has asked before the last was there.
LEMMA AsksIs ==
    ASSUME NEW w, Holds(w, {}), NEW i \in LiveIn(w.ph.fi), w.ph.p[i].status = "WAITCREATECHAR", NEW name
    PROVE  LET b == Asks(w, i, name) IN
           /\ Holds(b, {i}) /\ b.ph = w.ph /\ b.db = w.db /\ b.wire = w.wire /\ b.spoilt = w.spoilt
           /\ Quiet(b.ph, b.wire, b.mishaps, i)
           /\ b.mishaps \cap {"raced", "stale"} = {} =>
                \A j \in LiveIn(w.ph.fi) \ {i} : w.ph.p[j].name = name => ~ MayReserve(w.ph, w.wire, j)
<1> DEFINE pending(c) == \E k \in DOMAIN w.wire : w.wire[k].type = "CHECKNAME" /\ ~ w.wire[k].old
                                                  /\ w.wire[k].conn = c
           twice == pending(w.ph.p[i].conn)
           same == \E j \in Ids \ {i} : pending(w.ph.p[j].conn) /\ w.ph.p[j].name = name
           b == Asks(w, i, name)
<1>1. b = IF twice \/ same THEN Note(w, "raced") ELSE w
  BY DEF Asks
<1>2. /\ Holds(Note(w, "raced"), {})
      /\ Note(w, "raced").ph = w.ph /\ Note(w, "raced").db = w.db /\ Note(w, "raced").wire = w.wire
      /\ Note(w, "raced").spoilt = w.spoilt /\ Note(w, "raced").mishaps = w.mishaps \cup {"raced"}
  BY NoteKeeps
<1> HIDE DEF b
<1>3. /\ Holds(b, {}) /\ b.ph = w.ph /\ b.db = w.db /\ b.wire = w.wire /\ b.spoilt = w.spoilt
      /\ b.mishaps = w.mishaps \/ b.mishaps = w.mishaps \cup {"raced"}
      /\ "raced" \notin b.mishaps => ~ twice /\ ~ same /\ b.mishaps = w.mishaps
  BY <1>1, <1>2
<1>4. Holds(b, {i})
  <2>1. b \in States
    BY <1>3 DEF Holds
  <2> QED
    BY <1>3, <2>1, MoreKeeps
<1>5. Quiet(b.ph, b.wire, b.mishaps, i)
  <2> SUFFICES ASSUME "stale" \notin b.mishaps, NEW k \in DOMAIN w.wire, Comes(w.wire, k, w.ph.p[i].conn)
               PROVE  w.wire[k].type # "QUERY" /\ w.ph.p[i].status \notin {"FREE", "LOADCHAR"} /\ "raced" \in b.mishaps
    BY <1>3 DEF Quiet
  <2>1. InStep(w.ph, w.wire, w.mishaps) /\ "stale" \notin w.mishaps
    BY <1>3 DEF Holds, Inv, Accords
  <2>2. w.wire[k].type # "QUERY"
    BY <2>1 DEF InStep
  <2>3. ASSUME "raced" \notin b.mishaps PROVE FALSE
    <3>1. Expects(w.ph.p[i].status, w.wire[k].type)
      BY <1>3, <2>1, <2>3 DEF InStep
    <3>2. w.wire[k].type = "CHECKNAME"
      BY <3>1 DEF Expects, Awaits
    <3>3. twice
      BY <3>2 DEF Comes
    <3> QED
      BY <1>3, <2>3, <3>3
  <2> QED
    BY <2>2, <2>3
<1>6. ASSUME b.mishaps \cap {"raced", "stale"} = {}, NEW j \in LiveIn(w.ph.fi) \ {i}, w.ph.p[j].name = name,
             MayReserve(w.ph, w.wire, j)
      PROVE  FALSE
  <2>1. pending(w.ph.p[j].conn)
    BY <1>6 DEF MayReserve, Comes
  <2>2. j \in Ids \ {i}
    BY DEF LiveIn
  <2>3. same
    BY <1>6, <2>1, <2>2
  <2> QED
    BY <1>3, <1>6, <2>3
<1> QED
  BY <1>3, <1>4, <1>5, <1>6 DEF b

LEMMA CharCreateKeeps ==
    ASSUME NEW w, Holds(w, {}), NEW i \in LiveIn(w.ph.fi), w.ph.p[i].status = "WAITCREATECHAR",
           NEW name \in Names, NEW fate \in {"ok"} \cup AllFaults
    PROVE  Holds(_createchar(w, i, name, fate), {})
<1> DEFINE p == w.ph.p[i]
           b == Asks(w, i, name)
           q == [p EXCEPT !.name = name]
           n == [b EXCEPT !.ph.p[i] = q]
           v == _createchar(w, i, name, fate)
<1>1. /\ Holds(b, {i}) /\ b.ph = w.ph /\ b.db = w.db /\ b.wire = w.wire /\ b.spoilt = w.spoilt
      /\ Quiet(b.ph, b.wire, b.mishaps, i)
      /\ b.mishaps \cap {"raced", "stale"} = {} =>
           \A j \in LiveIn(w.ph.fi) \ {i} : w.ph.p[j].name = name => ~ MayReserve(w.ph, w.wire, j)
  BY AsksIs
<1>2. /\ i \in Ids /\ p \in Players /\ p.times < CreateTimes
      /\ "stale" \notin b.mishaps /\ p.charid # 0 /\ p.charid \notin b.spoilt => p.data = p.charid
  <2>1. w \in States /\ TableInv(w.ph) /\ DataInv(b.ph, b.db, b.wire, b.spoilt, b.mishaps)
    BY <1>1 DEF Holds, Inv, Accords
  <2>2. w.ph.p \in [Ids -> Players] /\ i \in Ids
    BY <2>1 DEF States, Worlds, LiveIn
  <2>3. p.times < CreateTimes
    BY <2>1 DEF TableInv, SlotsOK
  <2> QED
    BY <1>1, <2>1, <2>2, <2>3 DEF DataInv
<1>3. v = IF fate = "nodb" THEN _freeplayer(n, i) ELSE Sent(n, i, "CHECKNAME", fate)
  <2>1. [b EXCEPT !.ph.p[i].name = name] = n
    BY <1>1
  <2> HIDE DEF n, b
  <2> QED
    BY <2>1 DEF _createchar, _db, b
<1> HIDE DEF b
<1>4. /\ q \in Players /\ q.conn = p.conn /\ q.accid = p.accid /\ q.charid = p.charid
      /\ q.times = p.times /\ q.status = "WAITCREATECHAR" /\ q.data = p.data /\ q.name = name
  BY <1>2 DEF Players
<1>5. Follows(b, i, q)
  BY <1>1, <1>2, <1>4 DEF Follows, NameFits
<1> HIDE DEF q
<1>6. /\ Updated(b, n, i, q, b.ph.hi, b.spoilt) /\ LiveIn(n.ph.fi) = LiveIn(b.ph.fi)
      /\ Holds(n, {i}) /\ Quiet(n.ph, n.wire, n.mishaps, i)
  BY <1>1, <1>5, MovesOn
<1> HIDE DEF n
<1>7. n.ph.p[i] = q /\ n.db = b.db /\ n.mishaps = b.mishaps
  BY <1>6 DEF Updated
<1>8. CASE fate = "nodb"
  <2>1. Holds(_freeplayer(n, i), {})
    BY <1>1, <1>6, FreePlayerKeeps
  <2> QED
    BY <1>3, <1>8, <2>1 DEF v
<1>9. CASE fate # "nodb"
  <2>1. n.mishaps \cap {"raced", "stale"} = {} =>
          \A j \in LiveIn(n.ph.fi) \ {i} : n.ph.p[j].name = n.ph.p[i].name => ~ MayReserve(n.ph, n.wire, j)
    <3> SUFFICES ASSUME b.mishaps \cap {"raced", "stale"} = {}, NEW j \in LiveIn(b.ph.fi) \ {i},
                        n.ph.p[j].name = name
                 PROVE  ~ MayReserve(n.ph, n.wire, j)
      BY <1>4, <1>6, <1>7
    <3>1. n.ph.p[j] = b.ph.p[j] /\ (MayReserve(n.ph, n.wire, j) <=> MayReserve(b.ph, b.wire, j))
      BY <1>6, OthersReserve
    <3> QED
      BY <1>1, <3>1
  <2>2. i \in LiveIn(n.ph.fi) /\ n.ph.p[i].status = "WAITCREATECHAR"
    BY <1>1, <1>4, <1>6, <1>7
  <2>3. MayAsk(n, i, "CHECKNAME")
    BY <1>6, <2>1, <2>2, MayCheckname
  <2>4. "CHECKNAME" \in PdbTypes \ {"SAVE"}
    BY DEF PdbTypes
  <2>5. Holds(Sent(n, i, "CHECKNAME", fate), {})
    BY <1>6, <2>2, <2>3, <2>4, SentKeeps
  <2> QED
    BY <1>3, <1>9, <2>5 DEF v
<1> QED
  BY <1>8, <1>9

LEMMA LogoutKeeps ==
    ASSUME NEW w, Holds(w, {}), NEW i \in LiveIn(w.ph.fi), NEW fate \in {"ok"} \cup AllFaults
    PROVE  Holds(_logout(w, i, fate), {})
<1> DEFINE n == SaveAnyStatus(w, i, fate)
<1>1. Holds(n, {}) /\ n.ph = w.ph
  BY SaveKeeps
<1> HIDE DEF n
<1>2. n \in States
  BY <1>1 DEF Holds
<1>3. Holds(n, {i})
  BY <1>1, <1>2, MoreKeeps
<1>4. Holds(_freeplayer(n, i), {})
  BY <1>1, <1>3, FreePlayerKeeps
<1> QED
  BY <1>4 DEF _logout, n

-----------------------------------------------------------------------------
\* The world starts.

LEMMA EmptyIndex ==
    ASSUME NEW ids
    PROVE  hashid_init(Cap) \in Indexes(ids) /\ Indexed(hashid_init(Cap), {})
<1> DEFINE hi == hashid_init(Cap)
           f == [k \in 1 .. Cap |-> k - 1]
<1>1. hi.free = f /\ hi.used = <<>> /\ hi \in [free : {hi.free}, used : {hi.used}]
  BY DEF hashid_init
<1>2. Cap \in Nat
  BY FreeidAssumption
<1>3. f \in Seq(Ids) /\ Len(f) = Cap
  <2>1. \A k \in 1 .. Cap : k - 1 \in Ids
    BY <1>2 DEF Ids
  <2>2. f \in [1 .. Cap -> Ids]
    BY <2>1
  <2> HIDE DEF f
  <2>3. f \in Seq(Ids)
    BY <1>2, <2>2
  <2>4. DOMAIN f = 1 .. Cap
    BY <2>2
  <2> QED
    BY <1>2, <2>3, <2>4, LenProperties
<1>4. <<>> \in Seq([id : ids, slot : Ids]) /\ Len(<<>>) = 0
  OBVIOUS
<1> HIDE DEF f, hi
<1>5. hi \in Indexes(ids)
  BY <1>1, <1>3, <1>4 DEF Indexes
<1>6. Len(hi.used) = 0
  BY <1>1, <1>4
<1>7. UsedIds(hi) = {} /\ DOMAIN hi.used = {}
  <2>1. 1 .. 0 = {}
    OBVIOUS
  <2> QED
    BY <1>5, <1>6, <2>1, UsedIdsAre
<1>8. Len(hi.free) + Len(hi.used) = Cap
  BY <1>1, <1>2, <1>3, <1>6
<1> QED
  BY <1>5, <1>7, <1>8 DEF Indexed, hi

LEMMA EmptyTables ==
    _allocplayers \in Worlds /\ TableInv(_allocplayers) /\ LiveIn(_allocplayers.fi) = {}
<1> DEFINE t == _allocplayers
           P == [i \in Ids |-> player]
<1>1. t.fi = freeid_init /\ t.hi = hashid_init(Cap) /\ t.hi2 = hashid_init(Cap) /\ t.p = P /\ t.abort = "none"
      /\ t \in [fi : {t.fi}, hi : {t.hi}, hi2 : {t.hi2}, p : {t.p}, abort : {t.abort}]
  BY DEF _allocplayers
<1>2. WellFormed(freeid_init) /\ freeid_init \in FreeidType
  BY InitIsWellFormed DEF WellFormed
<1>3. LiveIn(freeid_init) = {}
  BY NotAnId DEF LiveIn, freeid_init
<1>4. player \in Players
  <2>1. 0 \in 0 .. CreateTimes
    <3>1. CreateTimes \in Nat
      BY WorldAssumption
    <3> QED
      BY <3>1
  <2>2. "FREE" \in Statuses \ {"LOGIN"}
    BY DEF Statuses
  <2> QED
    BY <2>1, <2>2 DEF player, Players
<1>5. P \in [Ids -> Players] /\ \A i \in Ids : P[i] = player
  BY <1>4
<1> HIDE DEF t, P
<1>6. t \in Worlds
  BY <1>1, <1>2, <1>5, EmptyIndex DEF Worlds
<1>7. SlotsOK(t.fi, t.p)
  <2>1. player.accid = 0 /\ player.charid = 0 /\ player.name = "" /\ player.status = "FREE"
    BY DEF player
  <2> QED
    BY <1>1, <1>2, <1>3, <1>5, <2>1 DEF SlotsOK
<1>8. AccidsOf(t.fi, t.p) = {} /\ CharidsOf(t.fi, t.p) = {}
  BY <1>1, <1>3 DEF AccidsOf, CharidsOf
<1>9. TableInv(t)
  BY <1>1, <1>7, <1>8, EmptyIndex DEF TableInv
<1> QED
  BY <1>1, <1>3, <1>6, <1>9 DEF t

\* With nobody in it and nothing on the way, what matters is in the database.
LEMMA StartHolds ==
    ASSUME NEW d \in Databases, NEW s \in SUBSET Charids, NEW m \in SUBSET {"lost", "stale", "raced"},
           Accords(_allocplayers, d, <<>>, s, m)
    PROVE  Inv(_allocplayers, d, <<>>, s, m, {})
<1>1. _allocplayers \in Worlds /\ TableInv(_allocplayers) /\ LiveIn(_allocplayers.fi) = {}
  BY EmptyTables
<1>2. Typed(_allocplayers, d, <<>>, s, m)
  BY <1>1 DEF Typed
<1>3. Current(_allocplayers, <<>>)
  BY DEF Current
<1>4. Waits(_allocplayers, <<>>, m, {})
  BY <1>1 DEF Waits
<1> QED
  BY <1>1, <1>2, <1>3, <1>4 DEF Inv

LEMMA EmptyAccords ==
    ASSUME NEW d, BoundOK(d), CharNames(d), NEW s, NEW m,
           \A c \in Charids : d.char[c].name # NoName => d.char[c].data = c
    PROVE  Accords(_allocplayers, d, <<>>, s, m)
<1> DEFINE t == _allocplayers
           w == <<>>
<1>1. LiveIn(t.fi) = {}
  BY EmptyTables
<1>2. DOMAIN w = {}
  OBVIOUS
<1> HIDE DEF t, w
<1>3. OwnInv(t, d, w)
  BY <1>1, <1>2 DEF OwnInv, PlayersOwn, RepliesOwn
<1>4. InStep(t, w, m)
  BY <1>1 DEF InStep
<1>5. DataInv(t, d, w, s, m)
  BY <1>1, <1>2 DEF DataInv
<1>6. NameInv(t, d, w, m)
  BY <1>1, <1>2 DEF NameInv, LoadedNames, NoTwoReserve
<1> QED
  BY <1>3, <1>4, <1>5, <1>6 DEF Accords, t, w

LEMMA OldDatabaseIs ==
    /\ EmptyDb \in Databases /\ BoundOK(EmptyDb) /\ CharNames(EmptyDb)
    /\ \A c \in Charids : EmptyDb.char[c].name = NoName
    /\ \A a \in Accounts :
         /\ OldDb(a) \in Databases /\ BoundOK(OldDb(a)) /\ CharNames(OldDb(a))
         /\ \A c \in Charids : OldDb(a).char[c].name # NoName => OldDb(a).char[c].data = c
<1> DEFINE U == [a \in Accounts |-> 0]
           C == [c \in {0} \cup Charids |-> NoRecord]
           r == [data |-> 1, name |-> OldName]
<1>1. MaxChar \in Nat \ {0}
  BY WorldAssumption
<1>2. 0 \in 0 .. MaxChar /\ 1 \in 0 .. MaxChar /\ 1 \in Charids /\ 0 \notin Charids
  BY <1>1 DEF Charids
<1>3. /\ NoRecord \in Records /\ NoRecord.name = NoName /\ r \in Records /\ r.name = OldName /\ r.data = 1
      /\ OldName # NoName
  BY <1>2 DEF NoRecord, Records, OldName, NoName
<1>4. U \in [Accounts -> {0} \cup Charids] /\ C \in [{0} \cup Charids -> Records]
  BY <1>3
<1>5. /\ EmptyDb.user = U /\ EmptyDb.names = {} /\ EmptyDb.lastid = 0 /\ EmptyDb.char = C
      /\ EmptyDb \in [user : {EmptyDb.user}, names : {EmptyDb.names}, lastid : {EmptyDb.lastid},
                      char : {EmptyDb.char}]
  BY DEF EmptyDb
<1>6. \A c \in Charids : C[c].name = NoName
  BY <1>3
<1> HIDE DEF C, r
<1>7. EmptyDb \in Databases
  BY <1>2, <1>4, <1>5 DEF Databases
<1>8. BoundOK(EmptyDb) /\ CharNames(EmptyDb)
  BY <1>5, <1>6 DEF BoundOK, CharNames
<1>9. ASSUME NEW a \in Accounts
      PROVE  /\ OldDb(a) \in Databases /\ BoundOK(OldDb(a)) /\ CharNames(OldDb(a))
             /\ \A c \in Charids : OldDb(a).char[c].name # NoName => OldDb(a).char[c].data = c
  <2> DEFINE d == OldDb(a)
  <2>1. /\ d.user = [U EXCEPT ![a] = 1] /\ d.names = {OldName} /\ d.lastid = 1 /\ d.char = [C EXCEPT ![1] = r]
        /\ d \in [user : {d.user}, names : {d.names}, lastid : {d.lastid}, char : {d.char}]
    BY <1>5 DEF OldDb, r
  <2> HIDE DEF d, U
  <2>2. d.user \in [Accounts -> {0} \cup Charids] /\ d.char \in [{0} \cup Charids -> Records]
    BY <1>2, <1>3, <1>4, <2>1
  <2>3. \A b \in Accounts : d.user[b] = IF b = a THEN 1 ELSE 0
    <3>1. \A b \in Accounts : U[b] = 0
      BY DEF U
    <3> QED
      BY <1>4, <2>1, <3>1
  <2>4. \A c \in Charids : d.char[c] = IF c = 1 THEN r ELSE C[c]
    BY <1>2, <1>4, <2>1
  <2>5. \A c \in Charids : d.char[c].name = IF c = 1 THEN OldName ELSE NoName
    BY <1>3, <1>6, <2>4
  <2>6. d \in Databases
    BY <1>2, <2>1, <2>2 DEF Databases
  <2>7. BoundOK(d)
    BY <1>2, <1>3, <2>1, <2>3, <2>5 DEF BoundOK
  <2>8. CharNames(d)
    BY <1>3, <2>1, <2>5 DEF CharNames
  <2>9. \A c \in Charids : d.char[c].name # NoName => d.char[c].data = c
    BY <1>3, <2>4, <2>5
  <2> QED
    BY <2>6, <2>7, <2>8, <2>9 DEF d
<1> QED
  BY <1>5, <1>6, <1>7, <1>8, <1>9

LEMMA InitHolds == Init => IInv
<1> SUFFICES ASSUME Init PROVE IInv
  OBVIOUS
<1>1. ph = _allocplayers /\ wire = <<>> /\ spoilt = {} /\ mishaps = {}
  BY DEF Init
<1>2. /\ db \in Databases /\ BoundOK(db) /\ CharNames(db)
      /\ \A c \in Charids : db.char[c].name # NoName => db.char[c].data = c
  <2>1. db = EmptyDb \/ \E a \in Accounts : db = OldDb(a)
    BY DEF Init
  <2> QED
    BY <2>1, OldDatabaseIs
<1>3. Accords(_allocplayers, db, <<>>, {}, {})
  BY <1>2, EmptyAccords
<1> QED
  BY <1>1, <1>2, <1>3, StartHolds DEF IInv

LEMMA RestartHolds == IInv /\ Restart => IInv'
<1> SUFFICES ASSUME IInv, Restart PROVE IInv'
  OBVIOUS
<1>1. ph' = _allocplayers /\ wire' = <<>> /\ db' = db /\ spoilt' = spoilt /\ mishaps' = mishaps
  BY DEF Restart
<1>2. /\ db \in Databases /\ spoilt \in SUBSET Charids /\ mishaps \in SUBSET {"lost", "stale", "raced"}
      /\ wire \in Seq(Replies) /\ Accords(ph, db, wire, spoilt, mishaps)
  BY DEF IInv, Inv, Typed
<1>3. Fewer(_allocplayers, ph)
  BY EmptyTables DEF Fewer
<1>4. Kept(<<>>, wire, 0)
  <2>1. DOMAIN wire \subseteq Nat
    BY <1>2, WireIs
  <2> QED
    BY <2>1 DEF Kept
<1>5. Accords(_allocplayers, db, <<>>, spoilt, mishaps)
  BY <1>2, <1>3, <1>4, LessKeeps
<1>6. Inv(_allocplayers, db, <<>>, spoilt, mishaps, {})
  BY <1>2, <1>5, StartHolds
<1> QED
  BY <1>1, <1>6 DEF IInv

-----------------------------------------------------------------------------
\* Every step.

LEMMA StateHolds ==
    ASSUME IInv
    PROVE  /\ Holds(State, {}) /\ State.ph = ph /\ State.db = db /\ State.wire = wire
           /\ State.spoilt = spoilt /\ State.mishaps = mishaps
<1>1. ph \in Worlds /\ db \in Databases /\ wire \in Seq(Replies)
      /\ spoilt \subseteq Charids /\ mishaps \subseteq {"lost", "stale", "raced"}
  BY DEF IInv, Inv, Typed
<1>2. State \in States
  BY <1>1 DEF State, States
<1>3. /\ State.ph = ph /\ State.db = db /\ State.wire = wire
      /\ State.spoilt = spoilt /\ State.mishaps = mishaps
  BY DEF State
<1> QED
  BY <1>2, <1>3 DEF Holds, IInv

LEMMA BecomesHolds ==
    ASSUME NEW v, Holds(v, {}), Becomes(v)
    PROVE  IInv'
<1> QED
  BY DEF Becomes, Holds, IInv

LEMMA FatesAre == Fates \subseteq {"ok"} \cup AllFaults
<1> QED
  BY WorldAssumption DEF Fates

\* What HandleReply does: the reply is taken, and handled.
LEMMA HandleReplyIs ==
    ASSUME IInv, NEW type, NEW fate, HandleReply(type, fate)
    PROVE  \E i \in LiveIn(ph.fi) :
             /\ i = Addressee(State, Head(wire)) /\ wire # <<>> /\ Head(wire).type = type
             /\ Arrived(Opened(State), i, Head(wire))
             /\ Becomes(_handle_redis(Opened(State), i, Head(wire), fate))
<1> DEFINE r == Head(wire)
           i == Addressee(State, r)
           w == IF r.old THEN Note(State, "stale") ELSE State
<1>1. wire # <<>> /\ i # -1 /\ r.type = type /\ Becomes(_handle_redis(Taken(w), i, r, fate))
  BY DEF HandleReply
<1>2. Holds(State, {}) /\ State.wire = wire /\ State.ph = ph
  BY StateHolds
<1>3. Opened(State) = Taken(w)
  BY <1>2 DEF Opened
<1> HIDE DEF w, i
<1>4. Arrived(Opened(State), i, r)
  <2>1. i = Addressee(State, Head(State.wire)) /\ State.wire # <<>>
    BY <1>1, <1>2 DEF i
  <2>2. Arrived(Opened(State), i, Head(State.wire))
    BY <1>1, <1>2, <2>1, ReplyArrives
  <2> QED
    BY <1>2, <2>2
<1>5. i \in LiveIn(ph.fi)
  <2>1. State \in States
    BY <1>2 DEF Holds
  <2>2. Opened(State).ph = ph
    BY <1>1, <1>2, <2>1, TakenIs
  <2> QED
    BY <1>4, <2>2 DEF Arrived
<1> QED
  BY <1>1, <1>3, <1>4, <1>5 DEF i

\* Whom the actions of clients are about.
LEMMA PlayerOf ==
    ASSUME IInv, NEW conn
    PROVE  _getplayer(State, conn) # -1 => _getplayer(State, conn) \in LiveIn(ph.fi)
<1> QED
  BY StateHolds, PlayerIsLive

LEMMA NextHolds == IInv /\ [Next]_vars => IInv'
<1> SUFFICES ASSUME IInv, [Next]_vars PROVE IInv'
  OBVIOUS
<1>1. /\ Holds(State, {}) /\ State.ph = ph /\ State.wire = wire
  BY StateHolds
<1>2. CASE DropReply
  <2>1. Becomes(Taken(State)) /\ State.wire # <<>> /\ Addressee(State, Head(State.wire)) = -1
    BY <1>1, <1>2 DEF DropReply
  <2>2. Holds(Taken(State), {})
    BY <1>1, <2>1, DropKeeps
  <2> QED
    BY <2>1, <2>2, BecomesHolds
<1>3. CASE Restart
  BY <1>3, RestartHolds
<1>4. ASSUME NEW fate \in Fates, NEW type \in PdbTypes \ {"SAVE"}, HandleReply(type, fate)
      PROVE  IInv'
  <2>1. fate \in {"ok"} \cup AllFaults
    BY FatesAre
  <2>2. PICK i \in LiveIn(ph.fi) : /\ Arrived(Opened(State), i, Head(wire))
                                   /\ Becomes(_handle_redis(Opened(State), i, Head(wire), fate))
    BY <1>4, HandleReplyIs
  <2>3. Holds(_handle_redis(Opened(State), i, Head(wire), fate), {})
    BY <2>1, <2>2, HandleRedisKeeps
  <2> QED
    BY <2>2, <2>3, BecomesHolds
<1>5. ASSUME NEW fate \in Fates, NEW conn \in Conns, NEW accid \in Accounts, Login(conn, accid, fate)
      PROVE  IInv'
  <2>1. fate \in {"ok"} \cup AllFaults
    BY FatesAre
  <2>2. Becomes(_login(State, conn, accid, fate)) /\ State.ph.abort = "none"
    BY <1>1, <1>5 DEF Login, Running
  <2>3. Holds(_login(State, conn, accid, fate), {})
    BY <1>1, <2>1, <2>2, LoginKeeps
  <2> QED
    BY <2>2, <2>3, BecomesHolds
<1>6. ASSUME NEW fate \in Fates, NEW conn \in Conns, NEW name \in Names, CharCreate(conn, name, fate)
      PROVE  IInv'
  <2> DEFINE i == _getplayer(State, conn)
  <2>1. fate \in {"ok"} \cup AllFaults
    BY FatesAre
  <2>2. i # -1 /\ State.ph.p[i].status = "WAITCREATECHAR" /\ Becomes(_createchar(State, i, name, fate))
    BY <1>1, <1>6 DEF CharCreate
  <2>3. i \in LiveIn(State.ph.fi)
    BY <1>1, <2>2, PlayerOf
  <2> HIDE DEF i
  <2>4. Holds(_createchar(State, i, name, fate), {})
    BY <1>1, <2>1, <2>2, <2>3, CharCreateKeeps
  <2> QED
    BY <2>2, <2>4, BecomesHolds
<1>7. ASSUME NEW fate \in Fates, NEW conn \in Conns, Logout(conn, fate)
      PROVE  IInv'
  <2> DEFINE i == _getplayer(State, conn)
  <2>1. fate \in {"ok"} \cup AllFaults
    BY FatesAre
  <2>2. i # -1 /\ Becomes(_logout(State, i, fate))
    BY <1>7 DEF Logout
  <2>3. i \in LiveIn(State.ph.fi)
    BY <1>1, <2>2, PlayerOf
  <2> HIDE DEF i
  <2>4. Holds(_logout(State, i, fate), {})
    BY <1>1, <2>1, <2>3, LogoutKeeps
  <2> QED
    BY <2>2, <2>4, BecomesHolds
<1>8. ASSUME NEW fate \in Fates, NEW conn \in Conns, Change(conn, fate)
      PROVE  IInv'
  <2> DEFINE i == _getplayer(State, conn)
  <2>1. fate \in {"ok"} \cup AllFaults
    BY FatesAre
  <2>2. i # -1 /\ Becomes(SaveAnyStatus(State, i, fate))
    BY <1>8 DEF Change
  <2>3. i \in LiveIn(State.ph.fi)
    BY <1>1, <2>2, PlayerOf
  <2> HIDE DEF i
  <2>4. Holds(SaveAnyStatus(State, i, fate), {})
    BY <1>1, <2>1, <2>3, SaveKeeps
  <2> QED
    BY <2>2, <2>4, BecomesHolds
<1>9. CASE UNCHANGED vars
  BY <1>9 DEF vars, IInv
<1> QED
  BY <1>2, <1>3, <1>4, <1>5, <1>6, <1>7, <1>8, <1>9 DEF Next

\* The inductive invariant holds in every reachable state.
THEOREM Invariance == Spec => []IInv
<1> QED
  BY InitHolds, NextHolds, PTL DEF Spec

-----------------------------------------------------------------------------
\* What the invariant says of the world.

LEMMA PartsOfIt ==
    ASSUME IInv
    PROVE  Live = LiveIn(ph.fi) /\ SlotsOK(ph.fi, ph.p) /\ OwnInv(ph, db, wire) /\ DataInv(ph, db, wire, spoilt, mishaps)
           /\ NameInv(ph, db, wire, mishaps)
<1> QED
  BY DEF IInv, Inv, TableInv, Accords, Live, LiveIn

LEMMA IndexType ==
    ASSUME NEW ids, NEW hi \in Indexes(ids)
    PROVE  HashidType(hi, ids, Ids)
<1>1. hi.free \in Seq(Ids)
  BY DEF Indexes
<1>2. ToSet(hi.used) = {hi.used[k] : k \in DOMAIN hi.used}
  BY DEF ToSet
<1> QED
  BY <1>1, <1>2, UsedIdsAre DEF HashidType

LEMMA TypesHold == IInv => TypeOK
<1> SUFFICES ASSUME IInv PROVE TypeOK
  OBVIOUS
<1>1. Typed(ph, db, wire, spoilt, mishaps)
  BY DEF IInv, Inv
<1>2. ph.fi \in FreeidType /\ ph.p \in [Ids -> Players] /\ ph.abort \in {"none", "status"}
      /\ ph.hi \in Indexes(Charids) /\ ph.hi2 \in Indexes(Accounts)
  BY <1>1 DEF Typed, Worlds
<1>3. HashidType(ph.hi, Charids, Ids) /\ HashidType(ph.hi2, Accounts, Ids)
  BY <1>2, IndexType
<1>4. /\ db.user \in [Accounts -> {0} \cup Charids] /\ db.names \subseteq Names \cup {"", OldName}
      /\ db.lastid \in 0 .. MaxChar /\ db.char \in [{0} \cup Charids -> Records]
  BY <1>1 DEF Typed, Databases
<1>5. \A k \in DOMAIN wire : wire[k].type \in PdbTypes \ {"SAVE"} /\ wire[k].record \in Records
  <2>1. \A k \in DOMAIN wire : wire[k] \in Replies
    BY <1>1, WireIs DEF Typed
  <2> QED
    BY <2>1 DEF Replies
<1>6. spoilt \subseteq Charids /\ mishaps \subseteq {"lost", "stale", "raced"}
  BY <1>1 DEF Typed
<1> QED
  BY <1>2, <1>3, <1>4, <1>5, <1>6 DEF TypeOK, Players

\* An index of what distinguishes some live players has an entry for each.
LEMMA IndexCounts ==
    ASSUME NEW ids, NEW hi \in Indexes(ids), NEW S \in SUBSET Live, NEW V, NEW f \in Bijection(S, V),
           Indexed(hi, V)
    PROVE  Len(hi.used) = Cardinality(S)
<1>1. IsFiniteSet(V) /\ Cardinality(V) = Len(hi.used)
  BY IndexSize
<1>2. IsFiniteSet(S)
  <2>1. S \in SUBSET LiveIn(ph.fi)
    BY DEF Live, LiveIn
  <2>2. IsFiniteSet(LiveIn(ph.fi))
    BY LiveIsFinite
  <2> QED
    BY <2>1, <2>2, FS_Subset
<1>3. ExistsBijection(S, V)
  BY DEF ExistsBijection
<1>4. Cardinality(V) = Cardinality(S)
  BY <1>2, <1>3, FS_Bijection
<1> QED
  BY <1>1, <1>4

LEMMA IndexHolds == IInv => IndexIsExact
<1> DEFINE withchar == {i \in Live : ph.p[i].charid # 0}
           accid == [i \in Live |-> ph.p[i].accid]
           charid == [i \in withchar |-> ph.p[i].charid]
<1> SUFFICES ASSUME IInv PROVE IndexIsExact
  OBVIOUS
<1>1. /\ ph.hi \in Indexes(Charids) /\ ph.hi2 \in Indexes(Accounts)
      /\ Indexed(ph.hi2, AccidsOf(ph.fi, ph.p)) /\ Indexed(ph.hi, CharidsOf(ph.fi, ph.p))
  BY DEF IInv, Inv, Typed, TableInv, Worlds
<1>2. Live = LiveIn(ph.fi) /\ SlotsOK(ph.fi, ph.p)
  BY PartsOfIt
<1>3. \A i, j \in Live : i # j =>
        ph.p[i].accid # ph.p[j].accid /\ (ph.p[i].charid = ph.p[j].charid => ph.p[i].charid = 0)
  BY <1>2 DEF SlotsOK
<1>4. AccidsOf(ph.fi, ph.p) = {ph.p[i].accid : i \in Live}
  BY <1>2 DEF AccidsOf
<1>5. CharidsOf(ph.fi, ph.p) = {ph.p[i].charid : i \in withchar}
  BY <1>2 DEF CharidsOf
<1>6. accid \in Bijection(Live, AccidsOf(ph.fi, ph.p))
  BY <1>3, <1>4 DEF Bijection, Injection, IsInjective, Surjection
<1>7. charid \in Bijection(withchar, CharidsOf(ph.fi, ph.p))
  BY <1>3, <1>5 DEF Bijection, Injection, IsInjective, Surjection
<1>8. withchar \in SUBSET Live
  OBVIOUS
<1> HIDE DEF accid, charid, withchar
<1>9. Len(ph.hi2.used) = Cardinality(Live) /\ Len(ph.hi.used) = Cardinality(withchar)
  BY <1>1, <1>6, <1>7, <1>8, IndexCounts
<1>10. UsedIds(ph.hi2) = {ph.p[i].accid : i \in Live} /\ UsedIds(ph.hi) = {ph.p[i].charid : i \in withchar}
  BY <1>1, <1>4, <1>5 DEF Indexed
<1> QED
  BY <1>3, <1>9, <1>10 DEF IndexIsExact, withchar

\* TableOK: every value has its type, and the two indexes of the world hold the
\* account and the character of each player in the table, once, and nothing else,
\* whatever order logins, logouts, answers, lost requests and restarts come in.
THEOREM TablesStayExact == Spec => []TableOK
<1>1. IInv => TableOK
  BY TypesHold, IndexHolds DEF TableOK
<1> QED
  BY <1>1, Invariance, PTL

\* AbortCause: of the asserts of player.c only that on the status of the player to be
\* freed can fail; the slot an allocation takes is empty, and the connection's slot
\* is the player's.
THEOREM OnlyStatusAborts == Spec => []AbortCause
<1>1. IInv => AbortCause
  BY DEF IInv, Inv, Typed, Worlds, AbortCause
<1> QED
  BY <1>1, Invariance, PTL

\* GameIsBound: who plays, plays the character the database has bound to its account,
\* under the name of its record, as far as no answer came to the wrong question.
THEOREM PlayersPlayTheirs == Spec => []GameIsBound
<1>1. IInv => GameIsBound
  <2> SUFFICES ASSUME IInv, NEW i \in Live, ph.p[i].status = "GAME"
               PROVE  /\ db.user[ph.p[i].accid] = ph.p[i].charid
                      /\ mishaps \cap {"raced", "stale"} = {} => ph.p[i].name = db.char[ph.p[i].charid].name
    BY DEF GameIsBound
  <2>1. db.user[ph.p[i].accid] = ph.p[i].charid
    BY PartsOfIt DEF OwnInv, PlayersOwn
  <2>2. mishaps \cap {"raced", "stale"} = {} => PlayerName(ph, db, wire, i)
    BY PartsOfIt DEF NameInv
  <2>3. Created(ph, wire, i)
    BY DEF Created
  <2> QED
    BY <2>1, <2>2, <2>3 DEF PlayerName
<1> QED
  BY <1>1, Invariance, PTL

\* BoundCharLoads: the database never binds an account to a character without a
\* record, nor two accounts to one, wherever a creation is broken off.
THEOREM BoundCharsLoad == Spec => []BoundCharLoads
<1>1. IInv => BoundCharLoads
  <2> SUFFICES ASSUME IInv PROVE BoundCharLoads
    OBVIOUS
  <2>1. BoundOK(db)
    BY PartsOfIt DEF OwnInv
  <2> QED
    BY <2>1 DEF BoundOK, BoundCharLoads
<1> QED
  BY <1>1, Invariance, PTL

\* RecordIsOwn: the values of a character are its own, in its record and in the game,
\* but for the characters a creation or an early save has spoilt.
THEOREM RecordsAreOwn == Spec => []RecordIsOwn
<1>1. IInv => RecordIsOwn
  <2> SUFFICES ASSUME IInv PROVE RecordIsOwn
    OBVIOUS
  <2>1. \A i \in Live : ph.p[i].status = "GAME" => ph.p[i].charid # 0
    BY PartsOfIt DEF OwnInv, PlayersOwn
  <2> QED
    BY <2>1, PartsOfIt DEF DataInv, RecordIsOwn
<1> QED
  BY <1>1, Invariance, PTL

\* NamesAreUnique: a name that is looked up, reserved and written in three requests
\* is still given to one character only, unless requests for it were answered at once.
THEOREM NamesStayUnique == Spec => []NamesAreUnique
<1>1. IInv => NamesAreUnique
  <2> SUFFICES ASSUME IInv, mishaps \cap {"raced", "stale"} = {} PROVE NamesAreUnique
    BY DEF NamesAreUnique
  <2>1. CharNames(db)
    BY PartsOfIt DEF NameInv
  <2> QED
    BY <2>1 DEF CharNames, NamesAreUnique
<1> QED
  BY <1>1, Invariance, PTL

\* WaitIsAnswered: as long as no request is lost, the reply a player's status calls
\* for is on its way.
THEOREM WaitsAreAnswered == Spec => []WaitIsAnswered
<1>1. IInv => WaitIsAnswered
  <2> SUFFICES ASSUME IInv PROVE WaitIsAnswered
    OBVIOUS
  <2>1. Waits(ph, wire, mishaps, {}) /\ Live = LiveIn(ph.fi)
    BY PartsOfIt DEF IInv, Inv
  <2> QED
    BY <2>1 DEF Waits, WaitIsAnswered, Running
<1> QED
  BY <1>1, Invariance, PTL

-----------------------------------------------------------------------------
\* GameIsFinal: a handler changes one player at most.

Shape(w) ==
    /\ {"ph", "db", "wire", "spoilt", "mishaps"} \subseteq DOMAIN w
    /\ {"fi", "hi", "hi2", "p", "abort"} \subseteq DOMAIN w.ph
    /\ DOMAIN w.ph.p = Ids

\* v is w but for the i-th player, and for the tables, the database and the wire; what
\* has gone wrong has gone wrong.
Only(w, v, i) ==
    Shape(v) /\ w.mishaps \subseteq v.mishaps /\ \A j \in Ids \ {i} : v.ph.p[j] = w.ph.p[j]

LEMMA OnlyAll ==
    ASSUME NEW u, NEW v, NEW w, NEW i, Only(u, v, i), Only(v, w, i)
    PROVE  Only(u, w, i)
<1> QED
  BY DEF Only

\* Changes to the tables, to the i-th player, to what is not in ph.
LEMMA PlayerOnly ==
    ASSUME NEW w, Shape(w), NEW v, DOMAIN v = DOMAIN w, v.mishaps = w.mishaps,
           DOMAIN v.ph = DOMAIN w.ph, DOMAIN v.ph.p = Ids, NEW i, \A j \in Ids \ {i} : v.ph.p[j] = w.ph.p[j]
    PROVE  Only(w, v, i)
<1> QED
  BY DEF Only, Shape

LEMMA FreeOnly ==
    ASSUME NEW w, Shape(w), NEW i \in Ids
    PROVE  /\ Only(w, _freeplayer(w, i), i)
           /\ _freeplayer(w, i).ph.p[i].status \in {"FREE", w.ph.p[i].status}
<1> DEFINE v == _freeplayer(w, i)
           p == w.ph.p[i]
           q == [p EXCEPT !.conn = 0, !.status = "FREE", !.accid = 0, !.charid = 0, !.name = ""]
<1>1. CASE p.status = "FREE" \/ freeid_find(w.ph.fi, p.conn) # i
  <2>1. v = Fail(w, "status") \/ v = Fail(w, "id1")
    BY <1>1 DEF _freeplayer
  <2>2. ASSUME NEW assert, v = Fail(w, assert)
        PROVE  v.ph.p = w.ph.p /\ DOMAIN v = DOMAIN w /\ v.mishaps = w.mishaps /\ DOMAIN v.ph = DOMAIN w.ph
    BY <2>2 DEF Fail, Shape
  <2> HIDE DEF v
  <2>3. v.ph.p = w.ph.p /\ DOMAIN v = DOMAIN w /\ v.mishaps = w.mishaps /\ DOMAIN v.ph = DOMAIN w.ph
    BY <2>1, <2>2
  <2>4. DOMAIN v.ph.p = Ids
    BY <2>3 DEF Shape
  <2>5. Only(w, v, i)
    BY <2>3, <2>4, PlayerOnly
  <2> QED
    BY <2>3, <2>5 DEF v
<1>2. CASE p.status # "FREE" /\ freeid_find(w.ph.fi, p.conn) = i
  <2>1. /\ DOMAIN v = DOMAIN w /\ v.mishaps = w.mishaps /\ DOMAIN v.ph = DOMAIN w.ph
        /\ v.ph.p = [w.ph.p EXCEPT ![i] = q]
    BY <1>2 DEF _freeplayer, Shape
  <2>2. q.status = "FREE" \/ q.status = p.status
    OBVIOUS
  <2> HIDE DEF v, q
  <2>3. DOMAIN v.ph.p = Ids /\ v.ph.p[i] = q /\ \A j \in Ids \ {i} : v.ph.p[j] = w.ph.p[j]
    BY <2>1 DEF Shape
  <2>4. Only(w, v, i)
    BY <2>1, <2>3, PlayerOnly
  <2> QED
    BY <2>2, <2>3, <2>4 DEF v
<1> QED
  BY <1>1, <1>2

LEMMA SentOnly ==
    ASSUME NEW w, Shape(w), NEW i, NEW type, NEW fate
    PROVE  Only(w, Sent(w, i, type, fate), i)
<1> DEFINE v == Sent(w, i, type, fate)
<1>1. v.ph = w.ph /\ DOMAIN v = DOMAIN w /\ w.mishaps \subseteq v.mishaps
  BY DEF Sent, Shape
<1> QED
  BY <1>1 DEF Only, Shape

LEMMA DbOnly ==
    ASSUME NEW w, Shape(w), NEW i \in Ids, NEW type, NEW fate
    PROVE  Only(w, _db(w, i, type, fate), i)
<1> DEFINE p == w.ph.p[i]
           x == [w EXCEPT !.ph.p[i].data = p.charid]
           y == [w EXCEPT !.spoilt = @ \cup {p.charid}]
<1>1. Only(w, x, i) /\ Only(w, y, i)
  BY DEF Only, Shape
<1>2. Only(x, Sent(x, i, type, fate), i) /\ Only(y, Sent(y, i, type, fate), i)
      /\ Only(w, Sent(w, i, type, fate), i)
  <2> HIDE DEF x, y
  <2> QED
    BY <1>1, SentOnly DEF Only
<1>3. \/ _db(w, i, type, fate) = Sent(w, i, type, fate)
      \/ _db(w, i, type, fate) = Sent(x, i, type, fate)
      \/ _db(w, i, type, fate) = Sent(y, i, type, fate)
  BY DEF _db
<1> HIDE DEF x, y
<1> QED
  BY <1>1, <1>2, <1>3, OnlyAll

\* A player with another status, or with the id a reply carries.
LEMMA StatusOnly ==
    ASSUME NEW w, Shape(w), NEW i \in Ids, NEW x
    PROVE  Only(w, Status(w, i, x), i) /\ Only(w, _hashplayer(w, i, x), i)
<1> QED
  BY DEF Status, _hashplayer, Only, Shape

LEMMA ServiceOnly ==
    ASSUME NEW w, Shape(w), NEW i \in Ids, NEW err
    PROVE  Only(w, world_service(w, i, err), i)
<1>1. Only(w, w, i) /\ Only(w, [w EXCEPT !.ph.p[i].status = "GAME"], i)
  BY DEF Only, Shape
<1>2. Only(w, _freeplayer(w, i), i)
  BY FreeOnly
<1> QED
  BY <1>1, <1>2 DEF world_service

LEMMA GoesOnly ==
    ASSUME NEW w, Shape(w), NEW i \in Ids, NEW status, NEW type, NEW fate
    PROVE  Only(w, Goes(w, i, status, type, fate), i)
<1> DEFINE s == Status(w, i, status)
<1>1. Only(w, s, i)
  BY StatusOnly
<1> HIDE DEF s
<1>2. Only(s, _db(s, i, type, fate), i)
  BY <1>1, DbOnly DEF Only
<1> QED
  BY <1>1, <1>2, OnlyAll DEF Goes, s

\* A change of the i-th player followed by the result, or by a request.
LEMMA ThenOnly ==
    ASSUME NEW w, NEW v, NEW i \in Ids, Only(w, v, i), NEW err, NEW status, NEW type, NEW fate
    PROVE  /\ Only(w, world_service(v, i, err), i) /\ Only(w, Goes(v, i, status, type, fate), i)
           /\ Only(w, world_service(Status(v, i, status), i, err), i)
<1>1. Shape(v)
  BY DEF Only
<1>2. Only(v, world_service(v, i, err), i) /\ Only(v, Goes(v, i, status, type, fate), i)
  BY <1>1, ServiceOnly, GoesOnly
<1>3. Only(v, Status(v, i, status), i)
  BY <1>1, StatusOnly
<1>4. Only(Status(v, i, status), world_service(Status(v, i, status), i, err), i)
  BY <1>3, ServiceOnly DEF Only
<1> QED
  BY <1>2, <1>3, <1>4, OnlyAll

LEMMA HandleRedisOnly ==
    ASSUME NEW w, Shape(w), NEW i \in Ids, NEW r, NEW fate,
           r.type \in {"QUERY", "CHECKNAME", "SAVENAME", "CHARID", "CREATE", "BINDCHARID", "LOAD"}
    PROVE  Only(w, _handle_redis(w, i, r, fate), i)
<1>0. Only(w, w, i)
  BY DEF Only
<1>1. Only(w, _hashplayer(w, i, r.value), i)
  BY StatusOnly
<1>2. Only(w, OnQuery(w, i, r, fate), i)
  BY <1>0, <1>1, ThenOnly DEF OnQuery
<1>3. Only(w, OnCheckname(w, i, r, fate), i)
  <2> DEFINE refused == [Status(w, i, "WAITCREATECHAR") EXCEPT !.ph.p[i].times = @ + 1]
  <2>1. Only(w, Status(w, i, "WAITCREATECHAR"), i)
    BY StatusOnly
  <2>2. ASSUME NEW v, Only(w, v, i) PROVE Only(w, [v EXCEPT !.ph.p[i].times = @ + 1], i)
    BY <2>2 DEF Only, Shape
  <2>3. Only(w, refused, i)
    BY <2>1, <2>2
  <2> HIDE DEF refused
  <2>4. /\ Only(w, world_service(refused, i, "CREATECHARMUCHTIMES"), i)
        /\ Only(w, world_service(refused, i, "NAMEEXIST"), i)
        /\ Only(w, Goes(w, i, "SAVECHARNAME", "SAVENAME", fate), i)
    BY <1>0, <2>3, ThenOnly
  <2> QED
    BY <2>4 DEF OnCheckname, refused
<1>4. Only(w, OnSavename(w, i, r, fate), i)
  BY <1>0, ThenOnly DEF OnSavename
<1>5. Only(w, OnCharid(w, i, r, fate), i)
  BY <1>0, <1>1, ThenOnly DEF OnCharid
<1>6. Only(w, OnCreate(w, i, r, fate), i)
  BY <1>0, ThenOnly DEF OnCreate
<1>7. Only(w, OnBindcharid(w, i, r, fate), i)
  BY <1>0, ThenOnly DEF OnBindcharid
<1>8. Only(w, OnLoad(w, i, r, fate), i)
  <2>1. Only(w, _loadpdb(w, i, r.record), i)
    BY DEF _loadpdb, Only, Shape
  <2> QED
    BY <2>1, ThenOnly DEF OnLoad
<1>9. Only(w, world_service(w, i, "DBERR"), i)
  BY ServiceOnly
<1> QED
  BY <1>2, <1>3, <1>4, <1>5, <1>6, <1>7, <1>8, <1>9 DEF _handle_redis

LEMMA SaveOnly ==
    ASSUME NEW w, Shape(w), NEW i \in Ids, NEW fate
    PROVE  Only(w, SaveAnyStatus(w, i, fate), i)
<1> DEFINE b == [w EXCEPT !.spoilt = @ \cup {w.ph.p[i].charid}]
<1>1. Only(w, b, i)
  BY DEF Only, Shape
<1>2. SaveAnyStatus(w, i, fate) = _db(w, i, "SAVE", fate) \/ SaveAnyStatus(w, i, fate) = _db(b, i, "SAVE", fate)
  BY DEF SaveAnyStatus
<1> HIDE DEF b
<1>3. Only(b, _db(b, i, "SAVE", fate), i) /\ Only(w, _db(w, i, "SAVE", fate), i)
  BY <1>1, DbOnly DEF Only
<1> QED
  BY <1>1, <1>2, <1>3, OnlyAll

LEMMA LogoutOnly ==
    ASSUME NEW w, Shape(w), NEW i \in Ids, NEW fate
    PROVE  Only(w, _logout(w, i, fate), i)
<1> DEFINE n == SaveAnyStatus(w, i, fate)
<1>1. Only(w, n, i)
  BY SaveOnly
<1> HIDE DEF n
<1>2. Only(n, _freeplayer(n, i), i)
  BY <1>1, FreeOnly DEF Only
<1> QED
  BY <1>1, <1>2, OnlyAll DEF _logout, n

LEMMA CreatecharOnly ==
    ASSUME NEW w, Shape(w), NEW i \in Ids, NEW name, NEW fate
    PROVE  Only(w, _createchar(w, i, name, fate), i)
<1> DEFINE b == Asks(w, i, name)
           n == [b EXCEPT !.ph.p[i].name = name]
<1>1. b = w \/ b = Note(w, "raced")
  BY DEF Asks
<1>2. Only(w, w, i) /\ Only(w, Note(w, "raced"), i)
  BY DEF Note, Only, Shape
<1> HIDE DEF b
<1>3. Only(w, b, i)
  BY <1>1, <1>2
<1>4. Only(w, n, i)
  BY <1>3 DEF Only, Shape
<1> HIDE DEF n
<1>5. Only(n, _freeplayer(n, i), i) /\ Only(n, _db(n, i, "CHECKNAME", fate), i)
  BY <1>4, FreeOnly, DbOnly DEF Only
<1> QED
  BY <1>4, <1>5, OnlyAll DEF _createchar, n, b

\* Whoever plays in w still plays in v, or has left its slot.
Plays(w, v, i) ==
    w.ph.p[i].status = "GAME" /\ v.mishaps \cap {"raced", "stale"} = {} => v.ph.p[i].status \in {"GAME", "FREE"}

LEMMA OthersPlay ==
    ASSUME NEW w, NEW v, NEW i \in Ids, NEW j, Only(w, v, j), j # i
    PROVE  Plays(w, v, i)
<1> QED
  BY DEF Only, Plays

LEMMA StateShape ==
    ASSUME NEW w \in States
    PROVE  Shape(w)
<1>1. w.ph \in Worlds
  BY DEF States
<1> QED
  BY <1>1 DEF States, Worlds, Shape

LEMMA LoginPlays ==
    ASSUME NEW w, Holds(w, {}), w.ph.abort = "none", NEW conn \in Conns, NEW accid \in Accounts, NEW fate,
           NEW i \in Ids
    PROVE  Plays(w, _login(w, conn, accid, fate), i)
<1> DEFINE k == _getplayer(w, conn)
           n == w.ph.fi.free
           g == _hashplayeracc(_allocplayer(w, conn), n, accid)
           v == _login(w, conn, accid, fate)
<1>0. w \in States /\ Shape(w) /\ SlotsOK(w.ph.fi, w.ph.p)
  BY StateShape DEF Holds, Inv, TableInv
<1>1. \/ k # -1 /\ v = _freeplayer(w, k)
      \/ v = w
      \/ /\ Joins(w, g, conn, accid, n)
         /\ v = IF fate = "nodb" THEN _freeplayer(g, n) ELSE _db(g, n, "QUERY", fate)
  BY LoginIs
<1>2. CASE k # -1 /\ v = _freeplayer(w, k)
  <2>1. k \in Ids
    BY <1>2, PlayerIsLive DEF LiveIn
  <2> HIDE DEF k
  <2>2. Only(w, v, k) /\ v.ph.p[k].status \in {"FREE", w.ph.p[k].status}
    BY <1>0, <1>2, <2>1, FreeOnly
  <2> HIDE DEF v
  <2>3. CASE k = i
    BY <2>2, <2>3 DEF Plays, v
  <2>4. CASE k # i
    BY <2>2, <2>4, OthersPlay DEF v
  <2> QED
    BY <2>3, <2>4
<1>3. CASE v = w
  BY <1>3 DEF Plays
<1>4. CASE /\ Joins(w, g, conn, accid, n)
           /\ v = IF fate = "nodb" THEN _freeplayer(g, n) ELSE _db(g, n, "QUERY", fate)
  <2> HIDE DEF g, n, v
  <2>1. /\ n \in Ids /\ n \notin LiveIn(w.ph.fi) /\ g \in States /\ g.mishaps = w.mishaps
        /\ \A j \in Ids \ {n} : g.ph.p[j] = w.ph.p[j]
    BY <1>4 DEF Joins, Joined
  <2>2. Shape(g)
    BY <2>1, StateShape
  <2>3. Only(w, g, n)
    BY <2>1, <2>2 DEF Only
  <2>4. Only(g, _freeplayer(g, n), n) /\ Only(g, _db(g, n, "QUERY", fate), n)
    BY <2>1, <2>2, FreeOnly, DbOnly
  <2>5. Only(g, v, n)
    BY <1>4, <2>4
  <2>6. Only(w, v, n)
    BY <2>3, <2>5, OnlyAll
  <2>7. w.ph.p[n].status = "FREE"
    BY <1>0, <2>1 DEF SlotsOK
  <2>8. CASE n = i
    BY <2>7, <2>8 DEF Plays
  <2>9. CASE n # i
    BY <2>6, <2>9, OthersPlay DEF v
  <2> QED
    BY <2>8, <2>9
<1> QED
  BY <1>1, <1>2, <1>3, <1>4

LEMMA LogoutPlays ==
    ASSUME NEW w, Holds(w, {}), NEW k \in LiveIn(w.ph.fi), NEW fate \in {"ok"} \cup AllFaults, NEW i \in Ids
    PROVE  Plays(w, _logout(w, k, fate), i) /\ Plays(w, SaveAnyStatus(w, k, fate), i)
<1> DEFINE n == SaveAnyStatus(w, k, fate)
<1>1. n.ph = w.ph /\ Holds(n, {})
  BY SaveKeeps
<1>2. Shape(w) /\ k \in Ids
  BY StateShape DEF Holds, LiveIn
<1> HIDE DEF n
<1>3. Plays(w, n, i)
  BY <1>1 DEF Plays
<1>4. CASE k = i
  <2>1. Shape(n)
    BY <1>1, StateShape DEF Holds
  <2>2. _freeplayer(n, k).ph.p[k].status \in {"FREE", n.ph.p[k].status}
    BY <1>2, <2>1, FreeOnly
  <2>3. _logout(w, k, fate).ph.p[k].status \in {"FREE", w.ph.p[k].status}
    BY <1>1, <2>2 DEF _logout, n
  <2> QED
    BY <1>3, <1>4, <2>3 DEF Plays, n
<1>5. CASE k # i
  <2>1. Only(w, _logout(w, k, fate), k)
    BY <1>2, LogoutOnly
  <2> QED
    BY <1>3, <1>5, <2>1, OthersPlay DEF n
<1> QED
  BY <1>4, <1>5

\* An answer moves nobody on who plays, as long as there is none it did not wait for.
LEMMA ReplyPlays ==
    ASSUME NEW w, NEW k, NEW r, Arrived(w, k, r), NEW fate, NEW i \in Ids
    PROVE  Plays(w, _handle_redis(w, k, r, fate), i)
<1> DEFINE v == _handle_redis(w, k, r, fate)
<1>1. w \in States /\ k \in Ids /\ r \in Replies
  BY ArrivedIs
<1>2. Only(w, v, k)
  <2>1. r.type \in {"QUERY", "CHECKNAME", "SAVENAME", "CHARID", "CREATE", "BINDCHARID", "LOAD"}
    BY <1>1 DEF Replies, PdbTypes
  <2> QED
    BY <1>1, <2>1, StateShape, HandleRedisOnly
<1> HIDE DEF v
<1>3. CASE k # i
  BY <1>2, <1>3, OthersPlay DEF v
<1>4. CASE k = i
  <2> SUFFICES ASSUME w.ph.p[k].status = "GAME", v.mishaps \cap {"raced", "stale"} = {} PROVE FALSE
    BY <1>4 DEF Plays, v
  <2>1. "stale" \notin w.mishaps /\ "raced" \notin w.mishaps
    BY <1>2 DEF Only
  <2>2. Expects("GAME", r.type)
    BY <2>1 DEF Arrived
  <2> QED
    BY <2>2 DEF Expects, Awaits
<1> QED
  BY <1>3, <1>4

LEMMA BecomesPlays ==
    ASSUME NEW w, NEW v, NEW i, Plays(w, v, i), w.ph = ph, Becomes(v), ph.p[i].status = "GAME",
           mishaps' \cap {"raced", "stale"} = {}
    PROVE  ph'.p[i].status \in {"GAME", "FREE"}
<1> QED
  BY DEF Becomes, Plays

LEMMA StepsPlay ==
    ASSUME IInv, [Next]_vars, NEW i \in Ids, ph.p[i].status = "GAME", mishaps' \cap {"raced", "stale"} = {}
    PROVE  ph'.p[i].status \in {"GAME", "FREE"}
<1> DEFINE Goal == ph'.p[i].status \in {"GAME", "FREE"}
<1>1. Holds(State, {}) /\ State.ph = ph /\ State.wire = wire /\ State \in States
  BY StateHolds DEF Holds
<1>2. CASE DropReply
  BY <1>1, <1>2, TakenIs DEF DropReply, Becomes
<1>3. CASE Restart
  BY <1>3 DEF Restart, _allocplayers, player
<1>4. ASSUME NEW fate \in Fates, NEW type \in PdbTypes \ {"SAVE"}, HandleReply(type, fate)
      PROVE  Goal
  <2>1. PICK k \in LiveIn(ph.fi) : /\ Arrived(Opened(State), k, Head(wire)) /\ wire # <<>>
                                   /\ Becomes(_handle_redis(Opened(State), k, Head(wire), fate))
    BY <1>4, HandleReplyIs
  <2>2. Plays(Opened(State), _handle_redis(Opened(State), k, Head(wire), fate), i)
    BY <2>1, ReplyPlays
  <2>3. Opened(State).ph = ph
    BY <1>1, <2>1, TakenIs
  <2> QED
    BY <2>1, <2>2, <2>3, BecomesPlays
<1>5. ASSUME NEW fate \in Fates, NEW conn \in Conns, NEW accid \in Accounts, Login(conn, accid, fate)
      PROVE  Goal
  <2>1. Becomes(_login(State, conn, accid, fate)) /\ State.ph.abort = "none"
    BY <1>1, <1>5 DEF Login, Running
  <2>2. Plays(State, _login(State, conn, accid, fate), i)
    BY <1>1, <2>1, LoginPlays
  <2> QED
    BY <1>1, <2>1, <2>2, BecomesPlays
<1>6. ASSUME NEW fate \in Fates, NEW conn \in Conns, NEW name \in Names, CharCreate(conn, name, fate)
      PROVE  Goal
  <2> DEFINE k == _getplayer(State, conn)
  <2>1. k # -1 /\ ph.p[k].status = "WAITCREATECHAR" /\ Becomes(_createchar(State, k, name, fate))
    BY <1>6 DEF CharCreate
  <2>2. k \in Ids /\ k # i
    BY <2>1, PlayerOf DEF LiveIn
  <2> HIDE DEF k
  <2>3. Only(State, _createchar(State, k, name, fate), k)
    BY <1>1, <2>2, StateShape, CreatecharOnly
  <2>4. Plays(State, _createchar(State, k, name, fate), i)
    BY <2>2, <2>3, OthersPlay
  <2> QED
    BY <1>1, <2>1, <2>4, BecomesPlays
<1>7. ASSUME NEW fate \in Fates, NEW conn \in Conns, Logout(conn, fate) \/ Change(conn, fate)
      PROVE  Goal
  <2> DEFINE k == _getplayer(State, conn)
  <2>1. k # -1 /\ (Becomes(_logout(State, k, fate)) \/ Becomes(SaveAnyStatus(State, k, fate)))
    BY <1>7 DEF Logout, Change
  <2>2. k \in LiveIn(State.ph.fi)
    BY <1>1, <2>1, PlayerOf
  <2>3. fate \in {"ok"} \cup AllFaults
    BY FatesAre
  <2> HIDE DEF k
  <2>4. Plays(State, _logout(State, k, fate), i) /\ Plays(State, SaveAnyStatus(State, k, fate), i)
    BY <1>1, <2>2, <2>3, LogoutPlays
  <2> QED
    BY <1>1, <2>1, <2>4, BecomesPlays
<1>8. CASE UNCHANGED vars
  BY <1>8 DEF vars
<1> QED
  BY <1>2, <1>3, <1>4, <1>5, <1>6, <1>7, <1>8 DEF Next

\* GameIsFinal: no answer, and no request but a login, a logout or a restart, which
\* empty its slot, takes a player out of the game.
THEOREM PlayersStay == Spec => GameIsFinal
<1>1. IInv /\ [Next]_vars =>
        [\A i \in Ids : ph.p[i].status = "GAME" /\ mishaps' \cap {"raced", "stale"} = {} =>
                          ph'.p[i].status \in {"GAME", "FREE"}]_vars
  BY StepsPlay
<1> QED
  BY <1>1, Invariance, PTL DEF Spec, GameIsFinal
=============================================================================

------------------------------ MODULE NetLemmas ------------------------------
(***************************************************************************)
(* What the calls of Net do to the socket table and net_poll to the batch, *)
(* for every number of sockets and every buffer size.  What holds of the   *)
(* table is made of a part about one socket and one about the free list;   *)
(* each call is shown once to keep both.                                   *)
(***************************************************************************)
EXTENDS Net, FiniteSetTheorems, TLAPS

\* What holds of every socket.
SockInv(s) ==
    /\ s \in SocketType
    /\ s.status = "INVALID" => Clean(s)
    /\ s.wbuffersz = s.head
    /\ s.head <= WBufferMax
    /\ s.head > 0 => "W" \in s.mask /\ s.status \in {"CONNECTED", "HALFCLOSE"}
    /\ s.status = "HALFCLOSE" => s.head > 0

TableInv(t) ==
    /\ t \in NetType
    /\ \A i \in Sockets : SockInv(t.sock[i])
    /\ Pool(t)

LEMMA PoolIsShort ==
    ASSUME NEW n \in Nat, NEW chain \in [1 .. n -> Sockets],
           \A j, k \in 1 .. n : chain[j] = chain[k] => j = k
    PROVE  n <= MaxSocket
<1>1. IsFiniteSet(1 .. n) /\ Cardinality(1 .. n) = n
  BY FS_Interval
<1>2. IsFiniteSet(Sockets) /\ Cardinality(Sockets) = MaxSocket
  BY NetAssumption, FS_Interval DEF Sockets
<1>3. chain \in Injection(1 .. n, Sockets)
  BY DEF Injection, IsInjective
<1> QED
  BY <1>1, <1>2, <1>3, FS_Injection

\* A change of one socket that neither opens nor closes it, nor moves its fd.
LEMMA UpdateKeeps ==
    ASSUME NEW t, TableInv(t), NEW i \in Sockets, NEW s, SockInv(s),
           s.fd = t.sock[i].fd, s.status = "INVALID" <=> t.sock[i].status = "INVALID"
    PROVE  /\ TableInv([t EXCEPT !.sock[i] = s])
           /\ \A j \in Sockets : Open([t EXCEPT !.sock[i] = s], j) <=> Open(t, j)
<1> DEFINE u == [t EXCEPT !.sock[i] = s]
<1>1. /\ u \in NetType
      /\ u.free_socket = t.free_socket /\ u.tail_socket = t.tail_socket
      /\ \A j \in Sockets : u.sock[j] = IF j = i THEN s ELSE t.sock[j]
  BY DEF TableInv, NetType, SockInv
<1>2. \A j \in Sockets : SockInv(u.sock[j])
  BY <1>1 DEF TableInv
<1>3. \A j \in Sockets : (Open(u, j) <=> Open(t, j)) /\ u.sock[j].fd = t.sock[j].fd
  BY <1>1 DEF Open
<1>4. Pool(u)
  <2>1. PICK n \in 0 .. MaxSocket : \E chain \in [1 .. n -> Sockets] : IsPool(t, n, chain)
    BY DEF TableInv, Pool
  <2>2. PICK chain \in [1 .. n -> Sockets] : IsPool(t, n, chain)
    BY <2>1
  <2> HIDE DEF u
  <2>3. IsPool(u, n, chain)
    BY <1>1, <1>3, <2>2 DEF IsPool
  <2> QED
    BY <2>3 DEF Pool
<1> HIDE DEF u
<1>5. TableInv(u)
  BY <1>1, <1>2, <1>4 DEF TableInv
<1> QED
  BY <1>3, <1>5 DEF u

\* The record that _create_socket makes of a free socket.
Made(s, status, ud) ==
    [s EXCEPT !.fd = KFD, !.status = status, !.ud = ud, !.rb = 0, !.wbuffersz = 0]

LEMMA RelinkedInv ==
    ASSUME NEW s, SockInv(s), s.status = "INVALID", NEW i \in Sockets
    PROVE  SockInv([s EXCEPT !.fd = i]) /\ [s EXCEPT !.fd = i].status = "INVALID"
<1> DEFINE r == [s EXCEPT !.fd = i]
<1>1. r \in SocketType /\ Clean(r) /\ r.status = "INVALID"
  BY DEF SockInv, SocketType, Clean
<1> HIDE DEF r
<1>2. SockInv(r)
  BY <1>1, NetAssumption DEF SockInv, Clean
<1> QED
  BY <1>1, <1>2 DEF r

LEMMA FreeSocketInv ==
    ASSUME NEW d \in Sockets \cup {NIL, KFD}
    PROVE  SockInv(FreeSocket(d)) /\ FreeSocket(d).status = "INVALID" /\ FreeSocket(d).fd = d
<1> DEFINE s == FreeSocket(d)
<1>1. s \in SocketType /\ Clean(s) /\ s.status = "INVALID" /\ s.fd = d
  BY NetAssumption DEF SocketType, FreeSocket, Status, Masks, Clean
<1> HIDE DEF s
<1>2. SockInv(s)
  BY <1>1, NetAssumption DEF SockInv, Clean
<1> QED
  BY <1>1, <1>2 DEF s

LEMMA MadeInv ==
    ASSUME NEW s, SockInv(s), s.status = "INVALID",
           NEW status \in {"LISTENING", "CONNECTING", "CONNECTED"}, NEW ud \in Services \cup {"none"}
    PROVE  LET m == Made(s, status, ud)
           IN SockInv(m) /\ m.status = status /\ m.fd = KFD
<1> DEFINE m == Made(s, status, ud)
<1>1. /\ m \in SocketType /\ m.status = status /\ m.fd = KFD
      /\ m.head = 0 /\ m.wbuffersz = 0
  BY NetAssumption DEF SockInv, SocketType, Status, Clean, Made
<1> HIDE DEF m
<1>2. SockInv(m)
  BY <1>1, NetAssumption DEF SockInv
<1> QED
  BY <1>1, <1>2 DEF m

\* _create_socket takes the head of the free list, which is free and clean.
LEMMA CreateKeeps ==
    ASSUME NEW t, TableInv(t), t.free_socket # NIL,
           NEW status \in {"LISTENING", "CONNECTING", "CONNECTED"}, NEW ud \in Services \cup {"none"}
    PROVE  LET u == create_socket(t, status, ud)
               i == t.free_socket
           IN /\ TableInv(u)
              /\ i \in Sockets /\ ~ Open(t, i)
              /\ u.sock[i] = Made(t.sock[i], status, ud)
              /\ \A j \in Sockets : Open(u, j) <=> Open(t, j) \/ j = i
<1> DEFINE u == create_socket(t, status, ud)
           i == t.free_socket
           made == Made(t.sock[i], status, ud)
<1>1. PICK n \in 0 .. MaxSocket : \E chain \in [1 .. n -> Sockets] : IsPool(t, n, chain)
  BY DEF TableInv, Pool
<1>2. PICK chain \in [1 .. n -> Sockets] : IsPool(t, n, chain)
  BY <1>1
<1>3. n \in Nat /\ n >= 1 /\ 1 \in 1 .. n /\ n - 1 \in 0 .. MaxSocket /\ n - 1 \in Nat
  BY <1>2, NetAssumption DEF IsPool
<1>4. i = chain[1] /\ i \in Sockets /\ ~ Open(t, i)
  BY <1>2, <1>3 DEF IsPool
<1>5. t.sock[i].fd = IF 1 = n THEN NIL ELSE chain[2]
  BY <1>2, <1>3, <1>4 DEF IsPool
<1>6. SockInv(t.sock[i]) /\ t.sock[i].status = "INVALID"
  BY <1>4 DEF TableInv, Open
<1>8. /\ u.free_socket = IF n = 1 THEN NIL ELSE chain[2]
      /\ u.tail_socket = t.tail_socket
      /\ \A j \in Sockets : u.sock[j] = IF j = i THEN made ELSE t.sock[j]
      /\ u = [sock |-> u.sock, free_socket |-> u.free_socket, tail_socket |-> u.tail_socket]
      /\ DOMAIN u.sock = Sockets /\ u.sock = [j \in Sockets |-> u.sock[j]]
  <2>1. (IF t.sock[i].fd >= 0 THEN t.sock[i].fd ELSE NIL) = IF n = 1 THEN NIL ELSE chain[2]
    BY <1>3, <1>5 DEF NIL, Sockets
  <2>2. t = [sock |-> t.sock, free_socket |-> t.free_socket, tail_socket |-> t.tail_socket]
        /\ t.sock \in [Sockets -> SocketType]
    BY DEF TableInv, NetType
  <2>3. u = [t EXCEPT !.free_socket = IF n = 1 THEN NIL ELSE chain[2], !.sock[i] = made]
    BY <2>1 DEF create_socket, Made
  <2> HIDE DEF u, made
  <2>4. /\ u.free_socket = IF n = 1 THEN NIL ELSE chain[2]
        /\ u.tail_socket = t.tail_socket
        /\ u.sock = [t.sock EXCEPT ![i] = made]
    BY <2>2, <2>3
  <2>5. u = [sock |-> u.sock, free_socket |-> u.free_socket, tail_socket |-> u.tail_socket]
    BY <2>2, <2>3
  <2> QED
    BY <1>4, <2>2, <2>4, <2>5
<1>9. SockInv(made) /\ made.status = status /\ made.fd = KFD
  BY <1>6, MadeInv
<1> HIDE DEF u, made
<1>10. u \in NetType /\ \A j \in Sockets : SockInv(u.sock[j])
  <2>1. \A j \in Sockets : SockInv(u.sock[j])
    BY <1>8, <1>9 DEF TableInv
  <2>2. u.sock \in [Sockets -> SocketType]
    BY <1>8, <2>1 DEF SockInv
  <2>3. u.free_socket \in Sockets \cup {NIL} /\ u.tail_socket \in Sockets
    BY <1>3, <1>8 DEF TableInv, NetType
  <2> QED
    BY <1>8, <2>1, <2>2, <2>3 DEF NetType
<1>11. \A j \in Sockets : Open(u, j) <=> Open(t, j) \/ j = i
  BY <1>8, <1>9 DEF Open
<1>12. Pool(u)
  <2> DEFINE rest == [k \in 1 .. n - 1 |-> chain[k + 1]]
  <2>1. rest \in [1 .. n - 1 -> Sockets]
    BY <1>3
  <2>2. \A k \in 1 .. n - 1 : k + 1 \in 1 .. n /\ k + 1 # 1 /\ rest[k] = chain[k + 1]
    BY <1>3
  <2>3. \A k \in 1 .. n : k # 1 => k - 1 \in 1 .. n - 1 /\ rest[k - 1] = chain[k]
    BY <1>3
  <2>4. \A k \in 1 .. n : k # 1 => chain[k] # i
    BY <1>2, <1>3, <1>4 DEF IsPool
  <2>5. n # 1 => rest[1] = chain[2] /\ rest[n - 1] = chain[n]
    BY <1>3
  <2>6. \A j, k \in 1 .. n - 1 : rest[j] = rest[k] => j = k
    <3> HIDE DEF rest
    <3> QED
      BY <1>2, <1>3, <2>2 DEF IsPool
  <2>7. ASSUME NEW k \in 1 .. n - 1
        PROVE  u.sock[rest[k]].fd = IF k = n - 1 THEN NIL ELSE rest[k + 1]
    <3>1. u.sock[rest[k]] = t.sock[chain[k + 1]]
      BY <1>8, <2>1, <2>2, <2>4
    <3>2. t.sock[chain[k + 1]].fd = IF k + 1 = n THEN NIL ELSE chain[k + 1 + 1]
      BY <1>2, <2>2 DEF IsPool
    <3>3. k # n - 1 => rest[k + 1] = chain[k + 1 + 1]
      BY <1>3
    <3> QED
      BY <1>3, <3>1, <3>2, <3>3
  <2>8. ASSUME NEW j \in Sockets
        PROVE  Open(u, j) <=> \A k \in 1 .. n - 1 : rest[k] # j
    <3>1. Open(t, j) <=> \A k \in 1 .. n : chain[k] # j
      BY <1>2 DEF IsPool
    <3> HIDE DEF rest
    <3> QED
      BY <1>3, <1>4, <1>11, <2>2, <2>3, <2>4, <3>1
  <2> HIDE DEF rest
  <2>9. IsPool(u, n - 1, rest)
    <3>1. u.free_socket = IF n - 1 = 0 THEN NIL ELSE rest[1]
      BY <1>3, <1>8, <2>5
    <3>2. n - 1 > 0 => u.tail_socket = rest[n - 1]
      BY <1>2, <1>3, <1>8, <2>5 DEF IsPool
    <3> QED
      BY <2>6, <2>7, <2>8, <3>1, <3>2 DEF IsPool
  <2> QED
    BY <1>3, <2>1, <2>9 DEF Pool
<1>13. TableInv(u)
  BY <1>10, <1>12 DEF TableInv
<1> QED
  BY <1>4, <1>8, <1>11, <1>13 DEF u, made

\* _close_socket clears the socket and appends it to the free list.
LEMMA CloseKeeps ==
    ASSUME NEW t, TableInv(t), NEW i \in Sockets
    PROVE  /\ TableInv(close_socket(t, i))
           /\ CloseAsserts(t, i)
           /\ \A j \in Sockets : Open(close_socket(t, i), j) <=> Open(t, j) /\ j # i
<1> DEFINE u == close_socket(t, i)
<1>1. PICK n \in 0 .. MaxSocket : \E chain \in [1 .. n -> Sockets] : IsPool(t, n, chain)
  BY DEF TableInv, Pool
<1>2. PICK chain \in [1 .. n -> Sockets] : IsPool(t, n, chain)
  BY <1>1
<1>3. n \in Nat /\ n + 1 \in Nat
  OBVIOUS
<1>4. n = 0 <=> t.free_socket = NIL
  <2>1. n # 0 => 1 \in 1 .. n /\ chain[1] \in Sockets
    BY <1>3
  <2> QED
    BY <1>2, <2>1 DEF IsPool, NIL, Sockets
<1>5. n # 0 => n \in 1 .. n /\ t.tail_socket = chain[n] /\ t.sock[chain[n]].fd = NIL /\ chain[n] \in Sockets
  <2>1. n # 0 => n \in 1 .. n /\ n > 0
    BY <1>3
  <2> QED
    BY <1>2, <2>1 DEF IsPool
<1>6. CloseAsserts(t, i)
  BY <1>4, <1>5 DEF CloseAsserts
<1>7. CASE ~ Open(t, i)
  <2>1. u = t
    BY <1>7 DEF close_socket, Open
  <2> QED
    BY <1>6, <1>7, <2>1
<1>8. CASE Open(t, i)
  <2>1. \A k \in 1 .. n : chain[k] # i
    BY <1>2, <1>8 DEF IsPool
  <2> DEFINE linked(j) == IF n # 0 /\ j = chain[n] THEN [t.sock[j] EXCEPT !.fd = i] ELSE t.sock[j]
  <2>2. t = [sock |-> t.sock, free_socket |-> t.free_socket, tail_socket |-> t.tail_socket]
        /\ t.sock \in [Sockets -> SocketType]
    BY DEF TableInv, NetType
  <2>3. /\ u.free_socket = IF n = 0 THEN i ELSE t.free_socket
        /\ u.tail_socket = i
        /\ \A j \in Sockets : u.sock[j] = IF j = i THEN FreeSocket(NIL) ELSE linked(j)
        /\ u = [sock |-> u.sock, free_socket |-> u.free_socket, tail_socket |-> u.tail_socket]
        /\ u.sock = [j \in Sockets |-> u.sock[j]]
    <3>1. CASE n = 0
      <4>1. u = [[t EXCEPT !.sock[i] = FreeSocket(NIL), !.tail_socket = i] EXCEPT !.free_socket = i]
        BY <1>4, <1>8, <3>1 DEF close_socket, Open
      <4> HIDE DEF u
      <4> QED
        BY <2>2, <3>1, <4>1
    <3>2. CASE n # 0
      <4>1. u = [[t EXCEPT !.sock[i] = FreeSocket(NIL), !.tail_socket = i]
                    EXCEPT !.sock[chain[n]].fd = i]
        BY <1>4, <1>5, <1>8, <3>2 DEF close_socket, Open
      <4>2. chain[n] # i /\ chain[n] \in Sockets
        BY <1>5, <2>1, <3>2
      <4> HIDE DEF u
      <4> QED
        BY <2>2, <3>2, <4>1, <4>2
    <3> QED
      BY <3>1, <3>2
  <2>4. \A j \in Sockets : SockInv(linked(j)) /\ linked(j).status = t.sock[j].status
    <3>1. ASSUME NEW j \in Sockets, n # 0, j = chain[n]
          PROVE  SockInv([t.sock[j] EXCEPT !.fd = i]) /\ [t.sock[j] EXCEPT !.fd = i].status = t.sock[j].status
      <4>1. ~ Open(t, j)
        BY <1>2, <1>5, <3>1 DEF IsPool
      <4>2. SockInv(t.sock[j]) /\ t.sock[j].status = "INVALID"
        BY <4>1 DEF TableInv, Open
      <4> QED
        BY <4>2, RelinkedInv
    <3>2. \A j \in Sockets : SockInv(t.sock[j])
      BY DEF TableInv
    <3> QED
      BY <3>1, <3>2
  <2>5. SockInv(FreeSocket(NIL)) /\ FreeSocket(NIL).status = "INVALID" /\ FreeSocket(NIL).fd = NIL
    BY FreeSocketInv
  <2>6. \A j \in Sockets : linked(j).fd = IF n # 0 /\ j = chain[n] THEN i ELSE t.sock[j].fd
    BY <2>2 DEF SocketType
  <2> HIDE DEF u, linked
  <2>7. \A j \in Sockets : SockInv(u.sock[j])
    BY <2>3, <2>4, <2>5
  <2>8. u \in NetType
    <3>1. u.sock \in [Sockets -> SocketType]
      BY <2>3, <2>7 DEF SockInv
    <3>2. u.free_socket \in Sockets \cup {NIL}
      BY <2>3 DEF TableInv, NetType
    <3> QED
      BY <2>3, <3>1, <3>2 DEF NetType
  <2>9. \A j \in Sockets : Open(u, j) <=> Open(t, j) /\ j # i
    BY <2>3, <2>4, <2>5 DEF Open
  <2> DEFINE more == [k \in 1 .. n + 1 |-> IF k = n + 1 THEN i ELSE chain[k]]
  <2>10. more \in [1 .. n + 1 -> Sockets]
    BY <1>3
  <2>11. \A k \in 1 .. n : k \in 1 .. n + 1 /\ k # n + 1 /\ more[k] = chain[k]
    BY <1>3
  <2>12. \A k \in 1 .. n + 1 : k # n + 1 => k \in 1 .. n
    BY <1>3
  <2>13. n + 1 \in 1 .. n + 1 /\ more[n + 1] = i
    BY <1>3
  <2> HIDE DEF more
  <2>14. \A j, k \in 1 .. n + 1 : more[j] = more[k] => j = k
    BY <1>2, <2>1, <2>11, <2>12, <2>13 DEF IsPool
  <2>15. n + 1 \in 0 .. MaxSocket
    <3>1. n + 1 <= MaxSocket
      BY <1>3, <2>10, <2>14, PoolIsShort
    <3> QED
      BY <1>3, <3>1, NetAssumption
  <2>16. ASSUME NEW k \in 1 .. n + 1
         PROVE  u.sock[more[k]].fd = IF k = n + 1 THEN NIL ELSE more[k + 1]
    <3>1. CASE k = n + 1
      BY <2>3, <2>5, <2>13, <3>1
    <3>2. CASE k # n + 1
      <4>1. k \in 1 .. n /\ more[k] = chain[k] /\ chain[k] # i /\ chain[k] \in Sockets
        BY <2>1, <2>11, <2>12, <3>2
      <4>2. u.sock[more[k]].fd = IF chain[k] = chain[n] /\ n # 0 THEN i ELSE t.sock[chain[k]].fd
        BY <2>3, <2>6, <4>1
      <4>3. CASE k = n
        BY <1>3, <2>13, <3>2, <4>1, <4>2, <4>3
      <4>4. CASE k # n
        <5>1. k + 1 \in 1 .. n /\ n # 0 /\ n \in 1 .. n
          BY <1>3, <4>1, <4>4
        <5>2. chain[k] # chain[n]
          BY <1>2, <4>1, <4>4, <5>1 DEF IsPool
        <5>3. t.sock[chain[k]].fd = chain[k + 1]
          BY <1>2, <4>1, <4>4 DEF IsPool
        <5>4. more[k + 1] = chain[k + 1]
          BY <2>11, <5>1
        <5> QED
          BY <3>2, <4>2, <5>2, <5>3, <5>4
      <4> QED
        BY <4>3, <4>4
    <3> QED
      BY <3>1, <3>2
  <2>17. ASSUME NEW j \in Sockets
         PROVE  Open(u, j) <=> \A k \in 1 .. n + 1 : more[k] # j
    <3>1. Open(t, j) <=> \A k \in 1 .. n : chain[k] # j
      BY <1>2 DEF IsPool
    <3> QED
      BY <2>9, <2>11, <2>12, <2>13, <3>1
  <2>18. u.free_socket = more[1] /\ n + 1 # 0 /\ u.tail_socket = more[n + 1]
    <3>1. n # 0 => 1 \in 1 .. n
      BY <1>3
    <3>2. n # 0 => t.free_socket = chain[1]
      BY <1>2 DEF IsPool
    <3> QED
      BY <1>3, <2>3, <2>11, <2>13, <3>1, <3>2
  <2>19. IsPool(u, n + 1, more)
    BY <1>3, <2>14, <2>16, <2>17, <2>18 DEF IsPool
  <2>20. TableInv(u)
    BY <2>7, <2>8, <2>10, <2>15, <2>19 DEF TableInv, Pool
  <2> QED
    BY <1>6, <2>9, <2>20 DEF u
<1> QED
  BY <1>7, <1>8

-----------------------------------------------------------------------------
\* Each call of the interface, and each step of net_poll on one socket, keeps
\* the table and disturbs at most the socket it names.
Touches(t, u, i) == TableInv(u) /\ \A j \in Sockets : j # i => (Open(u, j) <=> Open(t, j))

LEMMA CloseTouches ==
    ASSUME NEW t, TableInv(t), NEW i \in Sockets
    PROVE  Touches(t, close_socket(t, i), i)
BY CloseKeeps DEF Touches

LEMMA UpdateTouches ==
    ASSUME NEW t, TableInv(t), NEW i \in Sockets, NEW s, SockInv(s),
           s.fd = t.sock[i].fd, s.status = "INVALID" <=> t.sock[i].status = "INVALID"
    PROVE  Touches(t, [t EXCEPT !.sock[i] = s], i)
BY UpdateKeeps DEF Touches

LEMMA SameTouches == ASSUME NEW t, TableInv(t), NEW i PROVE Touches(t, t, i)
BY DEF Touches

LEMMA SubscribeTouches ==
    ASSUME NEW t, TableInv(t), NEW i \in Sockets, Open(t, i), NEW mask \in Masks,
           "W" \in t.sock[i].mask => "W" \in mask
    PROVE  Touches(t, subscribe(t, i, mask), i)
<1> DEFINE r == [t.sock[i] EXCEPT !.mask = mask]
<1>1. SockInv(t.sock[i]) /\ t.sock[i].status # "INVALID"
  BY DEF TableInv, Open
<1>2. /\ r \in SocketType /\ r.status = t.sock[i].status /\ r.fd = t.sock[i].fd
      /\ r.head = t.sock[i].head /\ r.wbuffersz = t.sock[i].wbuffersz /\ r.mask = mask
  BY <1>1 DEF SockInv, SocketType
<1>3. subscribe(t, i, mask) = [t EXCEPT !.sock[i] = r]
  BY DEF subscribe
<1> HIDE DEF r
<1>4. SockInv(r)
  BY <1>1, <1>2 DEF SockInv
<1> QED
  BY <1>1, <1>2, <1>3, <1>4, UpdateTouches

LEMMA NetSubscribeTouches ==
    ASSUME NEW t, TableInv(t), NEW i \in Sockets, NEW read \in BOOLEAN
    PROVE  Touches(t, net_subscribe(t, i, read), i)
<1> DEFINE m == (IF read THEN {"R"} ELSE {}) \cup (t.sock[i].mask \cap {"W"})
<1>1. m \in Masks /\ ("W" \in t.sock[i].mask => "W" \in m)
  BY DEF Masks
<1> HIDE DEF m
<1>2. Open(t, i) => net_subscribe(t, i, read) = subscribe(t, i, m)
  BY DEF net_subscribe, m
<1>3. ~ Open(t, i) => net_subscribe(t, i, read) = t
  BY DEF net_subscribe
<1> QED
  BY <1>1, <1>2, <1>3, SubscribeTouches, SameTouches

LEMMA NetCloseTouches ==
    ASSUME NEW t, TableInv(t), NEW i \in Sockets, Open(t, i) => t.sock[i].status \in {"CONNECTED", "HALFCLOSE"},
           NEW force \in BOOLEAN
    PROVE  Touches(t, net_close_socket(t, i, force), i)
<1>1. CASE ~ Open(t, i)
  BY <1>1, SameTouches DEF net_close_socket
<1>2. CASE Open(t, i) /\ ClosesNow(t, i, force)
  BY <1>2, CloseTouches DEF net_close_socket
<1>3. CASE Open(t, i) /\ ~ ClosesNow(t, i, force)
  <2> DEFINE r == [t.sock[i] EXCEPT !.status = "HALFCLOSE"]
  <2>1. SockInv(t.sock[i]) /\ t.sock[i].status # "INVALID" /\ t.sock[i].head # 0
    BY <1>3 DEF TableInv, Open, ClosesNow
  <2>2. /\ r \in SocketType /\ r.status = "HALFCLOSE" /\ r.fd = t.sock[i].fd
        /\ r.head = t.sock[i].head /\ r.wbuffersz = t.sock[i].wbuffersz
        /\ r.mask = t.sock[i].mask /\ r.head \in Nat
    BY <2>1 DEF SockInv, SocketType, Status
  <2>3. net_close_socket(t, i, force) = [t EXCEPT !.sock[i] = r]
    BY <1>3 DEF net_close_socket
  <2> HIDE DEF r
  <2>4. SockInv(r)
    BY <2>1, <2>2 DEF SockInv
  <2> QED
    BY <2>1, <2>2, <2>3, <2>4, UpdateTouches
<1> QED
  BY <1>1, <1>2, <1>3

LEMMA SendTouches ==
    ASSUME NEW t, TableInv(t), NEW i \in Sockets,
           Open(t, i) => t.sock[i].status \in {"CONNECTED", "HALFCLOSE"},
           NEW sz \in Nat \ {0}, NEW written \in -1 .. sz
    PROVE  Touches(t, net_send(t, i, sz, written), i)
<1> DEFINE s == t.sock[i]
           rest == IF s.head = 0 THEN sz - written ELSE sz
           result == SendResult(t, i, sz, written)
           r == Queued(s, rest)
<1>1. CASE result = "refused" \/ (result = "ok" /\ rest = 0)
  BY <1>1, SameTouches DEF net_send
<1>2. CASE result = "error"
  BY <1>2, CloseTouches DEF net_send
<1>3. CASE result = "ok" /\ rest # 0
  <2>1. SockInv(s) /\ Open(t, i) /\ s.status = "CONNECTED"
    BY <1>3 DEF TableInv, SendResult, Open
  <2>2. s \in SocketType /\ s.head \in Nat /\ s.wbuffersz = s.head
    BY <2>1 DEF SockInv, SocketType
  <2>3. rest \in Nat /\ rest > 0 /\ s.wbuffersz + rest <= WBufferMax
    BY <1>3, <2>1, <2>2, NetAssumption DEF SendResult
  <2>4. net_send(t, i, sz, written) = [t EXCEPT !.sock[i] = r]
    BY <1>3 DEF net_send
  <2> HIDE DEF rest
  <2>5. /\ r \in SocketType /\ r.status = s.status /\ r.fd = s.fd
        /\ r.head = s.head + rest /\ r.wbuffersz = s.wbuffersz + rest
        /\ r.mask = IF s.head = 0 THEN s.mask \cup {"W"} ELSE s.mask
    <3> DEFINE mask == IF s.head = 0 THEN s.mask \cup {"W"} ELSE s.mask
    <3>1. mask \in Masks /\ s.head + rest \in Nat /\ s.wbuffersz + rest \in Nat
      BY <2>2, <2>3 DEF SocketType, Masks
    <3>2. r = [s EXCEPT !.head = s.head + rest, !.wbuffersz = s.wbuffersz + rest, !.mask = mask]
      BY DEF Queued
    <3> HIDE DEF mask, r
    <3>3. /\ r \in SocketType /\ r.status = s.status /\ r.fd = s.fd
          /\ r.head = s.head + rest /\ r.wbuffersz = s.wbuffersz + rest /\ r.mask = mask
      BY <2>2, <3>1, <3>2 DEF SocketType
    <3> QED
      BY <3>3 DEF mask
  <2> HIDE DEF r
  <2>6. "W" \in r.mask
    BY <2>1, <2>2, <2>5 DEF SockInv
  <2>7. SockInv(r)
    BY <2>1, <2>2, <2>3, <2>5, <2>6 DEF SockInv
  <2> QED
    BY <2>1, <2>4, <2>5, <2>7, UpdateTouches
<1> QED
  BY <1>1, <1>2, <1>3 DEF SendResult

LEMMA FlushTouches ==
    ASSUME NEW t, TableInv(t), NEW i \in Sockets, t.sock[i].status \in {"CONNECTED", "HALFCLOSE"},
           NEW k \in 0 .. t.sock[i].head, ~ (t.sock[i].status = "HALFCLOSE" /\ k = t.sock[i].head)
    PROVE  Touches(t, send_buffer(t, i, k), i)
<1> DEFINE s == t.sock[i]
           r == Flushed(s, k)
<1>1. SockInv(s) /\ s.head \in Nat /\ s.wbuffersz = s.head /\ s \in SocketType
  BY DEF TableInv, SockInv, SocketType
<1>2. /\ r \in SocketType /\ r.status = s.status /\ r.fd = s.fd
      /\ r.head = s.head - k /\ r.wbuffersz = s.head - k
      /\ r.mask = IF k > 0 /\ k = s.head THEN s.mask \ {"W"} ELSE s.mask
  <2> DEFINE mask == IF k > 0 /\ k = s.head THEN s.mask \ {"W"} ELSE s.mask
  <2>1. mask \in Masks /\ s.head - k \in Nat
    BY <1>1 DEF SocketType, Masks
  <2>2. r = [s EXCEPT !.head = s.head - k, !.wbuffersz = s.wbuffersz - k, !.mask = mask]
    BY DEF Flushed
  <2> HIDE DEF mask, r
  <2>3. /\ r \in SocketType /\ r.status = s.status /\ r.fd = s.fd
        /\ r.head = s.head - k /\ r.wbuffersz = s.head - k /\ r.mask = mask
    BY <1>1, <2>1, <2>2 DEF SocketType
  <2> QED
    BY <2>3 DEF mask
<1>3. send_buffer(t, i, k) = [t EXCEPT !.sock[i] = r]
  BY DEF send_buffer
<1> HIDE DEF r
<1>4. SockInv(r)
  BY <1>1, <1>2, NetAssumption DEF SockInv
<1> QED
  BY <1>1, <1>2, <1>3, <1>4, UpdateTouches

LEMMA ReadTouches ==
    ASSUME NEW t, TableInv(t), NEW i \in Sockets, NEW force \in BOOLEAN, ReadAsserts(t, i, force)
    PROVE  Touches(t, net_read(t, i, force), i)
<1> DEFINE s == t.sock[i]
<1>1. CASE ~ Open(t, i) \/ ~ AsksKernel(t, i, force)
  BY <1>1, SameTouches DEF net_read
<1>2. CASE Open(t, i) /\ AsksKernel(t, i, force) /\ AtEof(t, i)
  BY <1>2, CloseTouches DEF net_read
<1>3. CASE Open(t, i) /\ AsksKernel(t, i, force) /\ ~ AtEof(t, i)
  <2>1. SockInv(s) /\ s.status # "INVALID" /\ s \in SocketType /\ s.rb \in Nat /\ s.inq \in Nat
    BY <1>3, NetAssumption DEF TableInv, Open, SockInv, SocketType
  <2>2. CASE s.status = "HALFCLOSE"
    <3> DEFINE r == [s EXCEPT !.inq = 0]
    <3>1. net_read(t, i, force) = [t EXCEPT !.sock[i] = r]
      BY <1>3, <2>2 DEF net_read
    <3>2. /\ r \in SocketType /\ r.status = s.status /\ r.fd = s.fd
          /\ r.head = s.head /\ r.wbuffersz = s.wbuffersz /\ r.mask = s.mask
      BY <2>1, NetAssumption DEF SocketType
    <3> HIDE DEF r
    <3>3. SockInv(r)
      BY <2>1, <3>2 DEF SockInv
    <3> QED
      BY <2>1, <3>1, <3>2, <3>3, UpdateTouches
  <2>3. CASE s.status # "HALFCLOSE"
    <3> DEFINE k == ReadSize(s)
               r == [s EXCEPT !.rb = s.rb + k, !.inq = s.inq - k]
    <3>1. net_read(t, i, force) = [t EXCEPT !.sock[i] = r]
      BY <1>3, <2>3 DEF net_read
    <3>2. s.rb + k \in 0 .. RBufferMax /\ s.inq - k \in 0 .. MaxIn
      BY <2>1, NetAssumption DEF ReadSize, SocketType
    <3> HIDE DEF k
    <3>3. /\ r \in SocketType /\ r.status = s.status /\ r.fd = s.fd
          /\ r.head = s.head /\ r.wbuffersz = s.wbuffersz /\ r.mask = s.mask
      BY <2>1, <3>2 DEF SocketType
    <3> HIDE DEF r
    <3>4. SockInv(r)
      BY <2>1, <3>3 DEF SockInv
    <3> QED
      BY <2>1, <3>1, <3>3, <3>4, UpdateTouches
  <2> QED
    BY <2>2, <2>3
<1> QED
  BY <1>1, <1>2, <1>3

LEMMA DropTouches ==
    ASSUME NEW t, TableInv(t), NEW i \in Sockets, NEW sz \in 1 .. t.sock[i].rb
    PROVE  Touches(t, net_dropread(t, i, sz), i)
<1>1. CASE ~ Open(t, i)
  BY <1>1, SameTouches DEF net_dropread
<1>2. CASE Open(t, i)
  <2> DEFINE s == t.sock[i]
             r == [s EXCEPT !.rb = s.rb - sz]
  <2>1. SockInv(s) /\ s.status # "INVALID" /\ s \in SocketType /\ s.rb - sz \in 0 .. RBufferMax
    BY <1>2, NetAssumption DEF TableInv, Open, SockInv, SocketType
  <2>2. net_dropread(t, i, sz) = [t EXCEPT !.sock[i] = r]
    BY <1>2 DEF net_dropread
  <2>3. /\ r \in SocketType /\ r.status = s.status /\ r.fd = s.fd
        /\ r.head = s.head /\ r.wbuffersz = s.wbuffersz /\ r.mask = s.mask
    BY <2>1 DEF SocketType
  <2> HIDE DEF r
  <2>4. SockInv(r)
    BY <2>1, <2>3 DEF SockInv
  <2> QED
    BY <2>1, <2>2, <2>3, <2>4, UpdateTouches
<1> QED
  BY <1>1, <1>2

\* The kernel queues bytes for a stream, or the end of it.
LEMMA KernelTouches ==
    ASSUME NEW t, TableInv(t), NEW i \in Sockets, t.sock[i].status # "INVALID",
           NEW inq \in 0 .. MaxIn
    PROVE  /\ Touches(t, [t EXCEPT !.sock[i].inq = inq], i)
           /\ Touches(t, [t EXCEPT !.sock[i].eof = TRUE], i)
<1> DEFINE s == t.sock[i]
           q == [s EXCEPT !.inq = inq]
           r == [s EXCEPT !.eof = TRUE]
<1>1. SockInv(s) /\ s \in SocketType
  BY DEF TableInv, SockInv
<1>2. /\ q \in SocketType /\ q.status = s.status /\ q.fd = s.fd
      /\ q.head = s.head /\ q.wbuffersz = s.wbuffersz /\ q.mask = s.mask
  BY <1>1 DEF SocketType
<1>3. /\ r \in SocketType /\ r.status = s.status /\ r.fd = s.fd
      /\ r.head = s.head /\ r.wbuffersz = s.wbuffersz /\ r.mask = s.mask
  BY <1>1 DEF SocketType
<1>4. [t EXCEPT !.sock[i].inq = inq] = [t EXCEPT !.sock[i] = q]
  OBVIOUS
<1>5. [t EXCEPT !.sock[i].eof = TRUE] = [t EXCEPT !.sock[i] = r]
  OBVIOUS
<1> HIDE DEF q, r
<1>6. SockInv(q) /\ SockInv(r)
  BY <1>1, <1>2, <1>3 DEF SockInv
<1> QED
  BY <1>1, <1>2, <1>3, <1>4, <1>5, <1>6, UpdateTouches

LEMMA ConnectedTouches ==
    ASSUME NEW t, TableInv(t), NEW i \in Sockets, t.sock[i].status = "CONNECTING"
    PROVE  Touches(t, [t EXCEPT !.sock[i] = [@ EXCEPT !.status = "CONNECTED", !.mask = {}]], i)
<1> DEFINE s == t.sock[i]
           r == [s EXCEPT !.status = "CONNECTED", !.mask = {}]
<1>1. SockInv(s) /\ s \in SocketType /\ s.head = 0 /\ s.wbuffersz = 0
  BY DEF TableInv, SockInv, SocketType
<1>2. /\ r \in SocketType /\ r.status = "CONNECTED" /\ r.fd = s.fd
      /\ r.head = 0 /\ r.wbuffersz = 0
  BY <1>1 DEF SocketType, Status, Masks
<1>3. [t EXCEPT !.sock[i] = [@ EXCEPT !.status = "CONNECTED", !.mask = {}]] = [t EXCEPT !.sock[i] = r]
  OBVIOUS
<1> HIDE DEF r
<1>4. SockInv(r)
  BY <1>2, NetAssumption DEF SockInv
<1> QED
  BY <1>2, <1>3, <1>4, UpdateTouches

\* net_listen and net_connect: a socket is made and subscribed.
LEMMA OpenedKeeps ==
    ASSUME NEW t, TableInv(t), t.free_socket # NIL,
           NEW status \in {"LISTENING", "CONNECTING", "CONNECTED"}, NEW ud \in Services,
           NEW mask \in Masks
    PROVE  TableInv(subscribe(create_socket(t, status, ud), t.free_socket, mask))
<1> DEFINE u == create_socket(t, status, ud)
           i == t.free_socket
<1>1. TableInv(u) /\ i \in Sockets /\ ~ Open(t, i) /\ u.sock[i] = Made(t.sock[i], status, ud)
      /\ Open(u, i)
  BY CreateKeeps
<1>2. "W" \in u.sock[i].mask => "W" \in mask
  <2>1. Clean(t.sock[i]) /\ t.sock[i] \in SocketType
    BY <1>1 DEF TableInv, SockInv, Open
  <2>2. Made(t.sock[i], status, ud).mask = {}
    BY <2>1 DEF Made, Clean, SocketType
  <2> QED
    BY <1>1, <2>2
<1> HIDE DEF u
<1>3. Touches(u, subscribe(u, i, mask), i)
  BY <1>1, <1>2, SubscribeTouches
<1> QED
  BY <1>3 DEF u, Touches

-----------------------------------------------------------------------------
\* The batch of net_poll.

LoopInv(t, l) ==
    /\ l \in LoopType
    /\ l.pc = "build" <=> l.ev # <<>>
    /\ l.pc = "dispatch" => l.ne # <<>>
    /\ \A k \in DOMAIN l.ev : Open(t, l.ev[k].id)
    /\ \A j, k \in DOMAIN l.ev : j # k => l.ev[j].id # l.ev[k].id

LEMMA NeventIsShort ==
    ASSUME NEW ne \in Seq(Messages)
    PROVE  nevent(ne) \in 0 .. Len(ne)
<1> DEFINE S == {k \in DOMAIN ne : ne[k].type # "INVALID"}
<1>1. DOMAIN ne = 1 .. Len(ne) /\ Len(ne) \in Nat
  OBVIOUS
<1>2. IsFiniteSet(1 .. Len(ne)) /\ Cardinality(1 .. Len(ne)) = Len(ne)
  BY <1>1, FS_Interval
<1>3. S \subseteq 1 .. Len(ne)
  BY <1>1
<1>4. IsFiniteSet(S) /\ Cardinality(S) <= Len(ne)
  BY <1>2, <1>3, FS_Subset
<1>5. Cardinality(S) \in Nat
  BY <1>4, FS_CardinalityType
<1> QED
  BY <1>1, <1>4, <1>5 DEF nevent

LEMMA TailShifts ==
    ASSUME NEW T, NEW q \in Seq(T), Len(q) > 1
    PROVE  /\ Tail(q) \in Seq(T) /\ Tail(q) # <<>>
           /\ \A k \in DOMAIN Tail(q) : k + 1 \in DOMAIN q /\ k + 1 # 1 /\ Tail(q)[k] = q[k + 1]
<1>1. Len(q) \in Nat /\ DOMAIN q = 1 .. Len(q) /\ q # <<>>
  OBVIOUS
<1>2. Tail(q) \in Seq(T) /\ Len(Tail(q)) = Len(q) - 1
  BY <1>1
<1>3. DOMAIN Tail(q) = 1 .. Len(q) - 1
  BY <1>2
<1>4. \A k \in 1 .. Len(q) - 1 : Tail(q)[k] = q[k + 1]
  BY <1>1, <1>2
<1>5. Tail(q) # <<>>
  <2>1. Len(Tail(q)) # 0
    BY <1>1, <1>2
  <2>2. Len(<<>>) = 0
    OBVIOUS
  <2> QED
    BY <2>1, <2>2, Zenon
<1> QED
  BY <1>1, <1>2, <1>3, <1>4, <1>5

\* The head of the batch is handled: what is left is still open, if only the
\* head's socket was closed.
LEMMA BuildKeeps ==
    ASSUME LoopInv(net, loop), loop.pc = "build", NEW u, NEW message \in Messages,
           \A j \in Sockets : j # Head(loop.ev).id /\ Open(net, j) => Open(u, j),
           mishaps \subseteq {"lost", "reused"}, Build(message)
    PROVE  LoopInv(u, loop') /\ mishaps' \subseteq {"lost", "reused"}
<1> DEFINE ne == Append(loop.ne, message)
           c == nevent(ne)
<1>1. loop.ev \in Seq(Events) /\ loop.ne \in Seq(Messages) /\ loop.ev # <<>>
  BY DEF LoopInv, LoopType
<1>2. ne \in Seq(Messages)
  BY <1>1
<1>3. c \in 0 .. Len(ne)
  BY <1>2, NeventIsShort
<1>4. mishaps' \subseteq {"lost", "reused"}
  BY DEF Build
<1>5. Len(loop.ev) \in Nat /\ Len(loop.ev) >= 1
  BY <1>1
<1>6. CASE Len(loop.ev) > 1
  <2> DEFINE rest == Tail(loop.ev)
  <2>1. loop' = [loop EXCEPT !.ev = rest, !.ne = ne]
    BY <1>6 DEF Build
  <2>2. /\ rest \in Seq(Events) /\ rest # <<>>
        /\ \A k \in DOMAIN rest : k + 1 \in DOMAIN loop.ev /\ k + 1 # 1 /\ rest[k] = loop.ev[k + 1]
    BY <1>1, <1>6, TailShifts
  <2>3. \A k \in DOMAIN rest : k \in Nat
    BY <2>2
  <2>4. 1 \in DOMAIN loop.ev /\ Head(loop.ev) = loop.ev[1]
    BY <1>1, <1>5
  <2> HIDE DEF rest, ne
  <2>5. loop' \in LoopType /\ loop'.ev = rest /\ loop'.pc = "build"
    BY <1>2, <2>1, <2>2 DEF LoopInv, LoopType
  <2>6. \A k \in DOMAIN rest : rest[k].id \in Sockets
    <3>1. \A k \in DOMAIN rest : rest[k] \in Events
      BY <2>2
    <3> QED
      BY <3>1 DEF Events
  <2>7. \A k \in DOMAIN rest : Open(u, rest[k].id)
    BY <2>2, <2>4, <2>6 DEF LoopInv
  <2>8. \A j, k \in DOMAIN rest : j # k => rest[j].id # rest[k].id
    BY <2>2, <2>3 DEF LoopInv
  <2> QED
    BY <1>4, <2>2, <2>5, <2>7, <2>8 DEF LoopInv
<1>7. CASE ~ (Len(loop.ev) > 1)
  <2>1. loop' = [pc |-> IF c = 0 THEN "timer" ELSE "dispatch", ev |-> <<>>, ne |-> SubSeq(ne, 1, c)]
    BY <1>7 DEF Build
  <2> HIDE DEF ne, c
  <2>2. SubSeq(ne, 1, c) \in Seq(Messages) /\ (c # 0 => SubSeq(ne, 1, c) # <<>>)
    BY <1>2, <1>3
  <2>3. <<>> \in Seq(Events) /\ DOMAIN <<>> = {}
    OBVIOUS
  <2>4. loop' \in LoopType /\ loop'.ev = <<>> /\ loop'.pc = (IF c = 0 THEN "timer" ELSE "dispatch")
        /\ loop'.ne = SubSeq(ne, 1, c)
    BY <2>1, <2>2, <2>3 DEF LoopType
  <2>5. \A k \in DOMAIN loop'.ev : FALSE
    BY <2>3, <2>4
  <2> QED
    BY <1>4, <2>2, <2>4, <2>5 DEF LoopInv
<1> QED
  BY <1>6, <1>7

\* epoll_wait reports sockets that are subscribed, hence open, each once.
LEMMA PollKeeps ==
    ASSUME TableInv(net), LoopInv(net, loop), Poll
    PROVE  LoopInv(net, loop')
<1>1. PICK batch \in Batches :
          loop' = [pc |-> IF batch = <<>> THEN "timer" ELSE "build", ev |-> batch, ne |-> <<>>]
  BY DEF Poll
<1>2. PICK W \in SUBSET {i \in Sockets : MayBeWritable(i)} :
          batch \in {[k \in DOMAIN o |-> [id |-> o[k], r |-> Readable(o[k]), w |-> o[k] \in W]] :
                         o \in Orders(W \cup {i \in Sockets : Readable(i)})}
  BY DEF Batches
<1> DEFINE S == W \cup {i \in Sockets : Readable(i)}
<1>3. PICK o \in Orders(S) :
          batch = [k \in DOMAIN o |-> [id |-> o[k], r |-> Readable(o[k]), w |-> o[k] \in W]]
  BY <1>2
<1>4. S \subseteq Sockets /\ \A i \in S : Open(net, i)
  BY DEF MayBeWritable, Readable, TableInv, SockInv, Clean, Open
<1>5. IsFiniteSet(S) /\ Cardinality(S) \in Nat
  <2> HIDE DEF S
  <2>1. IsFiniteSet(Sockets)
    BY NetAssumption, FS_Interval DEF Sockets
  <2>2. IsFiniteSet(S)
    BY <1>4, <2>1, FS_Subset
  <2> QED
    BY <2>2, FS_CardinalityType
<1>6. /\ DOMAIN o = 1 .. Cardinality(S)
      /\ \A k \in DOMAIN o : o[k] \in S
      /\ \A j, k \in DOMAIN o : j # k => o[j] # o[k]
  BY DEF Orders
<1> HIDE DEF S
<1>7. \A i \in Sockets : Readable(i) \in BOOLEAN
  BY DEF Readable, TableInv, SockInv, SocketType
<1>8. \A k \in DOMAIN o : [id |-> o[k], r |-> Readable(o[k]), w |-> o[k] \in W] \in Events
  BY <1>4, <1>6, <1>7 DEF Events
<1>9. batch \in Seq(Events) /\ DOMAIN batch = DOMAIN o /\ \A k \in DOMAIN o : batch[k].id = o[k]
  BY <1>3, <1>5, <1>6, <1>8
<1>10. loop' \in LoopType /\ loop'.ev = batch /\ loop'.pc = (IF batch = <<>> THEN "timer" ELSE "build")
  BY <1>1, <1>9 DEF LoopType
<1> QED
  BY <1>4, <1>6, <1>9, <1>10 DEF LoopInv

\* net_create leaves every socket on the free list.
LEMMA CreatedInv == TableInv(net_create)
<1> DEFINE next(i) == IF i = MaxSocket - 1 THEN NIL ELSE i + 1
           t == net_create
           chain == [k \in 1 .. MaxSocket |-> k - 1]
<1>1. \A i \in Sockets : next(i) \in Sockets \cup {NIL, KFD}
  BY NetAssumption DEF Sockets
<1>2. /\ t.free_socket = 0 /\ t.tail_socket = MaxSocket - 1
      /\ \A i \in Sockets : t.sock[i] = FreeSocket(next(i))
      /\ t = [sock |-> t.sock, free_socket |-> t.free_socket, tail_socket |-> t.tail_socket]
      /\ t.sock = [i \in Sockets |-> t.sock[i]]
  BY DEF net_create
<1> HIDE DEF t
<1>3. \A i \in Sockets : SockInv(t.sock[i]) /\ ~ Open(t, i) /\ t.sock[i].fd = next(i)
  BY <1>1, <1>2, FreeSocketInv DEF Open
<1>4. t \in NetType
  <2>1. t.sock \in [Sockets -> SocketType]
    BY <1>2, <1>3 DEF SockInv
  <2>2. t.free_socket \in Sockets /\ t.tail_socket \in Sockets
    BY <1>2, NetAssumption DEF Sockets
  <2> QED
    BY <1>2, <2>1, <2>2 DEF NetType
<1>5. Pool(t)
  <2>1. chain \in [1 .. MaxSocket -> Sockets] /\ \A k \in 1 .. MaxSocket : chain[k] = k - 1
    BY NetAssumption DEF Sockets
  <2>2. \A i \in Sockets : i + 1 \in 1 .. MaxSocket /\ chain[i + 1] = i
    BY NetAssumption DEF Sockets
  <2> HIDE DEF chain
  <2>3. IsPool(t, MaxSocket, chain)
    <3>1. \A j, k \in 1 .. MaxSocket : chain[j] = chain[k] => j = k
      BY <2>1
    <3>2. MaxSocket > 0 /\ t.free_socket = chain[1] /\ t.tail_socket = chain[MaxSocket]
      BY <1>2, <2>1, NetAssumption
    <3>3. \A k \in 1 .. MaxSocket :
              t.sock[chain[k]].fd = IF k = MaxSocket THEN NIL ELSE chain[k + 1]
      <4> SUFFICES ASSUME NEW k \in 1 .. MaxSocket
                   PROVE  t.sock[chain[k]].fd = IF k = MaxSocket THEN NIL ELSE chain[k + 1]
        OBVIOUS
      <4>1. t.sock[chain[k]].fd = next(k - 1)
        BY <1>3, <2>1
      <4>2. k # MaxSocket => chain[k + 1] = k
        BY <2>1, NetAssumption
      <4> QED
        BY <4>1, <4>2, NetAssumption
    <3>4. \A i \in Sockets : Open(t, i) <=> \A k \in 1 .. MaxSocket : chain[k] # i
      BY <1>3, <2>2
    <3> QED
      BY <3>1, <3>2, <3>3, <3>4 DEF IsPool
  <2> QED
    BY <2>1, <2>3, NetAssumption DEF Pool
<1>6. TableInv(t)
  BY <1>3, <1>4, <1>5 DEF TableInv
<1> QED
  BY <1>6 DEF t
=============================================================================

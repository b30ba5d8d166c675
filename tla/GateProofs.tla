----------------------------- MODULE GateProofs -----------------------------
(***************************************************************************)
(* Theorems about the gate node, for every number of clients and sockets,  *)
(* every buffer size and every timeout: its client table, its socket table *)
(* and its event loop agree, a client is logged out exactly while its      *)
(* connection is half-closed, and an assert fails only for the causes      *)
(* AbortCause names.                                                       *)
(*                                                                         *)
(* The inductive invariant has a part that holds whatever happens (Base),  *)
(* one about the messages that are still to be dispatched, one about the   *)
(* read loop, and one that holds while no batch lost a message or reused   *)
(* an id (Linked).  Every call a handler makes is shown once to be Good:   *)
(* it keeps all of them.                                                   *)
(***************************************************************************)
EXTENDS Gate, NetLemmas, FreeidLemmas

\* The clients that are not free.
TakenIn(p) == {c \in Clients : p[c].status # "FREE"}

\* chain lists, head first, the free list of the id table f: different ids, none in T.
IsList(f, T, n, chain) ==
    /\ \A j, k \in 1 .. n : chain[j] = chain[k] => j = k
    /\ f.free = IF n = 0 THEN NULL ELSE chain[1]
    /\ \A k \in 1 .. n : IF k = n THEN AddressOf(f.ids[chain[k]]) = NULL
                                  ELSE f.ids[chain[k]] = chain[k + 1]
    /\ \A k \in 1 .. n : chain[k] \notin T

FreeOutside(f, T) ==
    /\ f \in FreeidType
    /\ \E n \in 0 .. Cap : \E chain \in [1 .. n -> Ids] : IsList(f, T, n, chain)

\* The table of clients, whatever the batches suffered.
ClientsInv(g) ==
    /\ g \in GateType
    /\ FreeOutside(g.fi, TakenIn(g.p))
    /\ g.used = Cardinality(TakenIn(g.p))
    /\ \A i \in Sockets : g.fi.slots[i] # -1 =>
         g.p[g.fi.slots[i]].status # "FREE" /\ g.p[g.fi.slots[i]].connid = i
    /\ \A c \in Clients : g.p[c].status # "FREE" => g.p[c].connid # ListenId

\* The sockets a gate node has.
SocksInv(t) ==
    /\ TableInv(t)
    /\ t.sock[ListenId].status = "LISTENING" /\ t.sock[ListenId].ud = "gate"
    /\ \A i \in Sockets : i # ListenId => t.sock[i].status \in {"INVALID", "CONNECTED", "HALFCLOSE"}
    /\ \A i \in Sockets : Open(t, i) => t.sock[i].ud \in Services

OfGate(s) == s.status \in {"CONNECTED", "HALFCLOSE"} /\ s.ud = "gate"

\* A connection that can have events has a client.
ServedInv(t, slots) == \A i \in Sockets : OfGate(t.sock[i]) /\ t.sock[i].mask # {} => slots[i] # -1

States == [net : NetType, gate : GateType, gone : SUBSET Sockets]

Base(w) ==
    /\ w \in States
    /\ ClientsInv(w.gate) /\ SocksInv(w.net)
    /\ ServedInv(w.net, w.gate.fi.slots)

\* The ids of the messages of one kind.
Ends(ne) == {i \in Sockets : \E k \in DOMAIN ne :
                 ne[k].type \in {"SOCKERR", "WRIDONECLOSE"} /\ ne[k].ud = "gate" /\ ne[k].id = i}
Accepts(ne) == {i \in Sockets : \E k \in DOMAIN ne : ne[k].type = "ACCEPT" /\ ne[k].id = i}
LinkReads(ne) == {i \in Sockets : \E k \in DOMAIN ne :
                 ne[k].type = "READ" /\ ne[k].ud = "node" /\ ne[k].id = i}

\* Clients and connections point at each other, unless the message that ends the
\* connection (E) or begins it (A) is still to come.
ClientLinked(w, E, c) ==
    w.gate.p[c].status # "FREE" =>
        LET i == w.gate.p[c].connid IN
        /\ w.gate.fi.slots[i] = c
        /\ \/ i \in E
           \/ /\ OfGate(w.net.sock[i])
              /\ w.gate.p[c].status = "LOGOUTED" <=> w.net.sock[i].status = "HALFCLOSE"

SocketLinked(w, A, i) == OfGate(w.net.sock[i]) => i \in A \/ w.gate.fi.slots[i] # -1

AcceptLinked(w, i) ==
    w.gate.fi.slots[i] = -1 /\ w.net.sock[i].status = "CONNECTED" /\ w.net.sock[i].ud = "gate"

Linked(w, E, A, N) ==
    /\ \A c \in Clients : ClientLinked(w, E, c)
    /\ \A i \in Sockets : SocketLinked(w, A, i)
    /\ \A i \in A : AcceptLinked(w, i)
    /\ \A i \in N : ~ OfGate(w.net.sock[i])

FreshAccepts(ne) == \A j, k \in DOMAIN ne : j < k /\ ne[k].type = "ACCEPT" => ne[j].id # ne[k].id

MsgsInv(ne, w) ==
    \A k \in DOMAIN ne : ne[k].type # "INVALID" =>
        /\ ne[k].type \in {"READ", "ACCEPT", "SOCKERR", "WRIDONECLOSE"}
        /\ ne[k].id \in Sockets \ {ListenId} /\ ne[k].ud \in Services
        /\ ne[k].type # "ACCEPT" /\ ne[k].ud = "gate" =>
             w.gate.fi.slots[ne[k].id] # -1 \/ ne[k].id \in w.gone

EventsInv(ev, w) ==
    \A k \in DOMAIN ev : OfGate(w.net.sock[ev[k].id]) => w.gate.fi.slots[ev[k].id] # -1

ReadInv(w, r, ne) ==
    r.at # "idle" =>
        /\ ne # <<>> /\ Head(ne).type = "READ" /\ Head(ne).id = r.id
        /\ r.c = -1 <=> Head(ne).ud = "node"
        /\ r.c # -1 =>
             \/ w.gate.fi.slots[r.id] = r.c
             \/ /\ w.gate.fi.slots[r.id] = -1 /\ w.gate.p[r.c].status = "FREE"
                /\ r.id \in w.gone /\ ~ Open(w.net, r.id)
        /\ r.at = "read" /\ r.force /\ Open(w.net, r.id) => w.net.sock[r.id].rb < MsgSize
        /\ r.at = "handle" => r.buf <= r.nread /\ (Open(w.net, r.id) => w.net.sock[r.id].rb = r.nread)

IInv ==
    /\ Base(Here)
    /\ LoopInv(net, loop) /\ EventsInv(loop.ev, Here)
    /\ loop.pc \in {"poll", "timer"} => loop.ne = <<>>
    /\ backlog \in 0 .. MaxBacklog /\ mishaps \subseteq {"lost", "reused"}
    /\ rd \in ReadType /\ due \in 0 .. Cap
    /\ rd.at # "idle" => loop.pc = "dispatch"
    /\ AbortCause
    /\ Running => MsgsInv(loop.ne, Here) /\ ReadInv(Here, rd, loop.ne)
    /\ Healthy => FreshAccepts(loop.ne)
                  /\ Linked(Here, Ends(loop.ne), Accepts(loop.ne), LinkReads(loop.ne))

-----------------------------------------------------------------------------
\* What the calls of Net do to the sockets, one by one: what a client and its
\* handler can tell of a socket changes only for the one that is named.
Same(r, s) == r.status = s.status /\ r.mask = s.mask /\ r.ud = s.ud /\ r.rb = s.rb

Others(t, u, i) == \A j \in Sockets : j # i => Same(u.sock[j], t.sock[j])

LEMMA CloseEffect ==
    ASSUME NEW t, TableInv(t), NEW i \in Sockets
    PROVE  LET u == close_socket(t, i)
           IN TableInv(u) /\ Others(t, u, i) /\ u.sock[i].status = "INVALID"
<1> DEFINE u == close_socket(t, i)
           cleared == [t EXCEPT !.sock[i] = FreeSocket(NIL), !.tail_socket = i]
           freed == FreeSocket(NIL)
<1>1. /\ t = [sock |-> t.sock, free_socket |-> t.free_socket, tail_socket |-> t.tail_socket]
      /\ t.sock \in [Sockets -> SocketType] /\ t.tail_socket \in Sockets
  BY DEF TableInv, NetType
<1>2. TableInv(u)
  BY CloseKeeps
<1>3. freed.status = "INVALID" /\ freed \in SocketType
  BY FreeSocketInv DEF SockInv
<1>4. CASE t.sock[i].status = "INVALID"
  <2>1. u = t
    BY <1>4 DEF close_socket
  <2> QED
    BY <1>2, <1>4, <2>1 DEF Others, Same
<1>5. CASE t.sock[i].status # "INVALID"
  <2> HIDE DEF freed
  <2> DEFINE socks == [t.sock EXCEPT ![i] = freed]
  <2>0. cleared = [sock |-> socks, free_socket |-> t.free_socket, tail_socket |-> i]
    <3>1. cleared = [[t EXCEPT !.sock = socks] EXCEPT !.tail_socket = i]
      BY DEF freed
    <3> HIDE DEF cleared, socks
    <3> QED
      BY <1>1, <3>1
  <2>1. cleared.sock = socks /\ cleared = [sock |-> cleared.sock,
            free_socket |-> cleared.free_socket, tail_socket |-> cleared.tail_socket]
    <3> HIDE DEF cleared, socks
    <3> QED
      BY <2>0
  <2>2. cleared.sock \in [Sockets -> SocketType] /\ cleared.sock[i] = freed
        /\ \A j \in Sockets : j # i => cleared.sock[j] = t.sock[j]
    BY <1>1, <1>3, <2>1
  <2>3. \/ u = [cleared EXCEPT !.free_socket = i]
        \/ u = [cleared EXCEPT !.sock[t.tail_socket].fd = i]
    BY <1>5 DEF close_socket
  <2> DEFINE tail == [cleared.sock[t.tail_socket] EXCEPT !.fd = i]
  <2>4. tail \in SocketType /\ Same(tail, cleared.sock[t.tail_socket])
    <3>1. cleared.sock[t.tail_socket] \in SocketType
      BY <1>1, <2>2
    <3> HIDE DEF cleared
    <3> QED
      BY <3>1 DEF SocketType, Same
  <2> HIDE DEF cleared
  <2>5. u.sock = cleared.sock \/ u.sock = [cleared.sock EXCEPT ![t.tail_socket] = tail]
    BY <2>1, <2>3
  <2> HIDE DEF u, tail
  <2>6. \A j \in Sockets : u.sock[j] = cleared.sock[j] \/ (j = t.tail_socket /\ u.sock[j] = tail)
    BY <1>1, <2>2, <2>5
  <2>7. \A j \in Sockets : Same(u.sock[j], cleared.sock[j])
    BY <2>4, <2>6 DEF Same
  <2>8. Others(t, u, i)
    BY <2>2, <2>7 DEF Others, Same
  <2>9. u.sock[i].status = "INVALID"
    BY <1>3, <2>2, <2>7 DEF Same
  <2> QED
    BY <1>2, <2>8, <2>9 DEF u
<1> QED
  BY <1>4, <1>5

LEMMA UpdateEffect ==
    ASSUME NEW t, TableInv(t), NEW i \in Sockets, NEW s
    PROVE  LET u == [t EXCEPT !.sock[i] = s]
           IN Others(t, u, i) /\ u.sock[i] = s
<1> DEFINE u == [t EXCEPT !.sock[i] = s]
<1>1. t = [sock |-> t.sock, free_socket |-> t.free_socket, tail_socket |-> t.tail_socket]
      /\ t.sock \in [Sockets -> SocketType]
  BY DEF TableInv, NetType
<1>2. u.sock = [t.sock EXCEPT ![i] = s]
  BY <1>1
<1> HIDE DEF u
<1>3. u.sock[i] = s /\ \A j \in Sockets : j # i => u.sock[j] = t.sock[j]
  BY <1>1, <1>2
<1> QED
  BY <1>3, Zenon DEF Others, Same, u

\* A socket that stays one of the gate's.
LEMMA SocksFrom ==
    ASSUME NEW t, SocksInv(t), NEW i \in Sockets, i # ListenId, NEW u, TableInv(u), Others(t, u, i),
           u.sock[i].status \in {"INVALID", "CONNECTED", "HALFCLOSE"},
           u.sock[i].status # "INVALID" => u.sock[i].ud \in Services
    PROVE  SocksInv(u)
<1>1. ListenId \in Sockets
  BY NetAssumption DEF ListenId, Sockets
<1>2. u.sock[ListenId].status = "LISTENING" /\ u.sock[ListenId].ud = "gate"
  BY <1>1 DEF SocksInv, Others, Same
<1>3. \A j \in Sockets : j # ListenId => u.sock[j].status \in {"INVALID", "CONNECTED", "HALFCLOSE"}
  BY DEF SocksInv, Others, Same
<1>4. \A j \in Sockets : Open(u, j) => u.sock[j].ud \in Services
  BY DEF SocksInv, Others, Same, Open
<1> QED
  BY <1>2, <1>3, <1>4 DEF SocksInv

\* The socket keeps its status and its owner, or its unread bytes too.
Steady(t, u, i) ==
    /\ SocksInv(u) /\ Others(t, u, i)
    /\ u.sock[i].status = t.sock[i].status /\ u.sock[i].ud = t.sock[i].ud

Kept(t, u, i) == Steady(t, u, i) /\ u.sock[i].rb = t.sock[i].rb

Closed(t, u, i) == SocksInv(u) /\ Others(t, u, i) /\ u.sock[i].status = "INVALID"

LEMMA SocksClose ==
    ASSUME NEW t, SocksInv(t), NEW i \in Sockets, i # ListenId
    PROVE  Closed(t, close_socket(t, i), i)
<1> DEFINE u == close_socket(t, i)
<1>1. TableInv(t)
  BY DEF SocksInv
<1>2. TableInv(u) /\ Others(t, u, i) /\ u.sock[i].status = "INVALID"
  BY <1>1, CloseEffect
<1> HIDE DEF u
<1>3. SocksInv(u)
  BY <1>2, SocksFrom
<1> QED
  BY <1>2, <1>3 DEF Closed, u

\* Nothing happens to a socket that is not open.
LEMMA SameKept == ASSUME NEW t, SocksInv(t), NEW i \in Sockets PROVE Kept(t, t, i)
BY DEF Kept, Steady, Others, Same

LEMMA SteadyUpdate ==
    ASSUME NEW t, SocksInv(t), NEW i \in Sockets, i # ListenId, Open(t, i),
           NEW s, NEW u, u = [t EXCEPT !.sock[i] = s], TableInv(u),
           s.status = t.sock[i].status, s.ud = t.sock[i].ud
    PROVE  Steady(t, u, i) /\ u.sock[i] = s
<1>1. Others(t, u, i) /\ u.sock[i] = s
  BY UpdateEffect DEF SocksInv
<1>2. s.status \in {"INVALID", "CONNECTED", "HALFCLOSE"} /\ s.ud \in Services
  BY DEF SocksInv
<1>3. SocksInv(u)
  BY <1>1, <1>2, SocksFrom
<1> QED
  BY <1>1, <1>3 DEF Steady

LEMMA SubscribeEffect ==
    ASSUME NEW t, SocksInv(t), NEW i \in Sockets, i # ListenId
    PROVE  Kept(t, net_subscribe(t, i, TRUE), i)
<1> DEFINE u == net_subscribe(t, i, TRUE)
           m == {"R"} \cup (t.sock[i].mask \cap {"W"})
           s == [t.sock[i] EXCEPT !.mask = m]
<1>1. CASE ~ Open(t, i)
  <2>1. u = t
    BY <1>1 DEF net_subscribe
  <2> QED
    BY <2>1, SameKept
<1>2. CASE Open(t, i)
  <2>1. u = [t EXCEPT !.sock[i] = s]
    BY <1>2 DEF net_subscribe, subscribe
  <2>2. TableInv(u)
    BY NetSubscribeTouches DEF SocksInv, Touches
  <2>3. s.status = t.sock[i].status /\ s.ud = t.sock[i].ud /\ s.rb = t.sock[i].rb
    <3>1. t.sock[i] \in SocketType
      BY DEF SocksInv, TableInv, NetType
    <3> HIDE DEF m
    <3> QED
      BY <3>1 DEF SocketType
  <2> HIDE DEF s, u
  <2>4. Steady(t, u, i) /\ u.sock[i] = s
    BY <1>2, <2>1, <2>2, <2>3, SteadyUpdate
  <2> QED
    BY <2>3, <2>4 DEF u, Kept
<1> QED
  BY <1>1, <1>2

\* A write fails and closes the socket, or it does not.
LEMMA SendEffect ==
    ASSUME NEW t, SocksInv(t), NEW i \in Sockets, i # ListenId, NEW written \in -1 .. 1
    PROVE  LET u == net_send(t, i, 1, written)
           IN IF SendResult(t, i, 1, written) = "error" THEN Closed(t, u, i) ELSE Kept(t, u, i)
<1> DEFINE u == net_send(t, i, 1, written)
           result == SendResult(t, i, 1, written)
           rest == IF t.sock[i].head = 0 THEN 1 - written ELSE 1
           s == Queued(t.sock[i], rest)
<1>1. CASE result = "error"
  <2>1. u = close_socket(t, i)
    BY <1>1 DEF net_send
  <2> QED
    BY <1>1, <2>1, SocksClose
<1>2. CASE result # "error" /\ u = t
  BY <1>2, SameKept
<1>3. CASE result # "error" /\ u # t
  <2>1. u = [t EXCEPT !.sock[i] = s]
    BY <1>3 DEF net_send
  <2>2. Open(t, i)
    BY <1>3 DEF net_send, SendResult
  <2>3. TableInv(u)
    <3>1. TableInv(t) /\ t.sock[i].status \in {"CONNECTED", "HALFCLOSE"} /\ 1 \in Nat \ {0}
      BY <2>2 DEF SocksInv, Open
    <3>2. Touches(t, u, i)
      BY <3>1, SendTouches
    <3> QED
      BY <3>2 DEF Touches
  <2>4. s.status = t.sock[i].status /\ s.ud = t.sock[i].ud /\ s.rb = t.sock[i].rb
    <3>1. t.sock[i] \in SocketType
      BY DEF SocksInv, TableInv, NetType
    <3> DEFINE mask == IF t.sock[i].head = 0 THEN t.sock[i].mask \cup {"W"} ELSE t.sock[i].mask
    <3>2. s = [t.sock[i] EXCEPT !.head = t.sock[i].head + rest,
                                !.wbuffersz = t.sock[i].wbuffersz + rest, !.mask = mask]
      BY DEF Queued
    <3> HIDE DEF s, rest, mask
    <3> QED
      BY <3>1, <3>2 DEF SocketType
  <2> HIDE DEF s, u
  <2>5. Kept(t, u, i)
    BY <2>1, <2>2, <2>3, <2>4, SteadyUpdate DEF Kept
  <2> QED
    BY <1>3, <2>5 DEF u
<1> QED
  BY <1>1, <1>2, <1>3

\* An unforced close of a socket with unsent bytes.
Halved(t, u, i) ==
    /\ SocksInv(u) /\ Others(t, u, i)
    /\ t.sock[i].status \in {"CONNECTED", "HALFCLOSE"}
    /\ u.sock[i].status = "HALFCLOSE" /\ u.sock[i].ud = t.sock[i].ud /\ u.sock[i].rb = t.sock[i].rb

LEMMA NetCloseEffect ==
    ASSUME NEW t, SocksInv(t), NEW i \in Sockets, i # ListenId, NEW force \in BOOLEAN
    PROVE  LET u == net_close_socket(t, i, force)
           IN IF ClosesNow(t, i, force) THEN Closed(t, u, i) ELSE Halved(t, u, i)
<1> DEFINE u == net_close_socket(t, i, force)
           s == [t.sock[i] EXCEPT !.status = "HALFCLOSE"]
<1>1. CASE ~ Open(t, i)
  <2>1. u = t /\ ClosesNow(t, i, force)
    BY <1>1 DEF net_close_socket, ClosesNow
  <2>2. t.sock[i].status = "INVALID"
    BY <1>1 DEF Open
  <2>3. Closed(t, t, i)
    BY <2>2 DEF Closed, Others, Same
  <2> QED
    BY <2>1, <2>3
<1>2. CASE Open(t, i) /\ ClosesNow(t, i, force)
  <2>1. u = close_socket(t, i)
    BY <1>2 DEF net_close_socket
  <2> QED
    BY <1>2, <2>1, SocksClose
<1>3. CASE Open(t, i) /\ ~ ClosesNow(t, i, force)
  <2>1. u = [t EXCEPT !.sock[i] = s]
    BY <1>3 DEF net_close_socket
  <2>2. t.sock[i].status \in {"CONNECTED", "HALFCLOSE"} /\ t.sock[i].ud \in Services
        /\ t.sock[i] \in SocketType
    BY <1>3 DEF SocksInv, Open, TableInv, NetType
  <2>3. s.status = "HALFCLOSE" /\ s.ud = t.sock[i].ud /\ s.rb = t.sock[i].rb
    BY <2>2 DEF SocketType
  <2>4. TableInv(u)
    <3>1. Touches(t, u, i)
      BY <2>2, NetCloseTouches DEF SocksInv
    <3> QED
      BY <3>1 DEF Touches
  <2>5. Others(t, u, i) /\ u.sock[i] = s
    BY <2>1, UpdateEffect DEF SocksInv
  <2> HIDE DEF s, u
  <2>6. SocksInv(u)
    BY <2>2, <2>3, <2>4, <2>5, SocksFrom
  <2>7. Halved(t, u, i)
    BY <2>2, <2>3, <2>5, <2>6 DEF Halved
  <2> QED
    BY <1>3, <2>7 DEF u
<1> QED
  BY <1>1, <1>2, <1>3

\* A read ends the connection, or takes what the kernel has.
LEMMA ReadEffect ==
    ASSUME NEW t, SocksInv(t), NEW i \in Sockets, i # ListenId, NEW force \in BOOLEAN,
           ReadAsserts(t, i, force)
    PROVE  LET u == net_read(t, i, force)
           IN IF ReadResult(t, i, force) = "error" THEN Open(t, i) /\ Closed(t, u, i)
                                                   ELSE Steady(t, u, i) /\ u.sock[i].mask = t.sock[i].mask
<1> DEFINE u == net_read(t, i, force)
           s == IF t.sock[i].status = "HALFCLOSE"
                THEN [t.sock[i] EXCEPT !.inq = 0]
                ELSE [t.sock[i] EXCEPT !.rb = t.sock[i].rb + ReadSize(t.sock[i]),
                                       !.inq = t.sock[i].inq - ReadSize(t.sock[i])]
<1>1. CASE ~ Open(t, i) \/ ~ AsksKernel(t, i, force)
  <2>1. u = t /\ ReadResult(t, i, force) # "error"
    BY <1>1 DEF net_read, ReadResult
  <2> QED
    BY <2>1, SameKept DEF Kept
<1>2. CASE Open(t, i) /\ AsksKernel(t, i, force) /\ AtEof(t, i)
  <2>1. u = close_socket(t, i) /\ ReadResult(t, i, force) = "error"
    BY <1>2 DEF net_read, ReadResult
  <2> QED
    BY <1>2, <2>1, SocksClose
<1>3. CASE Open(t, i) /\ AsksKernel(t, i, force) /\ ~ AtEof(t, i)
  <2>1. u = [t EXCEPT !.sock[i] = s] /\ ReadResult(t, i, force) # "error"
    BY <1>3 DEF net_read, ReadResult
  <2>2. TableInv(u)
    <3>1. Touches(t, u, i)
      BY ReadTouches DEF SocksInv
    <3> QED
      BY <3>1 DEF Touches
  <2>3. s.status = t.sock[i].status /\ s.ud = t.sock[i].ud /\ s.mask = t.sock[i].mask
    <3>1. t.sock[i] \in SocketType
      BY DEF SocksInv, TableInv, NetType
    <3> QED
      BY <3>1 DEF SocketType
  <2> HIDE DEF s, u
  <2>4. Steady(t, u, i) /\ u.sock[i] = s
    BY <1>3, <2>1, <2>2, <2>3, SteadyUpdate
  <2> QED
    BY <2>1, <2>3, <2>4 DEF u
<1> QED
  BY <1>1, <1>2, <1>3

LEMMA DropEffect ==
    ASSUME NEW t, SocksInv(t), NEW i \in Sockets, i # ListenId,
           NEW sz \in Nat, Open(t, i) => sz <= t.sock[i].rb
    PROVE  LET u == net_dropread(t, i, sz)
           IN /\ Steady(t, u, i) /\ u.sock[i].mask = t.sock[i].mask
              /\ Open(t, i) => u.sock[i].rb = t.sock[i].rb - sz
<1> DEFINE u == net_dropread(t, i, sz)
           s == [t.sock[i] EXCEPT !.rb = t.sock[i].rb - sz]
<1>1. CASE ~ Open(t, i)
  <2>1. u = t
    BY <1>1 DEF net_dropread
  <2> QED
    BY <1>1, <2>1, SameKept DEF Kept
<1>2. CASE Open(t, i)
  <2>1. u = [t EXCEPT !.sock[i] = s]
    BY <1>2 DEF net_dropread
  <2>2. t.sock[i] \in SocketType /\ t.sock[i].rb \in Nat
    BY NetAssumption DEF SocksInv, TableInv, NetType, SocketType
  <2>3. s.status = t.sock[i].status /\ s.ud = t.sock[i].ud /\ s.rb = t.sock[i].rb - sz
        /\ s.mask = t.sock[i].mask
    BY <2>2 DEF SocketType
  <2>4. TableInv(u)
    <3>1. CASE sz = 0
      <4>1. s = t.sock[i]
        BY <2>2, <3>1 DEF SocketType
      <4>2. u = t
        BY <2>1, <4>1 DEF SocksInv, TableInv, NetType
      <4> QED
        BY <4>2 DEF SocksInv
    <3>2. CASE sz # 0
      <4>1. sz \in 1 .. t.sock[i].rb
        BY <1>2, <2>2, <3>2
      <4>2. Touches(t, u, i)
        BY <4>1, DropTouches DEF SocksInv
      <4> QED
        BY <4>2 DEF Touches
    <3> QED
      BY <3>1, <3>2
  <2> HIDE DEF s, u
  <2>5. Steady(t, u, i) /\ u.sock[i] = s
    BY <1>2, <2>1, <2>3, <2>4, SteadyUpdate
  <2> QED
    BY <2>3, <2>5 DEF u
<1> QED
  BY <1>1, <1>2

-----------------------------------------------------------------------------
\* The id table when some id may have leaked: an accept for a connection that
\* still holds an id, after a batch lost a message, leaves that id to nobody.
LEMMA TableConstants ==
    /\ Hashes = Sockets /\ Clients = Ids /\ IsFiniteSet(Clients) /\ -1 \notin Clients
    /\ ListenId \in Sockets /\ -1 \notin Sockets
<1>1. IsFiniteSet(Ids)
  <2>1. 0 \in Int /\ Cap - 1 \in Int
    BY FreeidAssumption
  <2> QED
    BY <2>1, FS_Interval DEF Ids
<1> QED
  BY <1>1, GateAssumption, NetAssumption DEF Hashes, Sockets, Clients, Ids, ListenId

\* freeid_alloc takes the head of the free list, which is nobody's.
LEMMA AllocTakes ==
    ASSUME LowHeap, NEW f, NEW T, FreeOutside(f, T), NEW h \in Hashes, AllocId(f, h) # -1
    PROVE  /\ f.free \in Ids /\ f.free \notin T /\ AllocId(f, h) = f.free
           /\ freeid_alloc(f, h).slots = [f.slots EXCEPT ![h] = f.free]
           /\ FreeOutside(freeid_alloc(f, h), T \cup {f.free})
<1> DEFINE g == freeid_alloc(f, h)
<1>0. PICK n \in 0 .. Cap : \E chain \in [1 .. n -> Ids] : IsList(f, T, n, chain)
  BY DEF FreeOutside
<1>1. PICK chain \in [1 .. n -> Ids] : IsList(f, T, n, chain)
  BY <1>0
<1>2. f \in FreeidType /\ f.free # NULL /\ ~ freeid_full(f, h) /\ AllocId(f, h) = f.free
  BY DEF FreeOutside, AllocId, freeid_full, NULL
<1>3. n \in Nat /\ n >= 1 /\ n - 1 \in 0 .. Cap /\ 1 \in 1 .. n
  <2>1. n # 0
    BY <1>1, <1>2 DEF IsList
  <2> QED
    BY <2>1, FreeidAssumption
<1>4. f.free = chain[1] /\ f.free \in Ids /\ f.free \notin T
  BY <1>1, <1>3 DEF IsList
<1>5. /\ g.ids = f.ids
      /\ g.free = AddressOf(f.ids[f.free])
      /\ g.slots = [f.slots EXCEPT ![h] = f.free]
      /\ g = [ids |-> g.ids, free |-> g.free, slots |-> g.slots]
  BY <1>2 DEF freeid_alloc, FreeidType
<1> DEFINE rest == [k \in 1 .. n - 1 |-> chain[k + 1]]
<1>6. rest \in [1 .. n - 1 -> Ids]
  BY <1>3
<1>7. \A k \in 1 .. n - 1 : k + 1 \in 1 .. n /\ k + 1 # 1 /\ rest[k] = chain[k + 1]
  BY <1>3
<1>8. g.free = IF n - 1 = 0 THEN NULL ELSE rest[1]
  <2>1. IF 1 = n THEN AddressOf(f.ids[chain[1]]) = NULL ELSE f.ids[chain[1]] = chain[2]
    BY <1>1, <1>3 DEF IsList
  <2>2. n # 1 => chain[2] \in Ids /\ AddressOf(chain[2]) = chain[2] /\ rest[1] = chain[2]
    BY <1>3 DEF Ids, AddressOf, NullDiff
  <2> QED
    BY <1>3, <1>4, <1>5, <2>1, <2>2
<1>9. g \in FreeidType
  <2>1. g.free \in Pointers
    BY <1>3, <1>6, <1>8 DEF Pointers
  <2>2. g.slots \in [Hashes -> Ids \cup {-1}]
    BY <1>2, <1>4, <1>5 DEF FreeidType
  <2> QED
    BY <1>2, <1>5, <2>1, <2>2 DEF FreeidType
<1>10. IsList(g, T \cup {f.free}, n - 1, rest)
  <2>1. \A j, k \in 1 .. n : chain[j] = chain[k] => j = k
    BY <1>1 DEF IsList
  <2>2. \A j, k \in 1 .. n - 1 : rest[j] = rest[k] => j = k
    <3> HIDE DEF rest
    <3> QED
      BY <1>3, <1>7, <2>1
  <2>3. ASSUME NEW k \in 1 .. n - 1
        PROVE  IF k = n - 1 THEN AddressOf(g.ids[rest[k]]) = NULL
                            ELSE g.ids[rest[k]] = rest[k + 1]
    <3>1. k + 1 \in 1 .. n /\ rest[k] = chain[k + 1] /\ (k + 1 = n <=> k = n - 1)
      BY <1>3
    <3>2. k # n - 1 => rest[k + 1] = chain[k + 1 + 1]
      BY <1>3
    <3>3. IF k + 1 = n THEN AddressOf(f.ids[chain[k + 1]]) = NULL
                       ELSE f.ids[chain[k + 1]] = chain[k + 1 + 1]
      BY <1>1, <3>1 DEF IsList
    <3> QED
      BY <1>5, <3>1, <3>2, <3>3
  <2>4. \A k \in 1 .. n - 1 : rest[k] \notin T \cup {f.free}
    <3>1. \A k \in 1 .. n : chain[k] \notin T
      BY <1>1 DEF IsList
    <3> HIDE DEF rest
    <3> QED
      BY <1>3, <1>4, <1>7, <2>1, <3>1
  <2> HIDE DEF g, rest
  <2> QED
    BY <1>8, <2>2, <2>3, <2>4 DEF IsList
<1> HIDE DEF g, rest
<1>11. FreeOutside(g, T \cup {f.free})
  BY <1>3, <1>6, <1>9, <1>10 DEF FreeOutside
<1> QED
  BY <1>2, <1>4, <1>5, <1>11 DEF g

\* freeid_free puts the id the hash holds at the head of the free list.
LEMMA FreeGives ==
    ASSUME LowHeap, NEW f, NEW T, FreeOutside(f, T), NEW h \in Hashes,
           f.slots[h] # -1, f.slots[h] \in T
    PROVE  /\ freeid_free(f, h).slots = [f.slots EXCEPT ![h] = -1]
           /\ FreeOutside(freeid_free(f, h), T \ {f.slots[h]})
<1> DEFINE g == freeid_free(f, h)
           id == f.slots[h]
<1>0. PICK n \in 0 .. Cap : \E chain \in [1 .. n -> Ids] : IsList(f, T, n, chain)
  BY DEF FreeOutside
<1>1. PICK chain \in [1 .. n -> Ids] : IsList(f, T, n, chain)
  BY <1>0
<1>2. f \in FreeidType /\ id \in Ids
  BY DEF FreeOutside, FreeidType
<1>3. n \in Nat /\ n + 1 \in Nat
  OBVIOUS
<1>4. /\ g.ids = [f.ids EXCEPT ![id] = LinkTo(f.free)]
      /\ g.free = id
      /\ g.slots = [f.slots EXCEPT ![h] = -1]
      /\ g = [ids |-> g.ids, free |-> g.free, slots |-> g.slots]
  BY <1>2 DEF freeid_free, freeid_find, FreeidType
<1> DEFINE more == [k \in 1 .. n + 1 |-> IF k = 1 THEN id ELSE chain[k - 1]]
<1>5. more \in [1 .. n + 1 -> Ids] /\ more[1] = id /\ 1 \in 1 .. n + 1
  BY <1>2, <1>3
<1>6. \A k \in 1 .. n + 1 : k # 1 => k - 1 \in 1 .. n /\ more[k] = chain[k - 1]
  BY <1>3
<1>7. \A j, k \in 1 .. n : chain[j] = chain[k] => j = k
  BY <1>1 DEF IsList
<1>8. \A k \in 1 .. n : chain[k] # id /\ chain[k] \notin T
  BY <1>1 DEF IsList
<1>9. \A j, k \in 1 .. n + 1 : more[j] = more[k] => j = k
  <2> HIDE DEF more, id
  <2> QED
    BY <1>3, <1>5, <1>6, <1>7, <1>8
<1>10. n + 1 \in 0 .. Cap
  <2>1. n + 1 <= Cap
    BY <1>3, <1>5, <1>9, ChainIsShort
  <2> QED
    BY <1>3, <2>1, FreeidAssumption
<1>11. g \in FreeidType
  <2>1. LinkTo(f.free) \in Links
    BY DEF LinkTo, Links
  <2>2. g.ids \in [Ids -> Links] /\ g.free \in Pointers /\ g.slots \in [Hashes -> Ids \cup {-1}]
    BY <1>2, <1>4, <2>1 DEF FreeidType, Pointers
  <2> QED
    BY <1>4, <2>2 DEF FreeidType
<1>12. ASSUME NEW k \in 1 .. n + 1
       PROVE  IF k = n + 1 THEN AddressOf(g.ids[more[k]]) = NULL ELSE g.ids[more[k]] = more[k + 1]
  <2>1. CASE k = 1
    <3>1. g.ids[more[k]] = LinkTo(f.free)
      BY <1>2, <1>4, <2>1 DEF FreeidType
    <3>2. CASE n = 0
      <4>1. f.free = NULL
        BY <1>1, <3>2 DEF IsList
      <4>2. LinkTo(f.free) = NullDiff
        BY <4>1 DEF LinkTo, Ids, NULL
      <4> QED
        BY <2>1, <3>1, <3>2, <4>2 DEF AddressOf
    <3>3. CASE n # 0
      <4>1. f.free = chain[1] /\ chain[1] \in Ids
        BY <1>1, <1>3, <3>3 DEF IsList
      <4>2. more[k + 1] = chain[1]
        BY <1>3, <2>1, <3>3
      <4> QED
        BY <1>3, <2>1, <3>1, <3>3, <4>1, <4>2 DEF LinkTo
    <3> QED
      BY <3>2, <3>3
  <2>2. CASE k # 1
    <3>1. k - 1 \in 1 .. n /\ more[k] = chain[k - 1] /\ (k - 1 = n <=> k = n + 1)
      BY <1>3, <2>2
    <3>2. k # n + 1 => more[k + 1] = chain[k - 1 + 1]
      BY <1>3, <2>2
    <3>3. IF k - 1 = n THEN AddressOf(f.ids[chain[k - 1]]) = NULL
                       ELSE f.ids[chain[k - 1]] = chain[k - 1 + 1]
      BY <1>1, <3>1 DEF IsList
    <3>4. g.ids[chain[k - 1]] = f.ids[chain[k - 1]]
      BY <1>2, <1>4, <1>8, <3>1 DEF FreeidType
    <3> QED
      BY <3>1, <3>2, <3>3, <3>4
  <2> QED
    BY <2>1, <2>2
<1>13. \A k \in 1 .. n + 1 : more[k] \notin T \ {id}
  <2> HIDE DEF more, id
  <2> QED
    BY <1>3, <1>5, <1>6, <1>8
<1> HIDE DEF g, more
<1>14. IsList(g, T \ {id}, n + 1, more)
  BY <1>3, <1>4, <1>5, <1>9, <1>12, <1>13 DEF IsList
<1>15. FreeOutside(g, T \ {id})
  BY <1>5, <1>10, <1>11, <1>14 DEF FreeOutside
<1> QED
  BY <1>4, <1>15 DEF g

-----------------------------------------------------------------------------
\* What the calls of a handler make of the state: connections only end, clients
\* only leave, and who leaves gives its id back and has its connection closed.
Moved(w, v) ==
    /\ \A i \in Sockets : Open(v.net, i) => Open(w.net, i) /\ v.net.sock[i].rb = w.net.sock[i].rb
    /\ w.gone \subseteq v.gone
    /\ \A i \in Sockets :
         \/ v.gate.fi.slots[i] = w.gate.fi.slots[i]
         \/ /\ v.gate.fi.slots[i] = -1 /\ v.gate.p[w.gate.fi.slots[i]].status = "FREE"
            /\ i \in v.gone /\ ~ Open(v.net, i)
    /\ \A c \in Clients :
         \/ v.gate.p[c].status = "FREE"
         \/ w.gate.p[c].status # "FREE" /\ v.gate.p[c].connid = w.gate.p[c].connid

KeepsLinks(w, v) ==
    \A E, A, N \in SUBSET Sockets : Linked(w, E, A, N) => Linked(v, E, A, N)

Good(w, v) == Base(v) /\ Moved(w, v) /\ v.gate.abort = w.gate.abort /\ KeepsLinks(w, v)

LEMMA SlotsType ==
    ASSUME NEW w, Base(w), NEW i \in Sockets
    PROVE  /\ w.gate.fi.slots[i] \in Clients \cup {-1}
           /\ freeid_find(w.gate.fi, i) = w.gate.fi.slots[i]
           /\ w.gate.fi.slots \in [Sockets -> Clients \cup {-1}]
<1>1. w.gate.fi \in FreeidType
  BY DEF Base, ClientsInv, FreeOutside
<1> QED
  BY <1>1, TableConstants DEF FreeidType, freeid_find

LEMMA GoodSame == ASSUME NEW w, Base(w) PROVE Good(w, w)
<1>1. Moved(w, w)
  BY DEF Moved
<1> QED
  BY <1>1, Zenon DEF Good, KeepsLinks

LEMMA MovedThen ==
    ASSUME NEW w, NEW v, NEW u, Base(w), Moved(w, v), Moved(v, u)
    PROVE  Moved(w, u)
<1>1. \A i \in Sockets : Open(u.net, i) => Open(w.net, i) /\ u.net.sock[i].rb = w.net.sock[i].rb
  BY Zenon DEF Moved
<1>2. w.gone \subseteq u.gone
  BY DEF Moved
<1>3. \A c \in Clients :
         \/ u.gate.p[c].status = "FREE"
         \/ w.gate.p[c].status # "FREE" /\ u.gate.p[c].connid = w.gate.p[c].connid
  BY Zenon DEF Moved
<1>4. ASSUME NEW i \in Sockets
      PROVE  \/ u.gate.fi.slots[i] = w.gate.fi.slots[i]
             \/ /\ u.gate.fi.slots[i] = -1 /\ u.gate.p[w.gate.fi.slots[i]].status = "FREE"
                /\ i \in u.gone /\ ~ Open(u.net, i)
  <2>1. CASE w.gate.fi.slots[i] = -1
    <3>1. v.gate.fi.slots[i] = -1
      BY <2>1 DEF Moved
    <3>2. u.gate.fi.slots[i] = -1
      BY <3>1 DEF Moved
    <3> QED
      BY <2>1, <3>2
  <2>2. CASE v.gate.fi.slots[i] = w.gate.fi.slots[i]
    BY <2>2 DEF Moved
  <2>3. CASE w.gate.fi.slots[i] # -1 /\ v.gate.fi.slots[i] # w.gate.fi.slots[i]
    <3> DEFINE c == w.gate.fi.slots[i]
    <3>1. c \in Clients
      BY <2>3, SlotsType
    <3> HIDE DEF c
    <3>2. v.gate.fi.slots[i] = -1 /\ v.gate.p[c].status = "FREE" /\ i \in v.gone /\ ~ Open(v.net, i)
      BY <2>3, Zenon DEF Moved, c
    <3>3. u.gate.p[c].status = "FREE"
      BY <3>1, <3>2, Zenon DEF Moved
    <3>4. u.gate.fi.slots[i] = -1
      BY <3>2, Zenon DEF Moved
    <3>5. i \in u.gone /\ ~ Open(u.net, i)
      BY <3>2 DEF Moved
    <3> QED
      BY <3>3, <3>4, <3>5 DEF c
  <2> QED
    BY <2>1, <2>2, <2>3
<1> QED
  BY <1>1, <1>2, <1>3, <1>4, Zenon DEF Moved

LEMMA GoodThen ==
    ASSUME NEW w, NEW v, NEW u, Base(w), Good(w, v), Good(v, u)
    PROVE  Good(w, u)
<1>1. Moved(w, u)
  BY MovedThen DEF Good
<1>2. KeepsLinks(w, u)
  BY Zenon DEF Good, KeepsLinks
<1> QED
  BY <1>1, <1>2, Zenon DEF Good

-----------------------------------------------------------------------------
\* The changes a handler's calls are made of.  First, of a client's socket what
\* only the peer can tell changes.
LEMMA OnlyNet ==
    ASSUME NEW w, w \in States, NEW t \in NetType, NEW v, v = [w EXCEPT !.net = t]
    PROVE  v \in States /\ v.net = t /\ v.gate = w.gate /\ v.gone = w.gone
BY DEF States

LEMMA ServedFrom ==
    ASSUME NEW t, NEW u, NEW slots, NEW i \in Sockets, ServedInv(t, slots), Others(t, u, i),
           slots[i] # -1 \/ ~ OfGate(u.sock[i]) \/ Same(u.sock[i], t.sock[i])
    PROVE  ServedInv(u, slots)
<1>1. \A j \in Sockets : j # i /\ OfGate(u.sock[j]) /\ u.sock[j].mask # {} => slots[j] # -1
  BY DEF Others, Same, ServedInv, OfGate
<1>2. Same(u.sock[i], t.sock[i]) /\ OfGate(u.sock[i]) /\ u.sock[i].mask # {} => slots[i] # -1
  BY DEF Same, ServedInv, OfGate
<1> QED
  BY <1>1, <1>2, Zenon DEF ServedInv

LEMMA ServedAgain ==
    ASSUME NEW t, NEW u, NEW slots, NEW i \in Sockets, ServedInv(t, slots), Steady(t, u, i),
           slots[i] # -1 \/ ~ OfGate(t.sock[i]) \/ u.sock[i].mask = t.sock[i].mask
    PROVE  ServedInv(u, slots)
<1>1. \A j \in Sockets : j # i /\ OfGate(u.sock[j]) /\ u.sock[j].mask # {} => slots[j] # -1
  BY DEF Steady, Others, Same, ServedInv, OfGate
<1>2. OfGate(u.sock[i]) /\ u.sock[i].mask # {} => slots[i] # -1
  BY DEF Steady, ServedInv, OfGate
<1> QED
  BY <1>1, <1>2, Zenon DEF ServedInv

LEMMA SteadyNet ==
    ASSUME NEW w, Base(w), NEW i \in Sockets, NEW t, Steady(w.net, t, i),
           w.gate.fi.slots[i] # -1 \/ ~ OfGate(w.net.sock[i]) \/ t.sock[i].mask = w.net.sock[i].mask,
           NEW v, v = [w EXCEPT !.net = t]
    PROVE  /\ v.net = t /\ v.gate = w.gate /\ v.gone = w.gone
           /\ Base(v) /\ KeepsLinks(w, v)
           /\ \A j \in Sockets : Open(t, j) <=> Open(w.net, j)
<1>1. t \in NetType /\ SocksInv(t)
  BY DEF Steady, SocksInv, TableInv
<1>2. v \in States /\ v.net = t /\ v.gate = w.gate /\ v.gone = w.gone
  BY <1>1, OnlyNet DEF Base
<1>3. \A j \in Sockets : t.sock[j].status = w.net.sock[j].status /\ t.sock[j].ud = w.net.sock[j].ud
  BY Zenon DEF Steady, Others, Same
<1>4. ServedInv(t, w.gate.fi.slots)
  BY ServedAgain, Zenon DEF Base
<1>5. Base(v)
  BY <1>1, <1>2, <1>4, Zenon DEF Base
<1>6. \A j \in Sockets : Open(t, j) <=> Open(w.net, j)
  BY <1>3, Zenon DEF Open
<1>7. ASSUME NEW E \in SUBSET Sockets, NEW A \in SUBSET Sockets, NEW N \in SUBSET Sockets,
             Linked(w, E, A, N)
      PROVE  Linked(v, E, A, N)
  <2>1. \A j \in Sockets : OfGate(t.sock[j]) <=> OfGate(w.net.sock[j])
    BY <1>3, Zenon DEF OfGate
  <2>2. \A c \in Clients : w.gate.p[c].connid \in Sockets
    BY DEF Base, ClientsInv, GateType, ClientType
  <2>3. ASSUME NEW c \in Clients PROVE ClientLinked(v, E, c)
    <3>1. ClientLinked(w, E, c)
      BY <1>7, Zenon DEF Linked
    <3> QED
      BY <1>2, <1>3, <2>1, <2>2, <3>1, Zenon DEF ClientLinked
  <2>4. \A j \in Sockets : SocketLinked(v, A, j)
    BY <1>2, <1>7, <2>1, Zenon DEF Linked, SocketLinked
  <2>5. ASSUME NEW j \in A PROVE AcceptLinked(v, j)
    BY <1>2, <1>3, <1>7, Zenon DEF Linked, AcceptLinked
  <2>6. \A j \in N : ~ OfGate(v.net.sock[j])
    BY <1>2, <1>7, <2>1 DEF Linked
  <2> QED
    BY <2>3, <2>4, <2>5, <2>6, Zenon DEF Linked
<1>8. KeepsLinks(w, v)
  BY <1>7, Zenon DEF KeepsLinks
<1> QED
  BY <1>2, <1>5, <1>6, <1>8, Zenon

LEMMA GoodNet ==
    ASSUME NEW w, Base(w), NEW i \in Sockets, NEW t, Kept(w.net, t, i),
           w.gate.fi.slots[i] # -1 \/ ~ OfGate(w.net.sock[i]) \/ t.sock[i].mask = w.net.sock[i].mask,
           NEW v, v = [w EXCEPT !.net = t]
    PROVE  Good(w, v)
<1>1. Steady(w.net, t, i) /\ t.sock[i].rb = w.net.sock[i].rb
  BY DEF Kept
<1>2. /\ v.net = t /\ v.gate = w.gate /\ v.gone = w.gone
      /\ Base(v) /\ KeepsLinks(w, v)
      /\ \A j \in Sockets : Open(t, j) <=> Open(w.net, j)
  BY <1>1, SteadyNet
<1>3. \A j \in Sockets : t.sock[j].rb = w.net.sock[j].rb
  BY <1>1, Zenon DEF Steady, Others, Same
<1>4. \A c \in Clients :
         \/ v.gate.p[c].status = "FREE"
         \/ w.gate.p[c].status # "FREE" /\ v.gate.p[c].connid = w.gate.p[c].connid
  BY <1>2, Zenon
<1>5. Moved(w, v)
  BY <1>2, <1>3, <1>4 DEF Moved
<1> QED
  BY <1>2, <1>5, Zenon DEF Good

\* A client changes its state, but neither comes nor goes.
Patched(h, c, q) == [h EXCEPT !.p[c] = q]

LEMMA PatchClient ==
    ASSUME NEW h, ClientsInv(h), NEW c \in Clients, h.p[c].status # "FREE",
           NEW q \in ClientType, q.connid = h.p[c].connid, q.status # "FREE",
           NEW g, g = Patched(h, c, q)
    PROVE  /\ ClientsInv(g) /\ g \in GateType
           /\ g.fi = h.fi /\ g.abort = h.abort
           /\ g.p[c] = q /\ \A d \in Clients : d # c => g.p[d] = h.p[d]
           /\ \A d \in Clients : /\ g.p[d].connid = h.p[d].connid
                                 /\ g.p[d].status = "FREE" <=> h.p[d].status = "FREE"
<1>1. h \in GateType /\ h.p \in [Clients -> ClientType]
  BY DEF ClientsInv, GateType
<1>2. /\ g \in GateType /\ g.fi = h.fi /\ g.used = h.used /\ g.abort = h.abort
      /\ g.p = [h.p EXCEPT ![c] = q]
  BY <1>1 DEF GateType, Patched
<1>3. g.p[c] = q /\ \A d \in Clients : d # c => g.p[d] = h.p[d]
  BY <1>1, <1>2
<1>4. \A d \in Clients : /\ g.p[d].connid = h.p[d].connid
                         /\ g.p[d].status = "FREE" <=> h.p[d].status = "FREE"
  BY <1>3, Zenon
<1>5. TakenIn(g.p) = TakenIn(h.p)
  BY <1>4 DEF TakenIn
<1>6. ASSUME NEW i \in Sockets, g.fi.slots[i] # -1
      PROVE  g.p[g.fi.slots[i]].status # "FREE" /\ g.p[g.fi.slots[i]].connid = i
  <2> DEFINE d == h.fi.slots[i]
  <2>1. d \in Clients /\ g.fi.slots[i] = d
    <3>1. h.fi \in FreeidType
      BY DEF ClientsInv, FreeOutside
    <3> QED
      BY <1>2, <1>6, <3>1, TableConstants DEF FreeidType
  <2>2. h.p[d].status # "FREE" /\ h.p[d].connid = i
    BY <1>2, <1>6, Zenon DEF ClientsInv
  <2> HIDE DEF d
  <2> QED
    BY <1>4, <2>1, <2>2, Zenon
<1>7. \A d \in Clients : g.p[d].status # "FREE" => g.p[d].connid # ListenId
  BY <1>4, Zenon DEF ClientsInv
<1>8. FreeOutside(g.fi, TakenIn(g.p)) /\ g.used = Cardinality(TakenIn(g.p))
  BY <1>2, <1>5, Zenon DEF ClientsInv
<1>9. ClientsInv(g)
  BY <1>2, <1>6, <1>7, <1>8, Zenon DEF ClientsInv
<1> QED
  BY <1>2, <1>3, <1>4, <1>9

LEMMA GoodClient ==
    ASSUME NEW w, Base(w), NEW c \in Clients, w.gate.p[c].status # "FREE",
           NEW q \in ClientType, q.connid = w.gate.p[c].connid, q.status # "FREE",
           q.status = "LOGOUTED" <=> w.gate.p[c].status = "LOGOUTED",
           NEW v \in States, v.net = w.net, v.gate = Patched(w.gate, c, q), v.gone = w.gone
    PROVE  Good(w, v)
<1> DEFINE h == w.gate
           g == v.gate
<1>1. w \in States /\ ClientsInv(h)
  BY DEF Base
<1>3. h.p[c].status # "FREE" /\ q.connid = h.p[c].connid /\ q.status # "FREE"
      /\ g = Patched(h, c, q)
  BY Zenon
<1> HIDE DEF g, h
<1>4. /\ ClientsInv(g) /\ g \in GateType
      /\ g.fi = h.fi /\ g.abort = h.abort
      /\ g.p[c] = q /\ \A d \in Clients : d # c => g.p[d] = h.p[d]
      /\ \A d \in Clients : /\ g.p[d].connid = h.p[d].connid
                            /\ g.p[d].status = "FREE" <=> h.p[d].status = "FREE"
  BY <1>1, <1>3, PatchClient
<1>5. v \in States /\ v.net = w.net /\ v.gate = g /\ v.gone = w.gone
  BY DEF g
<1>6. \A d \in Clients : g.p[d].status = "LOGOUTED" <=> w.gate.p[d].status = "LOGOUTED"
  BY <1>4, Zenon DEF h
<1>7. Base(v)
  BY <1>4, <1>5, Zenon DEF Base, h
<1>8. Moved(w, v)
  BY <1>4, <1>5, Zenon DEF Moved, h
<1>9. KeepsLinks(w, v)
  <2> SUFFICES ASSUME NEW E \in SUBSET Sockets, NEW A \in SUBSET Sockets, NEW N \in SUBSET Sockets,
                      Linked(w, E, A, N)
               PROVE  Linked(v, E, A, N)
    BY Zenon DEF KeepsLinks
  <2>0. v.net = w.net /\ v.gate.fi = w.gate.fi
    BY <1>4, <1>5, Zenon DEF h
  <2>1. ASSUME NEW d \in Clients PROVE ClientLinked(v, E, d)
    <3>1. ClientLinked(w, E, d)
      BY Zenon DEF Linked
    <3>2. /\ v.gate.p[d].connid = w.gate.p[d].connid
          /\ v.gate.p[d].status = "FREE" <=> w.gate.p[d].status = "FREE"
          /\ v.gate.p[d].status = "LOGOUTED" <=> w.gate.p[d].status = "LOGOUTED"
      BY <1>4, <1>5, <1>6, Zenon DEF h
    <3> QED
      BY <2>0, <3>1, <3>2 DEF ClientLinked
  <2>2. \A i \in Sockets : SocketLinked(v, A, i)
    BY <2>0, Zenon DEF Linked, SocketLinked
  <2>3. \A i \in A : AcceptLinked(v, i)
    BY <2>0, Zenon DEF Linked, AcceptLinked
  <2>4. \A i \in N : ~ OfGate(v.net.sock[i])
    BY <2>0, Zenon DEF Linked
  <2> QED
    BY <2>1, <2>2, <2>3, <2>4, Zenon DEF Linked
<1> QED
  BY <1>4, <1>5, <1>7, <1>8, <1>9, Zenon DEF Good, h

\* An unforced close logs the client out.
LEMMA GoodHalve ==
    ASSUME NEW w, Base(w), NEW c \in Clients, w.gate.p[c].status # "FREE",
           NEW i, i = w.gate.p[c].connid, w.gate.fi.slots[i] = c,
           NEW t, Halved(w.net, t, i),
           NEW q \in ClientType, q.connid = i, q.status = "LOGOUTED",
           NEW v \in States, v.net = t, v.gate = Patched(w.gate, c, q), v.gone = w.gone
    PROVE  Good(w, v)
<1> DEFINE h == w.gate
           g == v.gate
<1>1. w \in States /\ ClientsInv(h) /\ SocksInv(t) /\ t \in NetType /\ i \in Sockets
  BY DEF Base, Halved, SocksInv, TableInv, ClientsInv, GateType, ClientType
<1>3. h.p[c].status # "FREE" /\ q.connid = h.p[c].connid /\ q.status # "FREE"
      /\ g = Patched(h, c, q)
  BY Zenon
<1> HIDE DEF g, h
<1>4. /\ ClientsInv(g) /\ g \in GateType
      /\ g.fi = h.fi /\ g.abort = h.abort
      /\ g.p[c] = q /\ \A d \in Clients : d # c => g.p[d] = h.p[d]
      /\ \A d \in Clients : /\ g.p[d].connid = h.p[d].connid
                            /\ g.p[d].status = "FREE" <=> h.p[d].status = "FREE"
  BY <1>1, <1>3, PatchClient
<1>5. v \in States /\ v.net = t /\ v.gate = g /\ v.gone = w.gone
  BY DEF g
<1>a. c # -1
  BY TableConstants
<1>b. /\ \A j \in Sockets : j # i => Same(t.sock[j], w.net.sock[j])
      /\ t.sock[i].ud = w.net.sock[i].ud /\ t.sock[i].rb = w.net.sock[i].rb
      /\ t.sock[i].status = "HALFCLOSE" /\ w.net.sock[i].status \in {"CONNECTED", "HALFCLOSE"}
  BY Zenon DEF Halved, Others
<1>6. Base(v)
  <2>1. ServedInv(t, w.gate.fi.slots)
    <3>1. ServedInv(w.net, w.gate.fi.slots) /\ Others(w.net, t, i) /\ w.gate.fi.slots[i] # -1
      BY <1>a DEF Base, Halved
    <3> QED
      BY <1>1, <3>1, ServedFrom
  <2> QED
    BY <1>1, <1>4, <1>5, <2>1, Zenon DEF Base, h
<1>7. Moved(w, v)
  <2>1. \A j \in Sockets : Open(t, j) => Open(w.net, j) /\ t.sock[j].rb = w.net.sock[j].rb
    BY <1>b DEF Open, Same
  <2> QED
    BY <1>4, <1>5, <2>1, Zenon DEF Moved, h
<1>8. KeepsLinks(w, v)
  <2> SUFFICES ASSUME NEW E \in SUBSET Sockets, NEW A \in SUBSET Sockets, NEW N \in SUBSET Sockets,
                      Linked(w, E, A, N)
               PROVE  Linked(v, E, A, N)
    BY Zenon DEF KeepsLinks
  <2>0. v.net = t /\ v.gate.fi = w.gate.fi
    BY <1>4, <1>5, Zenon DEF h
  <2>a. \A j \in Sockets : OfGate(t.sock[j]) <=> OfGate(w.net.sock[j])
    BY <1>b DEF OfGate, Same
  <2>1. ASSUME NEW d \in Clients PROVE ClientLinked(v, E, d)
    <3>1. ClientLinked(w, E, d)
      BY Zenon DEF Linked
    <3>2. CASE d = c
      <4>1. v.gate.p[c] = q
        BY <1>4, <1>5, Zenon
      <4>2. i \in E \/ OfGate(t.sock[i])
        BY <1>1, <2>a, <3>1, <3>2 DEF ClientLinked
      <4> QED
        BY <1>b, <2>0, <3>2, <4>1, <4>2 DEF ClientLinked
    <3>3. CASE d # c
      <4>1. v.gate.p[d] = w.gate.p[d] /\ w.gate.p[d].connid \in Sockets
        BY <1>4, <1>5, <3>3 DEF h, Base, ClientsInv, GateType, ClientType
      <4>2. CASE w.gate.p[d].status # "FREE"
        <5>1. w.gate.p[d].connid # i
          BY <3>1, <3>3, <4>2 DEF ClientLinked
        <5>2. Same(t.sock[w.gate.p[d].connid], w.net.sock[w.gate.p[d].connid])
          BY <1>b, <4>1, <5>1, Zenon
        <5> QED
          BY <2>0, <2>a, <3>1, <4>1, <5>2, Zenon DEF ClientLinked, Same
      <4> QED
        BY <4>1, <4>2 DEF ClientLinked
    <3> QED
      BY <3>2, <3>3
  <2>2. \A j \in Sockets : SocketLinked(v, A, j)
    BY <2>0, <2>a, Zenon DEF Linked, SocketLinked
  <2>3. ASSUME NEW j \in A PROVE AcceptLinked(v, j)
    <3>1. AcceptLinked(w, j)
      BY Zenon DEF Linked
    <3>2. j # i
      BY <1>a, <3>1 DEF AcceptLinked
    <3> QED
      BY <1>b, <2>0, <3>1, <3>2 DEF AcceptLinked, Same
  <2>4. \A j \in N : ~ OfGate(v.net.sock[j])
    BY <2>0, <2>a DEF Linked
  <2> QED
    BY <2>1, <2>2, <2>3, <2>4, Zenon DEF Linked
<1> QED
  BY <1>4, <1>5, <1>6, <1>7, <1>8, Zenon DEF Good, h

\* The id of a client goes back and the client is free.
Emptied(h, c, i) ==
    [h EXCEPT !.fi = freeid_free(h.fi, i), !.p[c] = FreeClient, !.used = h.used - 1]

LEMMA AgesBegin == MaxAge \in Nat \ {0} /\ FreeClient \in ClientType
<1> DEFINE S == {LoginTimeout, LiveTime, LogoutTimeout}
           longest == CHOOSE t \in S : \A u \in S : u <= t
<1>1. \E t \in S : \A u \in S : u <= t
  BY GateAssumption
<1>2. longest \in S
  <2> HIDE DEF S
  <2> QED
    BY <1>1, Zenon
<1>3. longest \in Nat
  BY <1>2, GateAssumption
<1>4. MaxAge = 1 + longest
  BY Zenon DEF MaxAge
<1> HIDE DEF longest
<1>5. MaxAge \in Nat \ {0}
  BY <1>3, <1>4
<1>6. 0 \in Sockets /\ 0 \in Ages /\ "FREE" \in ClientStatus
  BY <1>5, NetAssumption DEF Sockets, Ages, ClientStatus
<1> QED
  BY <1>5, <1>6 DEF FreeClient, ClientType

LEMMA EmptyClient ==
    ASSUME LowHeap, NEW h, ClientsInv(h), NEW i \in Sockets, NEW c, c = h.fi.slots[i], c # -1,
           NEW g, g = Emptied(h, c, i)
    PROVE  /\ ClientsInv(g) /\ g \in GateType /\ g.abort = h.abort
           /\ c \in Clients /\ h.p[c].status # "FREE" /\ h.p[c].connid = i
           /\ g.fi.slots[i] = -1 /\ \A j \in Sockets : j # i => g.fi.slots[j] = h.fi.slots[j]
           /\ g.p[c].status = "FREE" /\ \A d \in Clients : d # c => g.p[d] = h.p[d]
<1> DEFINE T == TakenIn(h.p)
<1>1. /\ h \in GateType /\ h.p \in [Clients -> ClientType] /\ h.fi.slots \in [Sockets -> Clients \cup {-1}]
      /\ FreeOutside(h.fi, T) /\ h.used = Cardinality(T)
  <2>1. h.fi \in FreeidType
    BY DEF ClientsInv, FreeOutside
  <2> QED
    BY <2>1, TableConstants DEF ClientsInv, GateType, FreeidType
<1>2. c \in Clients /\ h.p[c].status # "FREE" /\ h.p[c].connid = i /\ c \in T
  <2>1. c \in Clients
    BY <1>1
  <2>2. h.p[c].status # "FREE" /\ h.p[c].connid = i
    BY Zenon DEF ClientsInv
  <2> QED
    BY <2>1, <2>2 DEF TakenIn
<1> DEFINE f == freeid_free(h.fi, i)
<1>3. f.slots = [h.fi.slots EXCEPT ![i] = -1] /\ FreeOutside(f, T \ {c})
  <2>1. i \in Hashes /\ h.fi.slots[i] # -1 /\ h.fi.slots[i] \in T
    BY <1>2, TableConstants
  <2> HIDE DEF T
  <2> QED
    BY <1>1, <2>1, FreeGives
<1>4. f \in FreeidType
  BY <1>3 DEF FreeOutside
<1>5. FreeClient \in ClientType /\ FreeClient.status = "FREE"
  BY AgesBegin DEF FreeClient
<1> HIDE DEF f
<1>6. g \in GateType /\ g.fi = f /\ g.abort = h.abort /\ g.used = h.used - 1
      /\ g.p = [h.p EXCEPT ![c] = FreeClient]
  <2> DEFINE p == [h.p EXCEPT ![c] = FreeClient]
             used == h.used - 1
  <2>1. g = [h EXCEPT !.fi = f, !.p = p, !.used = used]
    BY DEF Emptied, f
  <2>2. p \in [Clients -> ClientType] /\ used \in Int
    BY <1>1, <1>5 DEF GateType
  <2> HIDE DEF p, used
  <2>3. g \in GateType /\ g.fi = f /\ g.abort = h.abort /\ g.used = used /\ g.p = p
    BY <1>1, <1>4, <2>1, <2>2 DEF GateType
  <2> QED
    BY <2>3 DEF p, used
<1>7. g.p[c].status = "FREE" /\ \A d \in Clients : d # c => g.p[d] = h.p[d]
  BY <1>1, <1>2, <1>5, <1>6
<1>8. g.fi.slots[i] = -1 /\ \A j \in Sockets : j # i => g.fi.slots[j] = h.fi.slots[j]
  BY <1>1, <1>3, <1>6
<1>9. TakenIn(g.p) = T \ {c}
  BY <1>7 DEF TakenIn
<1>10. g.used = Cardinality(TakenIn(g.p))
  <2>1. IsFiniteSet(T)
    <3>1. T \subseteq Clients
      BY DEF TakenIn
    <3> QED
      BY <3>1, TableConstants, FS_Subset
  <2>2. Cardinality(T \ {c}) = Cardinality(T) - 1
    BY <1>2, <2>1, FS_RemoveElement
  <2> QED
    BY <1>1, <1>6, <1>9, <2>2
<1>11. ASSUME NEW j \in Sockets, g.fi.slots[j] # -1
       PROVE  g.p[g.fi.slots[j]].status # "FREE" /\ g.p[g.fi.slots[j]].connid = j
  <2> DEFINE d == h.fi.slots[j]
  <2>1. j # i /\ g.fi.slots[j] = d /\ d # -1 /\ d \in Clients
    BY <1>1, <1>8, <1>11
  <2>2. h.p[d].status # "FREE" /\ h.p[d].connid = j
    BY <2>1, Zenon DEF ClientsInv
  <2> HIDE DEF d
  <2>3. g.p[d] = h.p[d]
    BY <1>2, <1>7, <2>1, <2>2
  <2> QED
    BY <2>1, <2>2, <2>3, Zenon
<1>12. \A d \in Clients : g.p[d].status # "FREE" => g.p[d].connid # ListenId
  BY <1>7, Zenon DEF ClientsInv
<1>13. ClientsInv(g)
  BY <1>3, <1>6, <1>9, <1>10, <1>11, <1>12, Zenon DEF ClientsInv
<1> QED
  BY <1>2, <1>6, <1>7, <1>8, <1>13, Zenon

\* A forced close frees the client.
LEMMA GoodFree ==
    ASSUME LowHeap, NEW w, Base(w), NEW i \in Sockets, NEW c, c = w.gate.fi.slots[i], c # -1,
           NEW t, Closed(w.net, t, i),
           NEW v \in States, v.net = t, v.gate = Emptied(w.gate, c, i), v.gone = w.gone \cup {i}
    PROVE  Good(w, v) /\ v.gate.p[c].status = "FREE"
<1> DEFINE h == w.gate
           g == v.gate
<1>1. w \in States /\ ClientsInv(h) /\ SocksInv(t) /\ t \in NetType
  BY DEF Base, Closed, SocksInv, TableInv
<1>2. c = h.fi.slots[i] /\ g = Emptied(h, c, i)
  OBVIOUS
<1> HIDE DEF g, h
<1>3. /\ ClientsInv(g) /\ g \in GateType /\ g.abort = h.abort
      /\ c \in Clients /\ h.p[c].status # "FREE" /\ h.p[c].connid = i
      /\ g.fi.slots[i] = -1 /\ \A j \in Sockets : j # i => g.fi.slots[j] = h.fi.slots[j]
      /\ g.p[c].status = "FREE" /\ \A d \in Clients : d # c => g.p[d] = h.p[d]
  BY <1>1, <1>2, EmptyClient
<1>4. v.net = t /\ v.gate = g /\ v.gone = w.gone \cup {i}
  BY DEF g
<1>5. /\ \A j \in Sockets : j # i => Same(t.sock[j], w.net.sock[j])
      /\ t.sock[i].status = "INVALID"
  BY Zenon DEF Closed, Others
<1>6. Base(v)
  <2>1. ServedInv(t, g.fi.slots)
    <3>1. ServedInv(w.net, h.fi.slots)
      BY DEF Base, h
    <3>2. \A j \in Sockets : OfGate(t.sock[j]) => j # i /\ OfGate(w.net.sock[j])
      BY <1>5 DEF OfGate, Same
    <3> QED
      <4> SUFFICES ASSUME NEW j \in Sockets, OfGate(t.sock[j]), t.sock[j].mask # {}
                   PROVE  g.fi.slots[j] # -1
        BY Zenon DEF ServedInv
      <4>1. j # i /\ OfGate(w.net.sock[j])
        BY <3>2, Zenon
      <4>2. w.net.sock[j].mask # {}
        BY <1>5, <4>1, Zenon DEF Same
      <4>3. h.fi.slots[j] # -1
        BY ONLY <3>1, <4>1, <4>2, j \in Sockets, Zenon DEF ServedInv
      <4> QED
        BY <1>3, <4>1, <4>3, Zenon
  <2> QED
    BY <1>1, <1>3, <1>4, <2>1, Zenon DEF Base
<1>7. Moved(w, v)
  <2>1. \A j \in Sockets : Open(t, j) => j # i /\ Open(w.net, j) /\ t.sock[j].rb = w.net.sock[j].rb
    BY <1>5 DEF Open, Same
  <2>2. ~ Open(v.net, i) /\ i \in v.gone /\ v.gate.fi.slots[i] = -1 /\ v.gate.p[w.gate.fi.slots[i]].status = "FREE"
    BY <1>3, <1>4, <2>1
  <2>3. \A j \in Sockets : j # i => v.gate.fi.slots[j] = w.gate.fi.slots[j]
    BY <1>3, <1>4 DEF h
  <2>4. \A d \in Clients : d # c => v.gate.p[d] = w.gate.p[d]
    BY <1>3, <1>4, Zenon DEF h
  <2>5. w.gone \subseteq v.gone /\ v.gate.p[c].status = "FREE"
    BY <1>3, <1>4
  <2>6. \A j \in Sockets : Open(v.net, j) => Open(w.net, j) /\ v.net.sock[j].rb = w.net.sock[j].rb
    BY <1>4, <2>1, Zenon
  <2>7. \A j \in Sockets :
         \/ v.gate.fi.slots[j] = w.gate.fi.slots[j]
         \/ /\ v.gate.fi.slots[j] = -1 /\ v.gate.p[w.gate.fi.slots[j]].status = "FREE"
            /\ j \in v.gone /\ ~ Open(v.net, j)
    BY <2>2, <2>3, Zenon
  <2>8. \A d \in Clients :
         \/ v.gate.p[d].status = "FREE"
         \/ w.gate.p[d].status # "FREE" /\ v.gate.p[d].connid = w.gate.p[d].connid
    BY <2>4, <2>5, Zenon
  <2> QED
    BY <2>5, <2>6, <2>7, <2>8, Zenon DEF Moved
<1>8. KeepsLinks(w, v)
  <2> SUFFICES ASSUME NEW E \in SUBSET Sockets, NEW A \in SUBSET Sockets, NEW N \in SUBSET Sockets,
                      Linked(w, E, A, N)
               PROVE  Linked(v, E, A, N)
    BY Zenon DEF KeepsLinks
  <2>a. \A j \in Sockets : j # i => (OfGate(t.sock[j]) <=> OfGate(w.net.sock[j]))
    BY <1>5 DEF OfGate, Same
  <2>b. ~ OfGate(t.sock[i])
    BY <1>5 DEF OfGate
  <2>1. ASSUME NEW d \in Clients PROVE ClientLinked(v, E, d)
    <3>1. ClientLinked(w, E, d)
      BY Zenon DEF Linked
    <3>2. CASE d = c
      BY <1>3, <1>4, <3>2, Zenon DEF ClientLinked
    <3>3. CASE d # c
      <4>1. v.gate.p[d] = w.gate.p[d] /\ w.gate.p[d].connid \in Sockets
        BY <1>3, <1>4, <3>3 DEF h, Base, ClientsInv, GateType, ClientType
      <4>2. CASE w.gate.p[d].status # "FREE"
        <5> DEFINE k == w.gate.p[d].connid
        <5>1. k # i
          BY <3>1, <3>3, <4>2 DEF ClientLinked
        <5>2. Same(t.sock[k], w.net.sock[k]) /\ v.gate.fi.slots[k] = w.gate.fi.slots[k]
              /\ (OfGate(t.sock[k]) <=> OfGate(w.net.sock[k]))
          <6>1. k \in Sockets
            BY <4>1
          <6> HIDE DEF k
          <6> QED
            BY <1>3, <1>4, <1>5, <2>a, <5>1, <6>1, Zenon DEF h
        <5> QED
          BY <1>4, <3>1, <4>1, <5>2, Zenon DEF ClientLinked, Same
      <4> QED
        BY <4>1, <4>2 DEF ClientLinked
    <3> QED
      BY <3>2, <3>3
  <2>2. ASSUME NEW j \in Sockets PROVE SocketLinked(v, A, j)
    <3>1. SocketLinked(w, A, j)
      BY Zenon DEF Linked
    <3> QED
      BY <1>3, <1>4, <2>a, <2>b, <3>1, Zenon DEF SocketLinked, h
  <2>3. ASSUME NEW j \in A PROVE AcceptLinked(v, j)
    <3>1. AcceptLinked(w, j)
      BY Zenon DEF Linked
    <3>2. j # i
      BY <3>1 DEF AcceptLinked
    <3>3. Same(t.sock[j], w.net.sock[j]) /\ v.gate.fi.slots[j] = w.gate.fi.slots[j]
      BY <1>3, <1>4, <1>5, <3>2 DEF h
    <3> QED
      BY <1>4, <3>1, <3>3 DEF AcceptLinked, Same
  <2>4. ASSUME NEW j \in N PROVE ~ OfGate(v.net.sock[j])
    <3>1. ~ OfGate(w.net.sock[j])
      BY Zenon DEF Linked
    <3> QED
      BY <1>4, <2>a, <2>b, <3>1, Zenon
  <2> QED
    BY <2>1, <2>2, <2>3, <2>4, Zenon DEF Linked
<1> QED
  BY <1>3, <1>4, <1>6, <1>7, <1>8, Zenon DEF Good, h

\* A socket is closed and the gate is not told yet: E gets the message that does.
LEMMA CloseOnly ==
    ASSUME NEW w, Base(w), NEW i \in Sockets, NEW t, Closed(w.net, t, i),
           NEW v, v = [w EXCEPT !.net = t]
    PROVE  /\ v.net = t /\ v.gate = w.gate /\ v.gone = w.gone
           /\ Base(v) /\ Moved(w, v)
           /\ \A E, A, N \in SUBSET Sockets : Linked(w, E, A, N) =>
                /\ Linked(v, E \cup {i}, A \ {i}, N)
                /\ ~ OfGate(w.net.sock[i]) => Linked(v, E, A, N)
<1>1. t \in NetType /\ SocksInv(t)
  BY DEF Closed, SocksInv, TableInv
<1>2. v \in States /\ v.net = t /\ v.gate = w.gate /\ v.gone = w.gone
  BY <1>1, OnlyNet DEF Base
<1>3. /\ \A j \in Sockets : j # i => Same(t.sock[j], w.net.sock[j])
      /\ t.sock[i].status = "INVALID"
  BY Zenon DEF Closed, Others
<1>4. Base(v)
  <2>1. ServedInv(w.net, w.gate.fi.slots) /\ Others(w.net, t, i) /\ ~ OfGate(t.sock[i])
    BY <1>3 DEF Base, Closed, OfGate
  <2>2. ServedInv(t, w.gate.fi.slots)
    BY <2>1, ServedFrom
  <2> QED
    BY <1>1, <1>2, <2>2, Zenon DEF Base
<1>5. Moved(w, v)
  <2>1. \A j \in Sockets : Open(t, j) => Open(w.net, j) /\ t.sock[j].rb = w.net.sock[j].rb
    BY <1>3 DEF Open, Same
  <2>2. \A d \in Clients :
         \/ v.gate.p[d].status = "FREE"
         \/ w.gate.p[d].status # "FREE" /\ v.gate.p[d].connid = w.gate.p[d].connid
    BY <1>2, Zenon
  <2> QED
    BY <1>2, <2>1, <2>2 DEF Moved
<1>6. ASSUME NEW E \in SUBSET Sockets, NEW A \in SUBSET Sockets, NEW N \in SUBSET Sockets,
             Linked(w, E, A, N), NEW D, E \subseteq D, OfGate(w.net.sock[i]) => i \in D
      PROVE  Linked(v, D, A \ {i}, N)
  <2>a. \A j \in Sockets : j # i => (OfGate(t.sock[j]) <=> OfGate(w.net.sock[j]))
    BY <1>3 DEF OfGate, Same
  <2>b. ~ OfGate(t.sock[i])
    BY <1>3 DEF OfGate
  <2>1. ASSUME NEW d \in Clients PROVE ClientLinked(v, D, d)
    <3>1. ClientLinked(w, E, d)
      BY <1>6, Zenon DEF Linked
    <3> DEFINE k == w.gate.p[d].connid
    <3>2. k \in Sockets
      BY DEF Base, ClientsInv, GateType, ClientType
    <3>3. k = i \/ (Same(t.sock[k], w.net.sock[k]) /\ (OfGate(t.sock[k]) <=> OfGate(w.net.sock[k])))
      <4> HIDE DEF k
      <4> QED
        BY <1>3, <2>a, <3>2, Zenon
    <3> QED
      BY <1>2, <1>6, <3>1, <3>3 DEF ClientLinked, Same
  <2>2. ASSUME NEW j \in Sockets PROVE SocketLinked(v, A \ {i}, j)
    <3>1. SocketLinked(w, A, j)
      BY <1>6, Zenon DEF Linked
    <3> QED
      BY <1>2, <2>a, <2>b, <3>1 DEF SocketLinked
  <2>3. ASSUME NEW j \in A \ {i} PROVE AcceptLinked(v, j)
    <3>1. AcceptLinked(w, j)
      BY <1>6, Zenon DEF Linked
    <3>2. j # i
      OBVIOUS
    <3>3. Same(t.sock[j], w.net.sock[j])
      BY <1>3, <3>2
    <3> QED
      BY <1>2, <3>1, <3>3 DEF AcceptLinked, Same
  <2>4. ASSUME NEW j \in N PROVE ~ OfGate(v.net.sock[j])
    <3>1. ~ OfGate(w.net.sock[j])
      BY <1>6, Zenon DEF Linked
    <3> QED
      BY <1>2, <2>a, <2>b, <3>1, Zenon
  <2> QED
    BY <2>1, <2>2, <2>3, <2>4, Zenon DEF Linked
<1>7. ASSUME NEW E \in SUBSET Sockets, NEW A \in SUBSET Sockets, NEW N \in SUBSET Sockets,
             Linked(w, E, A, N)
      PROVE  /\ Linked(v, E \cup {i}, A \ {i}, N)
             /\ ~ OfGate(w.net.sock[i]) => Linked(v, E, A, N)
  <2>1. E \subseteq E \cup {i} /\ i \in E \cup {i} /\ E \subseteq E
    OBVIOUS
  <2>2. ~ OfGate(w.net.sock[i]) => A \ {i} = A
    BY <1>7 DEF Linked, AcceptLinked, OfGate
  <2>3. Linked(v, E \cup {i}, A \ {i}, N)
    BY <1>6, <1>7, <2>1
  <2>4. ~ OfGate(w.net.sock[i]) => Linked(v, E, A \ {i}, N)
    BY <1>6, <1>7, <2>1
  <2> QED
    BY <2>2, <2>3, <2>4, Zenon
<1> QED
  BY <1>2, <1>4, <1>5, <1>7

-----------------------------------------------------------------------------
\* The handlers' calls.

\* The id table knows the client by its connection.
Sound(w, c) == w.gate.p[c].status # "FREE" => w.gate.fi.slots[w.gate.p[c].connid] = c

LEMMA SoundMoved ==
    ASSUME NEW w, NEW v, Base(w), Moved(w, v), NEW c \in Clients, Sound(w, c)
    PROVE  Sound(v, c)
<1> SUFFICES ASSUME v.gate.p[c].status # "FREE"
             PROVE  v.gate.fi.slots[v.gate.p[c].connid] = c
  BY DEF Sound
<1>1. w.gate.p[c].status # "FREE" /\ v.gate.p[c].connid = w.gate.p[c].connid
  BY Zenon DEF Moved
<1>2. w.gate.p[c].connid \in Sockets
  BY DEF Base, ClientsInv, GateType, ClientType
<1>3. w.gate.fi.slots[w.gate.p[c].connid] = c
  BY <1>1 DEF Sound
<1> QED
  BY <1>1, <1>2, <1>3, Zenon DEF Moved

\* sc_gate_disconnclient of a client the id table knows.
LEMMA Disconn ==
    ASSUME LowHeap, NEW w, Base(w), NEW c \in Clients, Sound(w, c), NEW force \in BOOLEAN
    PROVE  LET v == sc_gate_disconnclient(w, c, force)
           IN Good(w, v) /\ (force => v.gate.p[c].status = "FREE")
<1> DEFINE v == sc_gate_disconnclient(w, c, force)
           i == w.gate.p[c].connid
           t == net_close_socket(w.net, i, force)
           cut == [w EXCEPT !.net = t]
<1>1. /\ w \in States /\ w.gate \in GateType /\ w.gate.p[c] \in ClientType /\ i \in Sockets
      /\ SocksInv(w.net)
  BY DEF Base, ClientsInv, GateType, ClientType
<1>2. CASE w.gate.p[c].status = "FREE"
  BY <1>2, GoodSame DEF sc_gate_disconnclient
<1>3. CASE w.gate.p[c].status # "FREE"
  <2>1. i # ListenId /\ w.gate.fi.slots[i] = c /\ c # -1
    BY <1>3, TableConstants DEF Base, ClientsInv, Sound
  <2>2. freeid_find(w.gate.fi, i) = c
    BY <1>1, <2>1, SlotsType
  <2>3. IF ClosesNow(w.net, i, force) THEN Closed(w.net, t, i) ELSE Halved(w.net, t, i)
    BY <1>1, <2>1, NetCloseEffect
  <2>4. t \in NetType
    BY <2>3 DEF Closed, Halved, SocksInv, TableInv
  <2>5. CASE ClosesNow(w.net, i, force)
    <3>1. v = Freed(cut, c, i)
      BY <1>3, <2>2, <2>5 DEF sc_gate_disconnclient
    <3> DEFINE g == Emptied(w.gate, c, i)
    <3>2. g \in GateType
      <4>1. ClientsInv(w.gate) /\ c = w.gate.fi.slots[i]
        BY <2>1 DEF Base
      <4> HIDE DEF i
      <4> QED
        BY <1>1, <2>1, <4>1, EmptyClient
    <3>3. v = [net |-> t, gate |-> g, gone |-> w.gone \cup {i}]
      <4>1. cut.net = t /\ cut.gate = w.gate /\ cut.gone = w.gone
        BY <1>1 DEF States
      <4>2. v = [cut EXCEPT !.gate.fi = freeid_free(cut.gate.fi, i), !.gate.p[c] = FreeClient,
                            !.gate.used = cut.gate.used - 1, !.gone = cut.gone \cup {i}]
        BY <3>1 DEF Freed
      <4> DEFINE a == freeid_free(w.gate.fi, i)
                 n == w.gate.used - 1
                 z == w.gone \cup {i}
      <4>3. v = [cut EXCEPT !.gate.fi = a, !.gate.p[c] = FreeClient, !.gate.used = n, !.gone = z]
        <5> HIDE DEF cut, v
        <5> QED
          BY ONLY <4>1, <4>2, Zenon
      <4>4. g = [w.gate EXCEPT !.fi = a, !.p[c] = FreeClient, !.used = n]
        BY Zenon DEF Emptied
      <4>5. cut \in States
        BY <1>1, <2>4 DEF States
      <4> HIDE DEF cut, t, v, g, a, n, z
      <4>6. cut = [net |-> t, gate |-> w.gate, gone |-> w.gone]
        BY ONLY <4>1, <4>5 DEF States
      <4>7. v = [net |-> t, gate |-> g, gone |-> z]
        BY ONLY <4>3, <4>4, <4>6
      <4> QED
        BY ONLY <4>7, Zenon DEF z
    <3> HIDE DEF g, t, v
    <3>4. v \in States /\ v.net = t /\ v.gate = g /\ v.gone = w.gone \cup {i}
      BY <1>1, <2>4, <3>2, <3>3 DEF States
    <3>5. c = w.gate.fi.slots[i] /\ Closed(w.net, t, i)
      BY <2>1, <2>3, <2>5
    <3> HIDE DEF i
    <3> QED
      BY <1>1, <2>1, <3>4, <3>5, GoodFree DEF g, v
  <2>6. CASE ~ ClosesNow(w.net, i, force)
    <3>1. ~ force
      BY <2>6 DEF ClosesNow
    <3>2. Halved(w.net, t, i)
      BY <2>3, <2>6
    <3>3. CASE w.gate.p[c].status = "LOGOUTED"
      <4>1. v = cut
        BY <1>3, <2>6, <3>3 DEF sc_gate_disconnclient
      <4> DEFINE q == w.gate.p[c]
      <4>2. q \in ClientType /\ q.connid = i /\ q.status = "LOGOUTED"
        BY <1>1, <3>3
      <4>3. w.gate = Patched(w.gate, c, q)
        BY <1>1 DEF Patched, GateType
      <4>4. v \in States /\ v.net = t /\ v.gate = w.gate /\ v.gone = w.gone
        <5> HIDE DEF t, v, i
        <5> QED
          BY <1>1, <2>4, <4>1 DEF States
      <4> HIDE DEF q, t, v, i
      <4>5. Good(w, v)
        BY <1>3, <2>1, <3>2, <4>2, <4>3, <4>4, GoodHalve DEF i
      <4> QED
        BY <3>1, <4>5 DEF v
    <3>4. CASE w.gate.p[c].status # "LOGOUTED"
      <4> DEFINE q == [w.gate.p[c] EXCEPT !.status = "LOGOUTED", !.age = 0]
                 g == Patched(w.gate, c, q)
      <4>1. v = [cut EXCEPT !.gate.p[c] = [@ EXCEPT !.status = "LOGOUTED", !.age = 0]]
        BY <1>3, <2>6, <3>4 DEF sc_gate_disconnclient
      <4>2. q \in ClientType /\ q.connid = i /\ q.status = "LOGOUTED"
        <5>1. 0 \in Ages
          BY AgesBegin DEF Ages
        <5> QED
          BY <1>1, <5>1 DEF ClientType, ClientStatus
      <4>3. g \in GateType
        <5> HIDE DEF q
        <5> QED
          BY <1>1, <4>2 DEF Patched, GateType
      <4>4. v = [w EXCEPT !.net = t, !.gate = g]
        <5>1. cut.gate = w.gate
          BY <1>1 DEF States
        <5>2. v = [cut EXCEPT !.gate = g]
          <6> HIDE DEF cut, v
          <6> QED
            BY <4>1, <5>1 DEF Patched
        <5> HIDE DEF g, t, v, i
        <5> QED
          BY <5>2
      <4> HIDE DEF g, q, t, v, i
      <4>5. v \in States /\ v.net = t /\ v.gate = g /\ v.gone = w.gone
        BY <1>1, <2>4, <4>3, <4>4 DEF States
      <4>6. Good(w, v)
        BY <1>3, <2>1, <3>2, <4>2, <4>5, GoodHalve DEF i, g
      <4> QED
        BY <3>1, <4>6 DEF v
    <3> QED
      BY <3>3, <3>4
  <2> QED
    BY <2>5, <2>6
<1> QED
  BY <1>2, <1>3

LEMMA SlotLeft ==
    ASSUME NEW w, NEW v, Base(w), Base(v), Moved(w, v), NEW i \in Sockets,
           v.gate.p[w.gate.fi.slots[i]].status = "FREE"
    PROVE  v.gate.fi.slots[i] = -1
<1>1. v.gate.fi.slots[i] = w.gate.fi.slots[i] \/ v.gate.fi.slots[i] = -1
  BY Zenon DEF Moved
<1>2. v.gate.fi.slots[i] # -1 => v.gate.p[v.gate.fi.slots[i]].status # "FREE"
  BY Zenon DEF Base, ClientsInv
<1> QED
  BY <1>1, <1>2, Zenon

\* The client of a connection that ended: who is in the table, with its id.
LEMMA ClientOf ==
    ASSUME NEW w, Base(w), NEW i \in Sockets, w.gate.fi.slots[i] # -1
    PROVE  LET c == w.gate.fi.slots[i]
           IN /\ c \in Clients /\ w.gate.p[c].status # "FREE" /\ w.gate.p[c].connid = i
              /\ Sound(w, c) /\ i # ListenId
              /\ sc_gate_getclient(w, i) = c
<1> DEFINE c == w.gate.fi.slots[i]
<1>1. c \in Clients /\ sc_gate_getclient(w, i) = c
  BY SlotsType DEF sc_gate_getclient
<1>2. w.gate.p[c].status # "FREE" /\ w.gate.p[c].connid = i
  BY Zenon DEF Base, ClientsInv
<1>3. i # ListenId
  BY <1>1, <1>2, Zenon DEF Base, ClientsInv
<1>4. Sound(w, c)
  BY <1>2, Zenon DEF Sound
<1> QED
  BY <1>1, <1>2, <1>3, <1>4

\* A connection that has a client ends.
Ended(w, v, i) == Good(w, v) /\ v.gate.fi.slots[i] = -1

LEMMA WridonecloseEnds ==
    ASSUME LowHeap, NEW w, Base(w), NEW i \in Sockets, w.gate.fi.slots[i] # -1
    PROVE  Ended(w, OnWridoneclose(w, i), i)
<1> DEFINE c == w.gate.fi.slots[i]
           v == sc_gate_disconnclient(w, c, TRUE)
<1>1. c \in Clients /\ Sound(w, c) /\ sc_gate_getclient(w, i) = c /\ c # -1
  BY ClientOf, TableConstants
<1>2. OnWridoneclose(w, i) = v
  BY <1>1 DEF OnWridoneclose
<1>3. Good(w, v) /\ v.gate.p[c].status = "FREE"
  <2> HIDE DEF c
  <2> QED
    BY <1>1, Disconn DEF c
<1> HIDE DEF v
<1>4. v.gate.fi.slots[i] = -1
  BY <1>3, SlotLeft DEF Good
<1> QED
  BY <1>2, <1>3, <1>4 DEF Ended

LEMMA SockerrEnds ==
    ASSUME LowHeap, NEW w, Base(w), NEW i \in Sockets, w.gate.fi.slots[i] # -1
    PROVE  Ended(w, OnSockerr(w, i), i)
<1> DEFINE c == w.gate.fi.slots[i]
           told == IF w.gate.p[c].status = "LOGINED" THEN forward_net(w, c) ELSE w
           v == sc_gate_disconnclient(told, c, TRUE)
<1>1. c \in Clients /\ Sound(w, c) /\ sc_gate_getclient(w, i) = c /\ c # -1
  BY ClientOf, TableConstants
<1>2. OnSockerr(w, i) = v
  BY <1>1 DEF OnSockerr
<1>3. Good(w, told)
  <2> HIDE DEF c
  <2>1. Good(w, forward_net(w, c))
    BY <1>1, Disconn DEF forward_net
  <2> QED
    BY <2>1, GoodSame
<1> HIDE DEF told
<1>4. Base(told) /\ Sound(told, c)
  <2> HIDE DEF c
  <2>1. Base(told) /\ Moved(w, told)
    BY <1>3 DEF Good
  <2> QED
    BY <1>1, <2>1, SoundMoved
<1>5. Good(told, v) /\ v.gate.p[c].status = "FREE"
  <2> HIDE DEF c
  <2> QED
    BY <1>1, <1>4, Disconn DEF c
<1> HIDE DEF v
<1>6. Good(w, v)
  BY <1>3, <1>5, GoodThen
<1>7. v.gate.fi.slots[i] = -1
  BY <1>5, <1>6, SlotLeft DEF Good
<1> QED
  BY <1>2, <1>6, <1>7 DEF Ended

\* Once the connection's client is gone, its end need not be told.
LEMMA LinkedLess ==
    ASSUME NEW v, NEW E, NEW A, NEW N, NEW F, NEW B, NEW M, Base(v), Linked(v, E, A, N),
           \A i \in E : i \in F \/ v.gate.fi.slots[i] = -1,
           B \subseteq A,
           \A i \in A : i \in B \/ v.gate.fi.slots[i] # -1 \/ ~ OfGate(v.net.sock[i]),
           M \subseteq N
    PROVE  Linked(v, F, B, M)
<1>1. ASSUME NEW c \in Clients PROVE ClientLinked(v, F, c)
  <2>1. ClientLinked(v, E, c)
    BY Zenon DEF Linked
  <2> QED
    BY <2>1, TableConstants DEF ClientLinked
<1>2. ASSUME NEW i \in Sockets PROVE SocketLinked(v, B, i)
  <2>1. SocketLinked(v, A, i)
    BY Zenon DEF Linked
  <2> QED
    BY <2>1, Zenon DEF SocketLinked
<1>3. \A i \in B : AcceptLinked(v, i)
  BY DEF Linked
<1>4. \A i \in M : ~ OfGate(v.net.sock[i])
  BY DEF Linked
<1> QED
  BY <1>1, <1>2, <1>3, <1>4, Zenon DEF Linked

\* A socket is closed and the gate is told at once.
LEMMA CloseEnds ==
    ASSUME LowHeap, NEW w, Base(w), NEW i \in Sockets, w.gate.fi.slots[i] # -1,
           NEW t, Closed(w.net, t, i), NEW u, u = [w EXCEPT !.net = t]
    PROVE  Ended(w, OnSockerr(u, i), i)
<1> DEFINE v == OnSockerr(u, i)
<1>1. /\ u.gate = w.gate /\ Base(u) /\ Moved(w, u)
      /\ \A E, A, N \in SUBSET Sockets : Linked(w, E, A, N) => Linked(u, E \cup {i}, A \ {i}, N)
  BY CloseOnly
<1>2. Good(u, v) /\ v.gate.fi.slots[i] = -1
  BY <1>1, SockerrEnds DEF Ended
<1> HIDE DEF v
<1>3. Moved(w, v) /\ Base(v) /\ v.gate.abort = w.gate.abort
  BY <1>1, <1>2, MovedThen DEF Good
<1>4. ASSUME NEW E \in SUBSET Sockets, NEW A \in SUBSET Sockets, NEW N \in SUBSET Sockets,
             Linked(w, E, A, N)
      PROVE  Linked(v, E, A, N)
  <2>0. A \ {i} = A
    BY <1>4 DEF Linked, AcceptLinked
  <2>1. Linked(u, E \cup {i}, A, N) /\ E \cup {i} \in SUBSET Sockets
    BY <1>1, <1>4, <2>0
  <2>2. Linked(v, E \cup {i}, A, N)
    BY <1>2, <2>1, Zenon DEF Good, KeepsLinks
  <2>3. /\ \A j \in E \cup {i} : j \in E \/ v.gate.fi.slots[j] = -1
        /\ A \subseteq A /\ N \subseteq N /\ \A j \in A : j \in A
    BY <1>2
  <2> QED
    BY <1>3, <2>2, <2>3, LinkedLess
<1>5. KeepsLinks(w, v)
  BY <1>4, Zenon DEF KeepsLinks
<1> QED
  BY <1>2, <1>3, <1>5, Zenon DEF Ended, Good, v

LEMMA SendGood ==
    ASSUME LowHeap, NEW w, Base(w), NEW i \in Sockets, w.gate.fi.slots[i] # -1, NEW written \in -1 .. 1
    PROVE  Good(w, SendToClient(w, i, written))
<1> DEFINE t == net_send(w.net, i, 1, written)
           sent == [w EXCEPT !.net = t]
<1>1. SocksInv(w.net) /\ i # ListenId
  BY ClientOf DEF Base
<1>2. IF SendResult(w.net, i, 1, written) = "error" THEN Closed(w.net, t, i) ELSE Kept(w.net, t, i)
  BY <1>1, SendEffect
<1>3. SendToClient(w, i, written)
        = IF SendResult(w.net, i, 1, written) = "error" THEN OnSockerr(sent, i) ELSE sent
  BY DEF SendToClient
<1>4. CASE SendResult(w.net, i, 1, written) = "error"
  <2>1. Closed(w.net, t, i)
    BY <1>2, <1>4
  <2> HIDE DEF t
  <2>2. Good(w, OnSockerr(sent, i))
    BY <2>1, CloseEnds DEF Ended
  <2> HIDE DEF sent
  <2> QED
    BY <1>3, <1>4, <2>2
<1>5. CASE SendResult(w.net, i, 1, written) # "error"
  <2>1. Kept(w.net, t, i)
    BY <1>2, <1>5
  <2> HIDE DEF t
  <2>2. Good(w, sent)
    BY <2>1, GoodNet
  <2> HIDE DEF sent
  <2> QED
    BY <1>3, <1>5, <2>2
<1> QED
  BY <1>4, <1>5

-----------------------------------------------------------------------------
\* The handlers.
LEMMA LoginGood ==
    ASSUME NEW w, Base(w), NEW c \in Clients
    PROVE  LET v == sc_gate_loginclient(w, c)
           IN Good(w, v) /\ (w.gate.p[c].status = "CONNECTED" => v.gate.p[c].status = "LOGINED")
<1> DEFINE v == sc_gate_loginclient(w, c)
           q == [w.gate.p[c] EXCEPT !.status = "LOGINED", !.age = 0]
           g == Patched(w.gate, c, q)
<1>1. w \in States /\ w.gate \in GateType /\ w.gate.p[c] \in ClientType
  BY DEF Base, ClientsInv, GateType
<1>2. CASE w.gate.p[c].status # "CONNECTED"
  BY <1>2, GoodSame DEF sc_gate_loginclient
<1>3. CASE w.gate.p[c].status = "CONNECTED"
  <2>1. q \in ClientType /\ q.connid = w.gate.p[c].connid /\ q.status = "LOGINED"
    <3>1. 0 \in Ages
      BY AgesBegin DEF Ages
    <3> QED
      BY <1>1, <3>1 DEF ClientType, ClientStatus
  <2>2. v = [w EXCEPT !.gate = g]
    BY <1>3 DEF sc_gate_loginclient, Patched
  <2> HIDE DEF q
  <2>3. g \in GateType /\ g.p[c] = q
    BY <1>1, <2>1 DEF Patched, GateType
  <2> HIDE DEF v, g
  <2>4. v \in States /\ v.net = w.net /\ v.gate = g /\ v.gone = w.gone
    BY <1>1, <2>2, <2>3 DEF States
  <2>5. Good(w, v)
    BY <1>3, <2>1, <2>4, GoodClient DEF g
  <2> QED
    BY <2>1, <2>3, <2>4, <2>5 DEF v
<1> QED
  BY <1>2, <1>3

LEMMA UserGood ==
    ASSUME LowHeap, NEW w, Base(w), NEW c \in Clients, Sound(w, c),
           NEW um \in UserMessages, NEW written \in -1 .. 1
    PROVE  Good(w, forward_usermsg(w, c, um, written))
<1> DEFINE v == forward_usermsg(w, c, um, written)
           on == sc_gate_loginclient(w, c)
           i == w.gate.p[c].connid
           off == sc_gate_disconnclient(w, c, TRUE)
           sent == SendToClient(on, i, written)
<1>1. v = w \/ v = off \/ (w.gate.p[c].status = "CONNECTED" /\ v = sent)
  BY DEF forward_usermsg, UserMessages
<1>2. Good(w, off)
  BY Disconn
<1>3. CASE w.gate.p[c].status = "CONNECTED" /\ v = sent
  <2>1. Good(w, on) /\ on.gate.p[c].status = "LOGINED"
    BY <1>3, LoginGood
  <2> HIDE DEF on
  <2>2. Base(on) /\ Moved(w, on)
    BY <2>1 DEF Good
  <2>3. Sound(on, c)
    BY <2>2, SoundMoved
  <2>4. on.gate.p[c].connid = i /\ i \in Sockets
    BY <2>1, <2>2 DEF Moved, Base, ClientsInv, GateType, ClientType
  <2>5. on.gate.fi.slots[i] # -1
    BY <2>1, <2>3, <2>4, TableConstants DEF Sound
  <2> HIDE DEF i
  <2>6. Good(on, sent)
    BY <2>2, <2>4, <2>5, SendGood
  <2> HIDE DEF sent
  <2>7. Good(w, sent)
    BY <2>1, <2>6, GoodThen
  <2> QED
    BY <1>3, <2>7
<1> QED
  BY <1>1, <1>2, <1>3, GoodSame

LEMMA MessageGood ==
    ASSUME LowHeap, NEW w, Base(w), NEW c \in Clients, Sound(w, c),
           NEW um \in UserMessages, NEW written \in -1 .. 1
    PROVE  Good(w, handlemsg(w, c, um, written))
<1> DEFINE u == IF w.gate.p[c].status = "LOGINED" THEN [w EXCEPT !.gate.p[c].age = 0] ELSE w
<1>1. handlemsg(w, c, um, written) = forward_usermsg(u, c, um, written)
  BY DEF handlemsg
<1>2. Good(w, u)
  <2> DEFINE q == [w.gate.p[c] EXCEPT !.age = 0]
             g == Patched(w.gate, c, q)
  <2>1. w \in States /\ w.gate \in GateType /\ w.gate.p[c] \in ClientType
    BY DEF Base, ClientsInv, GateType
  <2>2. CASE w.gate.p[c].status # "LOGINED"
    BY <2>2, GoodSame
  <2>3. CASE w.gate.p[c].status = "LOGINED"
    <3>1. q \in ClientType /\ q.connid = w.gate.p[c].connid /\ q.status = "LOGINED"
      <4>1. 0 \in Ages
        BY AgesBegin DEF Ages
      <4> QED
        BY <2>1, <2>3, <4>1 DEF ClientType, ClientStatus
    <3>2. u = [w EXCEPT !.gate = g]
      BY <2>3 DEF Patched
    <3> HIDE DEF q
    <3>3. g \in GateType
      BY <2>1, <3>1 DEF Patched, GateType
    <3> HIDE DEF u, g
    <3>4. u \in States /\ u.net = w.net /\ u.gate = g /\ u.gone = w.gone
      BY <2>1, <3>2, <3>3 DEF States
    <3> QED
      BY <2>3, <3>1, <3>4, GoodClient DEF g
  <2> QED
    BY <2>2, <2>3
<1> HIDE DEF u
<1>3. Base(u) /\ Moved(w, u)
  BY <1>2 DEF Good
<1>4. Good(u, forward_usermsg(u, c, um, written))
  BY <1>3, SoundMoved, UserGood
<1> QED
  BY <1>1, <1>2, <1>4, GoodThen

LEMMA NodeGood ==
    ASSUME LowHeap, NEW w, Base(w), NEW i \in Sockets, NEW logout \in BOOLEAN, NEW written \in -1 .. 1
    PROVE  Good(w, forward_nodemsg(w, i, logout, written))
<1> DEFINE v == forward_nodemsg(w, i, logout, written)
           c == w.gate.fi.slots[i]
           sent == SendToClient(w, i, written)
           off == sc_gate_disconnclient(sent, c, FALSE)
<1>1. CASE c = -1
  <2>1. sc_gate_getclient(w, i) = -1
    BY <1>1, SlotsType DEF sc_gate_getclient
  <2> QED
    BY <2>1, GoodSame DEF forward_nodemsg
<1>2. CASE c # -1
  <2>1. /\ c \in Clients /\ Sound(w, c) /\ sc_gate_getclient(w, i) = c /\ w.gate.p[c].connid = i
    BY <1>2, ClientOf
  <2>2. v = off \/ v = sent
    BY <1>2, <2>1 DEF forward_nodemsg
  <2>3. Good(w, sent)
    BY <1>2, SendGood
  <2> HIDE DEF sent, c
  <2>4. Base(sent) /\ Moved(w, sent)
    BY <2>3 DEF Good
  <2>5. Good(sent, off)
    BY <2>1, <2>4, SoundMoved, Disconn
  <2> HIDE DEF off, v
  <2>6. Good(w, off)
    BY <2>3, <2>5, GoodThen
  <2> QED
    BY <2>2, <2>3, <2>6 DEF v
<1> QED
  BY <1>1, <1>2

\* A connection gets a client.
Joined(h, c, i) ==
    [h EXCEPT !.fi = freeid_alloc(h.fi, i),
              !.p[c] = [connid |-> i, status |-> "CONNECTED", age |-> 0],
              !.used = h.used + 1]

LEMMA JoinClient ==
    ASSUME LowHeap, NEW h, ClientsInv(h), NEW i \in Sockets, i # ListenId,
           NEW c, c = AllocId(h.fi, i), c # -1, NEW g, g = Joined(h, c, i)
    PROVE  /\ ClientsInv(g) /\ g \in GateType /\ g.abort = h.abort /\ g.used = h.used + 1
           /\ c \in Clients /\ h.p[c].status = "FREE"
           /\ g.fi.slots[i] = c /\ \A j \in Sockets : j # i => g.fi.slots[j] = h.fi.slots[j]
           /\ g.p[c].status = "CONNECTED" /\ g.p[c].connid = i
           /\ \A d \in Clients : d # c => g.p[d] = h.p[d]
<1> DEFINE T == TakenIn(h.p)
           f == freeid_alloc(h.fi, i)
           q == [connid |-> i, status |-> "CONNECTED", age |-> 0]
<1>1. /\ h \in GateType /\ h.p \in [Clients -> ClientType] /\ h.fi.slots \in [Sockets -> Clients \cup {-1}]
      /\ FreeOutside(h.fi, T) /\ h.used = Cardinality(T)
  <2>1. h.fi \in FreeidType
    BY DEF ClientsInv, FreeOutside
  <2> QED
    BY <2>1, TableConstants DEF ClientsInv, GateType, FreeidType
<1>2. /\ c \in Clients /\ c \notin T /\ f.slots = [h.fi.slots EXCEPT ![i] = c]
      /\ FreeOutside(f, T \cup {c})
  <2>1. i \in Hashes /\ AllocId(h.fi, i) # -1
    BY TableConstants
  <2> HIDE DEF T, f
  <2>2. /\ h.fi.free \in Ids /\ h.fi.free \notin T /\ AllocId(h.fi, i) = h.fi.free
        /\ freeid_alloc(h.fi, i).slots = [h.fi.slots EXCEPT ![i] = h.fi.free]
        /\ FreeOutside(freeid_alloc(h.fi, i), T \cup {h.fi.free})
    BY <1>1, <2>1, AllocTakes
  <2>3. c = h.fi.free
    BY <2>2
  <2> QED
    BY <2>2, <2>3, TableConstants DEF f
<1>3. h.p[c].status = "FREE"
  BY <1>2 DEF TakenIn
<1>4. f \in FreeidType
  BY <1>2 DEF FreeOutside
<1>5. q \in ClientType /\ q.status = "CONNECTED" /\ q.connid = i
  <2>1. 0 \in Ages
    BY AgesBegin DEF Ages
  <2> QED
    BY <2>1 DEF ClientType, ClientStatus
<1>6. g \in GateType /\ g.fi = f /\ g.abort = h.abort /\ g.used = h.used + 1
      /\ g.p = [h.p EXCEPT ![c] = q]
  <2> DEFINE p == [h.p EXCEPT ![c] = q]
             used == h.used + 1
  <2>1. g = [h EXCEPT !.fi = f, !.p = p, !.used = used]
    BY DEF Joined, f
  <2> HIDE DEF f, q
  <2>2. p \in [Clients -> ClientType] /\ used \in Int
    <3>1. h.p \in [Clients -> ClientType] /\ h.used \in Int /\ q \in ClientType
      BY <1>1, <1>5 DEF GateType
    <3>2. p \in [Clients -> ClientType]
      BY <3>1
    <3>3. used \in Int
      BY <3>1
    <3> QED
      BY <3>2, <3>3
  <2> HIDE DEF p, used
  <2>3. g \in GateType /\ g.fi = f /\ g.abort = h.abort /\ g.used = used /\ g.p = p
    BY <1>1, <1>4, <2>1, <2>2 DEF GateType
  <2> QED
    BY <2>3 DEF p, used
<1> HIDE DEF f, q
<1>7. g.p[c] = q /\ \A d \in Clients : d # c => g.p[d] = h.p[d]
  BY <1>1, <1>2, <1>6
<1>8. g.fi.slots[i] = c /\ \A j \in Sockets : j # i => g.fi.slots[j] = h.fi.slots[j]
  BY <1>1, <1>2, <1>6
<1>9. TakenIn(g.p) = T \cup {c}
  BY <1>2, <1>5, <1>7 DEF TakenIn
<1>10. g.used = Cardinality(TakenIn(g.p))
  <2>1. IsFiniteSet(T)
    <3>1. T \subseteq Clients
      BY DEF TakenIn
    <3> QED
      BY <3>1, TableConstants, FS_Subset
  <2>2. Cardinality(T \cup {c}) = Cardinality(T) + 1
    BY <1>2, <2>1, FS_AddElement
  <2> QED
    BY <1>1, <1>6, <1>9, <2>2
<1>11. ASSUME NEW j \in Sockets, g.fi.slots[j] # -1
       PROVE  g.p[g.fi.slots[j]].status # "FREE" /\ g.p[g.fi.slots[j]].connid = j
  <2>1. CASE j = i
    BY <1>5, <1>7, <1>8, <2>1
  <2>2. CASE j # i
    <3> DEFINE d == h.fi.slots[j]
    <3>1. g.fi.slots[j] = d /\ d # -1 /\ d \in Clients
      BY <1>1, <1>8, <1>11, <2>2
    <3>2. h.p[d].status # "FREE" /\ h.p[d].connid = j
      BY <3>1, Zenon DEF ClientsInv
    <3> HIDE DEF d
    <3>3. g.p[d] = h.p[d]
      BY <1>3, <1>7, <3>1, <3>2
    <3> QED
      BY <3>1, <3>2, <3>3, Zenon
  <2> QED
    BY <2>1, <2>2
<1>12. \A d \in Clients : g.p[d].status # "FREE" => g.p[d].connid # ListenId
  BY <1>5, <1>7 DEF ClientsInv
<1>13. ClientsInv(g)
  BY <1>2, <1>6, <1>9, <1>10, <1>11, <1>12, Zenon DEF ClientsInv
<1> QED
  BY <1>2, <1>3, <1>5, <1>6, <1>7, <1>8, <1>13, Zenon

\* No client leaves without being noted.
Stays(w, v) ==
    /\ w.gone \subseteq v.gone
    /\ \A i \in Sockets : w.gate.fi.slots[i] # -1 => v.gate.fi.slots[i] # -1 \/ i \in v.gone

LEMMA MovedStays == ASSUME NEW w, NEW v, Moved(w, v) PROVE Stays(w, v)
BY DEF Moved, Stays

\* The connection of an ACCEPT has no client yet.
LEMMA JoinLinks ==
    ASSUME NEW w, Base(w), NEW i \in Sockets, NEW t, Kept(w.net, t, i), NEW c \in Clients,
           NEW v \in States, v.net = t, w.gate.p[c].status = "FREE",
           v.gate.fi.slots[i] = c, \A j \in Sockets : j # i => v.gate.fi.slots[j] = w.gate.fi.slots[j],
           v.gate.p[c].status = "CONNECTED", v.gate.p[c].connid = i,
           \A d \in Clients : d # c => v.gate.p[d] = w.gate.p[d],
           NEW E \in SUBSET Sockets, NEW A \in SUBSET Sockets, NEW N \in SUBSET Sockets,
           Linked(w, E, A, N), i \in A
    PROVE  Linked(v, E, A \ {i}, N)
<1>1. \A j \in Sockets : t.sock[j].status = w.net.sock[j].status /\ t.sock[j].ud = w.net.sock[j].ud
  BY Zenon DEF Kept, Steady, Others, Same
<1>2. \A j \in Sockets : OfGate(t.sock[j]) <=> OfGate(w.net.sock[j])
  BY <1>1, Zenon DEF OfGate
<1>3. c # -1 /\ AcceptLinked(w, i)
  BY TableConstants DEF Linked
<1>4. ASSUME NEW d \in Clients PROVE ClientLinked(v, E, d)
  <2>1. ClientLinked(w, E, d) /\ w.gate.p[d].connid \in Sockets
    BY DEF Linked, Base, ClientsInv, GateType, ClientType
  <2>2. CASE d = c
    <3>1. OfGate(v.net.sock[i]) /\ v.net.sock[i].status = "CONNECTED"
      BY <1>1, <1>2, <1>3 DEF AcceptLinked, OfGate
    <3> QED
      BY <2>2, <3>1 DEF ClientLinked
  <2>3. CASE d # c
    <3>1. v.gate.p[d] = w.gate.p[d]
      BY <2>3
    <3>2. CASE w.gate.p[d].status # "FREE"
      <4> DEFINE k == w.gate.p[d].connid
      <4>1. k # i
        BY <1>3, <2>1, <3>2, TableConstants DEF ClientLinked, AcceptLinked
      <4>2. /\ t.sock[k].status = w.net.sock[k].status /\ v.gate.fi.slots[k] = w.gate.fi.slots[k]
            /\ OfGate(t.sock[k]) <=> OfGate(w.net.sock[k])
        <5>1. k \in Sockets
          BY <2>1
        <5> HIDE DEF k
        <5> QED
          BY <1>1, <1>2, <4>1, <5>1, Zenon
      <4> QED
        BY <2>1, <3>1, <4>2, Zenon DEF ClientLinked
    <3> QED
      BY <3>1, <3>2 DEF ClientLinked
  <2> QED
    BY <2>2, <2>3
<1>5. ASSUME NEW j \in Sockets PROVE SocketLinked(v, A \ {i}, j)
  <2>1. SocketLinked(w, A, j)
    BY Zenon DEF Linked
  <2> QED
    BY <1>2, <1>3, <2>1 DEF SocketLinked
<1>6. ASSUME NEW j \in A \ {i} PROVE AcceptLinked(v, j)
  <2>1. AcceptLinked(w, j) /\ j \in Sockets /\ j # i
    BY Zenon DEF Linked
  <2> QED
    BY <1>1, <2>1, Zenon DEF AcceptLinked
<1>7. ASSUME NEW j \in N PROVE ~ OfGate(v.net.sock[j])
  <2>1. ~ OfGate(w.net.sock[j])
    BY Zenon DEF Linked
  <2> QED
    BY <1>2, <2>1, Zenon
<1> QED
  BY <1>4, <1>5, <1>6, <1>7, Zenon DEF Linked

LEMMA AcceptJoins ==
    ASSUME LowHeap, NEW w, Base(w), NEW i \in Sockets, i # ListenId
    PROVE  LET v == sc_gate_acceptclient(w, i)
           IN /\ Base(v) /\ Stays(w, v) /\ v.gate.abort = w.gate.abort
              /\ v.gate.used > w.gate.used => v.gate.fi.slots[i] # -1
              /\ \A E, A, N \in SUBSET Sockets :
                   Linked(w, E, A, N) /\ i \in A => Linked(v, E, A \ {i}, N)
<1> DEFINE v == sc_gate_acceptclient(w, i)
           c == AllocId(w.gate.fi, i)
<1>1. w \in States /\ ClientsInv(w.gate) /\ SocksInv(w.net) /\ w.gate.used \in Int
  BY DEF Base, ClientsInv, GateType
<1>2. CASE c = -1
  <2> DEFINE t == net_close_socket(w.net, i, TRUE)
  <2>1. v = [w EXCEPT !.net = t]
    BY <1>2 DEF sc_gate_acceptclient
  <2>2. Closed(w.net, t, i)
    <3>1. ClosesNow(w.net, i, TRUE)
      BY DEF ClosesNow
    <3> QED
      BY <1>1, <3>1, NetCloseEffect
  <2> HIDE DEF t, v, c
  <2>3. /\ v.net = t /\ v.gate = w.gate /\ v.gone = w.gone
        /\ Base(v) /\ Moved(w, v)
        /\ \A E, A, N \in SUBSET Sockets : Linked(w, E, A, N) =>
             Linked(v, E \cup {i}, A \ {i}, N)
    BY <2>1, <2>2, CloseOnly
  <2>4. ASSUME NEW E \in SUBSET Sockets, NEW A \in SUBSET Sockets, NEW N \in SUBSET Sockets,
               Linked(w, E, A, N), i \in A
        PROVE  Linked(v, E, A \ {i}, N)
    <3>1. Linked(v, E \cup {i}, A \ {i}, N)
      BY <2>3, <2>4
    <3>2. v.gate.fi.slots[i] = -1
      BY <2>3, <2>4 DEF Linked, AcceptLinked
    <3>3. /\ \A j \in E \cup {i} : j \in E \/ v.gate.fi.slots[j] = -1
          /\ A \ {i} \subseteq A \ {i} /\ N \subseteq N /\ \A j \in A \ {i} : j \in A \ {i}
      BY <3>2
    <3> QED
      BY <2>3, <3>1, <3>3, LinkedLess
  <2>5. ~ v.gate.used > w.gate.used
    BY <1>1, <2>3
  <2> QED
    BY <2>3, <2>4, <2>5, MovedStays DEF v
<1>3. CASE c # -1
  <2> DEFINE t == net_subscribe(w.net, i, TRUE)
             g == Joined(w.gate, c, i)
  <2>1. /\ ClientsInv(g) /\ g \in GateType /\ g.abort = w.gate.abort /\ g.used = w.gate.used + 1
        /\ c \in Clients /\ w.gate.p[c].status = "FREE"
        /\ g.fi.slots[i] = c /\ \A j \in Sockets : j # i => g.fi.slots[j] = w.gate.fi.slots[j]
        /\ g.p[c].status = "CONNECTED" /\ g.p[c].connid = i
        /\ \A d \in Clients : d # c => g.p[d] = w.gate.p[d]
    BY <1>1, <1>3, JoinClient
  <2>2. v = [w EXCEPT !.net = t, !.gate = g]
    <3>1. v = [w EXCEPT !.net = t, !.gate.fi = freeid_alloc(w.gate.fi, i),
                        !.gate.p[c] = [connid |-> i, status |-> "CONNECTED", age |-> 0],
                        !.gate.used = w.gate.used + 1]
      BY <1>3, <2>1 DEF sc_gate_acceptclient
    <3> HIDE DEF v, t, c
    <3> QED
      BY <3>1 DEF Joined
  <2>3. Kept(w.net, t, i)
    BY <1>1, SubscribeEffect
  <2>4. t \in NetType /\ SocksInv(t)
    BY <2>3 DEF Kept, Steady, SocksInv, TableInv
  <2> HIDE DEF t, v, c, g
  <2>5. v \in States /\ v.net = t /\ v.gate = g /\ v.gone = w.gone
    BY <1>1, <2>1, <2>2, <2>4 DEF States
  <2>6. c # -1
    BY <1>3
  <2>7. Base(v)
    <3>1. \A j \in Sockets : OfGate(t.sock[j]) /\ t.sock[j].mask # {} => g.fi.slots[j] # -1
      <4> SUFFICES ASSUME NEW j \in Sockets, OfGate(t.sock[j]), t.sock[j].mask # {}, j # i
                   PROVE  g.fi.slots[j] # -1
        BY <2>1, <2>6
      <4>1. Same(t.sock[j], w.net.sock[j])
        BY <2>3 DEF Kept, Steady, Others
      <4>2. OfGate(w.net.sock[j]) /\ w.net.sock[j].mask # {}
        BY <4>1, Zenon DEF OfGate, Same
      <4>3. w.gate.fi.slots[j] # -1
        BY <4>2, Zenon DEF Base, ServedInv
      <4> QED
        BY <2>1, <4>3
    <3> QED
      BY <2>1, <2>4, <2>5, <3>1, Zenon DEF Base, ServedInv
  <2>8. Stays(w, v)
    BY <2>1, <2>5, <2>6 DEF Stays
  <2>9. ASSUME NEW E \in SUBSET Sockets, NEW A \in SUBSET Sockets, NEW N \in SUBSET Sockets,
               Linked(w, E, A, N), i \in A
        PROVE  Linked(v, E, A \ {i}, N)
    <3>1. /\ v.gate.fi.slots[i] = c /\ \A j \in Sockets : j # i => v.gate.fi.slots[j] = w.gate.fi.slots[j]
          /\ v.gate.p[c].status = "CONNECTED" /\ v.gate.p[c].connid = i
          /\ \A d \in Clients : d # c => v.gate.p[d] = w.gate.p[d]
      BY <2>1, <2>5, Zenon
    <3> QED
      BY <2>1, <2>3, <2>5, <2>9, <3>1, JoinLinks
  <2>10. v.gate.abort = w.gate.abort /\ v.gate.fi.slots[i] # -1
    BY <2>1, <2>5, <2>6
  <2> QED
    BY <2>7, <2>8, <2>9, <2>10, Zenon DEF v
<1> QED
  BY <1>2, <1>3

-----------------------------------------------------------------------------
\* The messages that are left when the first one is done.
Rest(ne) == IF Len(ne) > 1 THEN Tail(ne) ELSE <<>>

LEMMA RestShifts ==
    ASSUME NEW ne \in Seq(Messages), ne # <<>>
    PROVE  /\ Rest(ne) \in Seq(Messages)
           /\ 1 \in DOMAIN ne /\ Head(ne) = ne[1] /\ Head(ne) \in Messages
           /\ \A k \in DOMAIN Rest(ne) : k \in Nat /\ k + 1 \in DOMAIN ne /\ Rest(ne)[k] = ne[k + 1]
           /\ \A k \in DOMAIN ne : k # 1 => k - 1 \in DOMAIN Rest(ne) /\ Rest(ne)[k - 1] = ne[k]
<1>1. Len(ne) \in Nat /\ DOMAIN ne = 1 .. Len(ne) /\ Len(ne) # 0
  OBVIOUS
<1>2. 1 \in DOMAIN ne /\ Head(ne) = ne[1] /\ Head(ne) \in Messages
  BY <1>1
<1>3. CASE Len(ne) > 1
  <2>1. Rest(ne) = Tail(ne)
    BY <1>3 DEF Rest
  <2>2. Tail(ne) \in Seq(Messages) /\ DOMAIN Tail(ne) = 1 .. Len(ne) - 1
        /\ \A k \in 1 .. Len(ne) - 1 : Tail(ne)[k] = ne[k + 1]
    BY <1>1, <1>3
  <2>3. \A k \in 1 .. Len(ne) - 1 : k \in Nat /\ k + 1 \in 1 .. Len(ne)
    BY <1>1
  <2>4. \A k \in 1 .. Len(ne) : k # 1 => k - 1 \in 1 .. Len(ne) - 1 /\ (k - 1) + 1 = k
    BY <1>1
  <2> QED
    BY <1>1, <1>2, <2>1, <2>2, <2>3, <2>4
<1>4. CASE ~ Len(ne) > 1
  <2>1. Rest(ne) = <<>> /\ \A k \in DOMAIN ne : k = 1
    BY <1>1, <1>4 DEF Rest
  <2> QED
    BY <1>2, <2>1
<1> QED
  BY <1>3, <1>4

LEMMA RestSets ==
    ASSUME NEW ne \in Seq(Messages), ne # <<>>
    PROVE  LET r == Rest(ne)
               m == Head(ne)
           IN /\ r \in Seq(Messages) /\ m \in Messages
              /\ FreshAccepts(ne) => FreshAccepts(r) /\ m.id \notin Accepts(r)
              /\ \A i \in Ends(ne) :
                   i \in Ends(r) \/ (i = m.id /\ m.type \in {"SOCKERR", "WRIDONECLOSE"} /\ m.ud = "gate")
              /\ Accepts(r) \subseteq Accepts(ne)
              /\ \A i \in Accepts(ne) : i \in Accepts(r) \/ (i = m.id /\ m.type = "ACCEPT")
              /\ LinkReads(r) \subseteq LinkReads(ne)
              /\ \A w : MsgsInv(ne, w) => MsgsInv(r, w)
<1> DEFINE r == Rest(ne)
           m == Head(ne)
<1>1. /\ r \in Seq(Messages)
      /\ 1 \in DOMAIN ne /\ m = ne[1] /\ m \in Messages
      /\ \A k \in DOMAIN r : k \in Nat /\ k + 1 \in DOMAIN ne /\ r[k] = ne[k + 1]
      /\ \A k \in DOMAIN ne : k # 1 => k - 1 \in DOMAIN r /\ r[k - 1] = ne[k]
  BY RestShifts
<1> HIDE DEF r, m
<1>2. ASSUME FreshAccepts(ne)
      PROVE  FreshAccepts(r) /\ m.id \notin Accepts(r)
  <2>1. ASSUME NEW j \in DOMAIN r, NEW k \in DOMAIN r, j < k, r[k].type = "ACCEPT"
        PROVE  r[j].id # r[k].id
    <3>1. j + 1 \in DOMAIN ne /\ k + 1 \in DOMAIN ne /\ j + 1 < k + 1
          /\ r[j] = ne[j + 1] /\ r[k] = ne[k + 1]
      BY <1>1, <2>1
    <3> QED
      BY <1>2, <2>1, <3>1, Zenon DEF FreshAccepts
  <2>2. ASSUME NEW k \in DOMAIN r, r[k].type = "ACCEPT"
        PROVE  r[k].id # m.id
    <3>1. k + 1 \in DOMAIN ne /\ 1 < k + 1 /\ r[k] = ne[k + 1]
      <4>1. k \in Nat /\ k # 0
        BY <1>1
      <4> QED
        BY <1>1, <4>1
    <3> QED
      <4>1. 1 \in DOMAIN ne /\ m = ne[1] /\ ne[k + 1].type = "ACCEPT"
        BY <1>1, <2>2, <3>1, Zenon
      <4>2. ne[1].id # ne[k + 1].id
        BY ONLY <1>2, <3>1, <4>1, Zenon DEF FreshAccepts
      <4> QED
        BY <3>1, <4>1, <4>2, Zenon
  <2>3. m.id \notin Accepts(r)
    BY <2>2, Zenon DEF Accepts
  <2> QED
    BY <2>1, <2>3, Zenon DEF FreshAccepts
<1>3. ASSUME NEW i \in Ends(ne)
      PROVE  i \in Ends(r) \/ (i = m.id /\ m.type \in {"SOCKERR", "WRIDONECLOSE"} /\ m.ud = "gate")
  <2>1. PICK k \in DOMAIN ne : ne[k].type \in {"SOCKERR", "WRIDONECLOSE"} /\ ne[k].ud = "gate" /\ ne[k].id = i
    BY DEF Ends
  <2>2. CASE k = 1
    BY <1>1, <2>1, <2>2
  <2>3. CASE k # 1
    <3>1. k - 1 \in DOMAIN r /\ r[k - 1] = ne[k] /\ i \in Sockets
      BY <1>1, <2>3 DEF Ends
    <3> QED
      BY <2>1, <3>1 DEF Ends
  <2> QED
    BY <2>2, <2>3
<1>4. Accepts(r) \subseteq Accepts(ne) /\ LinkReads(r) \subseteq LinkReads(ne)
  BY <1>1 DEF Accepts, LinkReads
<1>5. ASSUME NEW i \in Accepts(ne)
      PROVE  i \in Accepts(r) \/ (i = m.id /\ m.type = "ACCEPT")
  <2>1. PICK k \in DOMAIN ne : ne[k].type = "ACCEPT" /\ ne[k].id = i
    BY DEF Accepts
  <2>2. CASE k = 1
    BY <1>1, <2>1, <2>2
  <2>3. CASE k # 1
    <3>1. k - 1 \in DOMAIN r /\ r[k - 1] = ne[k] /\ i \in Sockets
      BY <1>1, <2>3 DEF Accepts
    <3> QED
      BY <2>1, <3>1 DEF Accepts
  <2> QED
    BY <2>2, <2>3
<1>6. ASSUME NEW w, MsgsInv(ne, w) PROVE MsgsInv(r, w)
  <2> SUFFICES ASSUME NEW k \in DOMAIN r, r[k].type # "INVALID"
               PROVE  /\ r[k].type \in {"READ", "ACCEPT", "SOCKERR", "WRIDONECLOSE"}
                      /\ r[k].id \in Sockets \ {ListenId} /\ r[k].ud \in Services
                      /\ r[k].type # "ACCEPT" /\ r[k].ud = "gate" =>
                           w.gate.fi.slots[r[k].id] # -1 \/ r[k].id \in w.gone
    BY Zenon DEF MsgsInv
  <2>1. k + 1 \in DOMAIN ne /\ r[k] = ne[k + 1]
    BY <1>1
  <2> QED
    BY <1>6, <2>1, Zenon DEF MsgsInv
<1> QED
  BY <1>1, <1>2, <1>3, <1>4, <1>5, <1>6, Zenon DEF r, m

LEMMA SetsType ==
    ASSUME NEW ne PROVE Ends(ne) \in SUBSET Sockets /\ Accepts(ne) \in SUBSET Sockets
                        /\ LinkReads(ne) \in SUBSET Sockets
BY DEF Ends, Accepts, LinkReads

LinkedNow(v, ne) == Linked(v, Ends(ne), Accepts(ne), LinkReads(ne))

\* The first message is not an ACCEPT, and if it ends a connection the client is gone.
LEMMA RestLinked ==
    ASSUME NEW ne \in Seq(Messages), ne # <<>>, NEW v, Base(v), LinkedNow(v, ne),
           Head(ne).type # "ACCEPT",
           Head(ne).type \in {"SOCKERR", "WRIDONECLOSE"} /\ Head(ne).ud = "gate" =>
               v.gate.fi.slots[Head(ne).id] = -1
    PROVE  LinkedNow(v, Rest(ne))
<1>1. /\ \A i \in Ends(ne) : i \in Ends(Rest(ne)) \/ v.gate.fi.slots[i] = -1
      /\ Accepts(Rest(ne)) \subseteq Accepts(ne)
      /\ \A i \in Accepts(ne) : i \in Accepts(Rest(ne))
      /\ LinkReads(Rest(ne)) \subseteq LinkReads(ne)
  BY RestSets
<1> QED
  BY <1>1, LinkedLess DEF LinkedNow

\* The first message is an ACCEPT, and the connection is taken or refused.
LEMMA RestAccepted ==
    ASSUME NEW ne \in Seq(Messages), ne # <<>>, FreshAccepts(ne), Head(ne).type = "ACCEPT",
           NEW v, Base(v), Linked(v, Ends(ne), Accepts(ne) \ {Head(ne).id}, LinkReads(ne))
    PROVE  LinkedNow(v, Rest(ne))
<1> DEFINE m == Head(ne)
<1>1. /\ m.id \notin Accepts(Rest(ne))
      /\ \A i \in Ends(ne) :
           i \in Ends(Rest(ne)) \/ (i = m.id /\ m.type \in {"SOCKERR", "WRIDONECLOSE"} /\ m.ud = "gate")
      /\ Accepts(Rest(ne)) \subseteq Accepts(ne)
      /\ \A i \in Accepts(ne) : i \in Accepts(Rest(ne)) \/ (i = m.id /\ m.type = "ACCEPT")
      /\ LinkReads(Rest(ne)) \subseteq LinkReads(ne)
  BY RestSets
<1>2. /\ \A i \in Ends(ne) : i \in Ends(Rest(ne)) \/ v.gate.fi.slots[i] = -1
      /\ Accepts(Rest(ne)) \subseteq Accepts(ne) \ {m.id}
      /\ \A i \in Accepts(ne) \ {m.id} : i \in Accepts(Rest(ne))
  BY <1>1
<1> QED
  BY <1>1, <1>2, LinkedLess DEF LinkedNow

LEMMA MsgsStay ==
    ASSUME NEW ne, NEW w, NEW v, MsgsInv(ne, w), Stays(w, v)
    PROVE  MsgsInv(ne, v)
<1> SUFFICES ASSUME NEW k \in DOMAIN ne, ne[k].type # "INVALID"
             PROVE  /\ ne[k].type \in {"READ", "ACCEPT", "SOCKERR", "WRIDONECLOSE"}
                    /\ ne[k].id \in Sockets \ {ListenId} /\ ne[k].ud \in Services
                    /\ ne[k].type # "ACCEPT" /\ ne[k].ud = "gate" =>
                         v.gate.fi.slots[ne[k].id] # -1 \/ ne[k].id \in v.gone
  BY Zenon DEF MsgsInv
<1>1. /\ ne[k].type \in {"READ", "ACCEPT", "SOCKERR", "WRIDONECLOSE"}
      /\ ne[k].id \in Sockets \ {ListenId} /\ ne[k].ud \in Services
      /\ ne[k].type # "ACCEPT" /\ ne[k].ud = "gate" =>
           w.gate.fi.slots[ne[k].id] # -1 \/ ne[k].id \in w.gone
  BY Zenon DEF MsgsInv
<1> QED
  BY <1>1 DEF Stays

-----------------------------------------------------------------------------
\* The steps.
LEMMA FailBase ==
    ASSUME NEW w, Base(w), NEW a \in Asserts, NEW i \in Sockets
    PROVE  LET v == Fail(w, a, i)
           IN Base(v) /\ v.gate.abort = a /\ v.gate.culprit = i /\ v.gone = w.gone
<1> DEFINE v == Fail(w, a, i)
           g == [w.gate EXCEPT !.abort = a, !.culprit = i]
<1>1. w \in States /\ w.gate \in GateType /\ ClientsInv(w.gate)
  BY DEF Base, ClientsInv
<1>2. v = [w EXCEPT !.gate = g]
  BY DEF Fail
<1>3. /\ g \in GateType /\ g.fi = w.gate.fi /\ g.used = w.gate.used /\ g.p = w.gate.p
      /\ g.abort = a /\ g.culprit = i
  BY <1>1 DEF GateType
<1> HIDE DEF g, v
<1>4. v \in States /\ v.net = w.net /\ v.gate = g /\ v.gone = w.gone
  BY <1>1, <1>2, <1>3 DEF States
<1>5. ClientsInv(g)
  BY <1>1, <1>3, Zenon DEF ClientsInv
<1>6. Base(v)
  BY <1>3, <1>4, <1>5, Zenon DEF Base
<1> QED
  BY <1>3, <1>4, <1>6 DEF v

LEMMA BecomesHere ==
    ASSUME NEW w \in States, Becomes(w)
    PROVE  Here' = w
<1>1. Here' = [net |-> w.net, gate |-> w.gate, gone |-> w.gone]
  BY Zenon DEF Here, Becomes
<1> QED
  BY <1>1 DEF States

LEMMA HereIs == Here.net = net /\ Here.gate = gate /\ Here.gone = gone
BY DEF Here

LEMMA NextIInv ==
    ASSUME IInv, Running, loop.pc = "dispatch", NextEvent, Base(Here'), AbortCause',
           Running' => Stays(Here, Here'),
           Healthy' => FreshAccepts(loop.ne) /\ LinkedNow(Here', Rest(loop.ne))
    PROVE  IInv'
<1> DEFINE ne == loop.ne
<1>1. /\ loop \in LoopType /\ loop.pc # "build" /\ loop.ev = <<>> /\ ne # <<>> /\ ne \in Seq(Messages)
  BY DEF IInv, LoopInv, LoopType
<1>2. /\ loop' = IF Len(ne) > 1 THEN [loop EXCEPT !.ne = Tail(ne)] ELSE [loop EXCEPT !.pc = "timer", !.ne = <<>>]
      /\ rd' = Idle /\ backlog' = backlog /\ mishaps' = mishaps /\ due' = due
  BY DEF NextEvent, NextMessage
<1>3. /\ loop' \in LoopType /\ loop'.ev = <<>> /\ loop'.ne = Rest(ne)
      /\ loop'.pc \in {"dispatch", "timer"}
      /\ loop'.pc = "dispatch" => loop'.ne # <<>>
      /\ loop'.pc = "timer" => loop'.ne = <<>>
  <2>1. CASE Len(ne) > 1
    <3>1. loop' = [loop EXCEPT !.ne = Tail(ne)] /\ Rest(ne) = Tail(ne)
      BY <1>2, <2>1 DEF Rest
    <3>2. Tail(ne) \in Seq(Messages) /\ Tail(ne) # <<>>
      BY <1>1, <2>1, TailShifts
    <3> HIDE DEF ne
    <3> QED
      BY <1>1, <3>1, <3>2 DEF LoopType
  <2>2. CASE ~ Len(ne) > 1
    <3>1. loop' = [loop EXCEPT !.pc = "timer", !.ne = <<>>] /\ Rest(ne) = <<>>
      BY <1>2, <2>2 DEF Rest
    <3>2. <<>> \in Seq(Messages)
      OBVIOUS
    <3> HIDE DEF ne
    <3> DEFINE none == <<>>
    <3>3. loop' = [loop EXCEPT !.pc = "timer", !.ne = none] /\ Rest(ne) = none /\ none \in Seq(Messages)
      BY <3>1, <3>2
    <3> HIDE DEF none
    <3>4. loop' \in LoopType /\ loop'.ev = <<>> /\ loop'.ne = none /\ loop'.pc = "timer"
      BY <1>1, <3>3 DEF LoopType
    <3> QED
      BY <3>3, <3>4 DEF none
  <2> QED
    BY <2>1, <2>2
<1>4. LoopInv(net', loop')
  BY <1>3 DEF LoopInv
<1>5. EventsInv(loop'.ev, Here')
  BY <1>3 DEF EventsInv
<1>6. rd' \in ReadType /\ rd'.at = "idle"
  BY <1>2, NetAssumption, GateAssumption DEF Idle, ReadType, Sockets
<1>7. backlog' \in 0 .. MaxBacklog /\ mishaps' \subseteq {"lost", "reused"} /\ due' \in 0 .. Cap
  BY <1>2 DEF IInv
<1>8. ASSUME Running' PROVE MsgsInv(loop'.ne, Here') /\ ReadInv(Here', rd', loop'.ne)
  <2>1. MsgsInv(Rest(ne), Here)
    <3>1. MsgsInv(ne, Here)
      BY DEF IInv
    <3> QED
      BY <1>1, <3>1, RestSets
  <2>2. MsgsInv(Rest(ne), Here')
    BY <1>8, <2>1, MsgsStay
  <2>3. ReadInv(Here', rd', loop'.ne)
    BY <1>6 DEF ReadInv
  <2> QED
    BY <1>3, <2>2, <2>3
<1>9. ASSUME Healthy'
      PROVE  FreshAccepts(loop'.ne) /\ Linked(Here', Ends(loop'.ne), Accepts(loop'.ne), LinkReads(loop'.ne))
  <2>1. FreshAccepts(ne) /\ LinkedNow(Here', Rest(ne))
    BY <1>9
  <2>2. FreshAccepts(Rest(ne))
    BY <1>1, <2>1, RestSets
  <2> QED
    BY <1>3, <2>1, <2>2 DEF LinkedNow
<1>10. loop'.pc \in {"poll", "timer"} => loop'.ne = <<>>
  BY <1>3
<1> QED
  BY <1>4, <1>5, <1>6, <1>7, <1>8, <1>9, <1>10 DEF IInv

LEMMA SameIInv ==
    ASSUME IInv, Running, loop.pc = "dispatch", UNCHANGED <<backlog, loop, mishaps, due>>,
           Base(Here'), AbortCause', rd' \in ReadType,
           Running' => Stays(Here, Here') /\ ReadInv(Here', rd', loop.ne),
           Healthy' => LinkedNow(Here', loop.ne)
    PROVE  IInv'
<1>1. loop' = loop /\ backlog' = backlog /\ mishaps' = mishaps /\ due' = due
  OBVIOUS
<1>2. loop.ev = <<>> /\ LoopInv(net, loop)
  BY DEF IInv, LoopInv, LoopType
<1>3. LoopInv(net', loop') /\ EventsInv(loop'.ev, Here')
  BY <1>1, <1>2 DEF LoopInv, EventsInv
<1>4. ASSUME Running' PROVE MsgsInv(loop'.ne, Here') /\ ReadInv(Here', rd', loop'.ne)
  <2>1. MsgsInv(loop.ne, Here)
    BY DEF IInv
  <2> QED
    BY <1>1, <1>4, <2>1, MsgsStay
<1>5. ASSUME Healthy'
      PROVE  FreshAccepts(loop'.ne) /\ Linked(Here', Ends(loop'.ne), Accepts(loop'.ne), LinkReads(loop'.ne))
  <2>1. Healthy
    BY <1>1, <1>5 DEF Healthy
  <2>2. FreshAccepts(loop.ne)
    BY <2>1 DEF IInv
  <2> QED
    BY <1>1, <1>5, <2>2 DEF LinkedNow
<1>6. /\ backlog' \in 0 .. MaxBacklog /\ mishaps' \subseteq {"lost", "reused"} /\ due' \in 0 .. Cap
      /\ loop'.pc = "dispatch"
  BY <1>1 DEF IInv
<1> QED
  BY <1>3, <1>4, <1>5, <1>6 DEF IInv

\* An assert fails for a reason AbortCause gives.
LEMMA FailCause ==
    ASSUME gate'.abort \in {"read", "sockerr", "wridoneclose"} /\ gate'.culprit \in gone'
    PROVE  AbortCause' /\ ~ Running' /\ ~ Healthy'
<1>1. gate'.abort # "none"
  OBVIOUS
<1> QED
  BY <1>1 DEF AbortCause, Running, Healthy

LEMMA RunsOn ==
    ASSUME Running, gate'.abort = gate.abort
    PROVE  AbortCause' /\ Running'
BY DEF AbortCause, Running

\* What IInv says while messages are dispatched.
LEMMA Dispatched ==
    ASSUME IInv, Running, loop.pc = "dispatch"
    PROVE  /\ loop.ne \in Seq(Messages) /\ loop.ne # <<>> /\ Head(loop.ne) \in Messages
           /\ Base(Here) /\ Here \in States
           /\ Head(loop.ne).type # "INVALID" =>
                /\ Head(loop.ne).type \in {"READ", "ACCEPT", "SOCKERR", "WRIDONECLOSE"}
                /\ Head(loop.ne).id \in Sockets \ {ListenId} /\ Head(loop.ne).ud \in {"gate", "node"}
                /\ Head(loop.ne).type # "ACCEPT" /\ Head(loop.ne).ud = "gate" =>
                     gate.fi.slots[Head(loop.ne).id] # -1 \/ Head(loop.ne).id \in gone
           /\ Healthy => FreshAccepts(loop.ne) /\ LinkedNow(Here, loop.ne)
<1> DEFINE ne == loop.ne
<1>1. ne \in Seq(Messages) /\ ne # <<>>
  BY DEF IInv, LoopInv, LoopType
<1>2. 1 \in DOMAIN ne /\ Head(ne) = ne[1] /\ Head(ne) \in Messages
  BY <1>1, RestShifts
<1>3. Base(Here) /\ Here \in States
  BY DEF IInv, Base
<1>4. Head(ne).type # "INVALID" =>
        /\ Head(ne).type \in {"READ", "ACCEPT", "SOCKERR", "WRIDONECLOSE"}
        /\ Head(ne).id \in Sockets \ {ListenId} /\ Head(ne).ud \in Services
        /\ Head(ne).type # "ACCEPT" /\ Head(ne).ud = "gate" =>
             gate.fi.slots[Head(ne).id] # -1 \/ Head(ne).id \in gone
  <2>1. MsgsInv(ne, Here)
    BY DEF IInv
  <2> HIDE DEF ne
  <2> QED
    BY <1>2, <2>1, HereIs, Zenon DEF MsgsInv
<1>5. Healthy => FreshAccepts(ne) /\ LinkedNow(Here, ne)
  BY DEF IInv, LinkedNow
<1>6. Services = {"gate", "node"}
  BY GateAssumption
<1> QED
  BY <1>1, <1>2, <1>3, <1>4, <1>5, <1>6

\* A message is done; or its handler's calls were good.
LEMMA LinkedNext ==
    ASSUME IInv, Running, loop.pc = "dispatch", NextEvent, NEW v, Becomes(v),
           Base(v), Stays(Here, v), v.gate.abort = gate.abort, Healthy => LinkedNow(v, loop.ne),
           Head(loop.ne).type # "ACCEPT",
           Head(loop.ne).type \in {"SOCKERR", "WRIDONECLOSE"} /\ Head(loop.ne).ud = "gate" =>
               v.gate.fi.slots[Head(loop.ne).id] = -1
    PROVE  IInv'
<1>1. Here' = v
  BY BecomesHere DEF Base
<1>2. AbortCause' /\ Running'
  BY RunsOn DEF Becomes
<1>3. ASSUME Healthy' PROVE FreshAccepts(loop.ne) /\ LinkedNow(Here', Rest(loop.ne))
  <2>1. Healthy
    BY <1>3 DEF Healthy, NextEvent
  <2>2. FreshAccepts(loop.ne) /\ LinkedNow(v, loop.ne)
        /\ loop.ne \in Seq(Messages) /\ loop.ne # <<>>
    BY <2>1, Dispatched
  <2>3. LinkedNow(v, Rest(loop.ne))
    BY <2>2, RestLinked
  <2> QED
    BY <1>1, <2>2, <2>3
<1> QED
  BY <1>1, <1>2, <1>3, NextIInv

LEMMA KeptNow ==
    ASSUME NEW w, NEW v, KeepsLinks(w, v), NEW ne, LinkedNow(w, ne)
    PROVE  LinkedNow(v, ne)
BY SetsType, Zenon DEF KeepsLinks, LinkedNow

LEMMA GoodNext ==
    ASSUME IInv, Running, loop.pc = "dispatch", NextEvent, NEW v, Becomes(v), Good(Here, v),
           Head(loop.ne).type # "ACCEPT",
           Head(loop.ne).type \in {"SOCKERR", "WRIDONECLOSE"} /\ Head(loop.ne).ud = "gate" =>
               v.gate.fi.slots[Head(loop.ne).id] = -1
    PROVE  IInv'
<1>1. Base(v) /\ Moved(Here, v) /\ v.gate.abort = gate.abort /\ KeepsLinks(Here, v)
  BY HereIs DEF Good
<1>2. Healthy => LinkedNow(v, loop.ne)
  BY <1>1, Dispatched, KeptNow
<1> QED
  BY <1>1, <1>2, MovedStays, LinkedNext

LEMMA InvalidKeeps == ASSUME IInv, Running, DispatchInvalid PROVE IInv'
<1>1. loop.pc = "dispatch" /\ Head(loop.ne).type = "INVALID" /\ NextEvent /\ Becomes(Here)
  BY DEF DispatchInvalid, Dispatching
<1>2. Good(Here, Here)
  BY GoodSame DEF IInv
<1> QED
  BY <1>1, <1>2, GoodNext

LEMMA ClosedKeeps == ASSUME LowHeap, IInv, Running, DispatchClosed PROVE IInv'
<1> DEFINE nm == Head(loop.ne)
<1>1. loop.pc = "dispatch" /\ nm.type \in {"SOCKERR", "WRIDONECLOSE"} /\ NextEvent
  BY DEF DispatchClosed, Dispatching
<1>2. \/ nm.ud = "node" /\ Becomes(Here)
      \/ nm.ud # "node" /\ nm.type = "SOCKERR" /\ Becomes(OnSockerr(Here, nm.id))
      \/ nm.ud # "node" /\ nm.type = "WRIDONECLOSE" /\ Becomes(OnWridoneclose(Here, nm.id))
  <2> DEFINE v == IF nm.ud = "node" THEN Here
                  ELSE IF nm.type = "SOCKERR" THEN OnSockerr(Here, nm.id)
                  ELSE OnWridoneclose(Here, nm.id)
  <2>1. Becomes(v)
    BY DEF DispatchClosed
  <2> HIDE DEF nm
  <2>2. \/ nm.ud = "node" /\ v = Here
        \/ nm.ud # "node" /\ nm.type = "SOCKERR" /\ v = OnSockerr(Here, nm.id)
        \/ nm.ud # "node" /\ nm.type = "WRIDONECLOSE" /\ v = OnWridoneclose(Here, nm.id)
    BY <1>1
  <2> HIDE DEF v
  <2> QED
    BY <2>1, <2>2 DEF Becomes
<1>3. /\ Base(Here) /\ Here \in States /\ nm.id \in Sockets /\ nm.ud \in {"gate", "node"}
      /\ nm.ud = "gate" => gate.fi.slots[nm.id] # -1 \/ nm.id \in gone
  BY <1>1, Dispatched
<1>4. CASE nm.ud = "node"
  <2>1. Good(Here, Here) /\ Becomes(Here)
    BY <1>2, <1>3, <1>4, GoodSame
  <2> QED
    BY <1>1, <1>4, <2>1, GoodNext
<1>5. CASE nm.ud # "node" /\ gate.fi.slots[nm.id] # -1
  <2> HIDE DEF nm
  <2>1. Ended(Here, OnSockerr(Here, nm.id), nm.id) /\ Ended(Here, OnWridoneclose(Here, nm.id), nm.id)
    BY <1>3, <1>5, HereIs, SockerrEnds, WridonecloseEnds
  <2>2. PICK v : Ended(Here, v, nm.id) /\ Becomes(v)
    BY <1>2, <1>5, <2>1
  <2>3. Good(Here, v) /\ v.gate.fi.slots[nm.id] = -1
    BY <2>2 DEF Ended
  <2> QED
    BY <1>1, <2>2, <2>3, GoodNext DEF nm
<1>6. CASE nm.ud # "node" /\ gate.fi.slots[nm.id] = -1
  <2> HIDE DEF nm
  <2>1. nm.id \in gone
    BY <1>3, <1>6
  <2>2. sc_gate_getclient(Here, nm.id) = -1
    BY <1>3, <1>6, HereIs, SlotsType DEF sc_gate_getclient
  <2>3. \/ Becomes(Fail(Here, "sockerr", nm.id))
        \/ Becomes(Fail(Here, "wridoneclose", nm.id))
    BY <1>2, <1>6, <2>2 DEF OnSockerr, OnWridoneclose
  <2>4. PICK a \in {"sockerr", "wridoneclose"} : Becomes(Fail(Here, a, nm.id))
    BY <2>3
  <2> DEFINE v == Fail(Here, a, nm.id)
  <2>5. Base(v) /\ v.gate.abort = a /\ v.gate.culprit = nm.id /\ v.gone = gone
    <3>1. Base(Here) /\ a \in Asserts /\ nm.id \in Sockets
      BY <1>3 DEF Asserts
    <3>2. Base(v) /\ v.gate.abort = a /\ v.gate.culprit = nm.id /\ v.gone = Here.gone
      BY <3>1, FailBase
    <3> QED
      BY <3>2, HereIs
  <2>6. Becomes(v)
    BY <2>4
  <2> HIDE DEF v
  <2>7. Here' = v /\ gate' = v.gate /\ gone' = v.gone
    BY <2>5, <2>6, BecomesHere DEF Base, Becomes
  <2>8. AbortCause' /\ ~ Running' /\ ~ Healthy'
    BY <2>1, <2>5, <2>7, FailCause
  <2> QED
    BY <1>1, <2>5, <2>7, <2>8, NextIInv
<1> QED
  BY <1>4, <1>5, <1>6

LEMMA AcceptKeeps == ASSUME LowHeap, IInv, Running, DispatchAccept PROVE IInv'
<1> DEFINE id == Head(loop.ne).id
           w == sc_gate_acceptclient(Here, id)
           c == sc_gate_getclient(w, id)
           v == IF ~ NeedVerify /\ w.gate.used > gate.used THEN sc_gate_loginclient(w, c) ELSE w
<1>1. loop.pc = "dispatch" /\ Head(loop.ne).type = "ACCEPT" /\ NextEvent /\ Becomes(v)
  BY DEF DispatchAccept, Dispatching
<1>2. id \in Sockets /\ id # ListenId /\ Base(Here) /\ Head(loop.ne).type # "INVALID"
  BY <1>1, Dispatched
<1>3. /\ Base(w) /\ Stays(Here, w) /\ w.gate.abort = gate.abort
      /\ w.gate.used > gate.used => w.gate.fi.slots[id] # -1
      /\ \A E, A, N \in SUBSET Sockets :
           Linked(Here, E, A, N) /\ id \in A => Linked(w, E, A \ {id}, N)
  <2> HIDE DEF id
  <2> QED
    BY <1>2, AcceptJoins, HereIs
<1> HIDE DEF w
<1>4. Good(w, v)
  <2>1. CASE w.gate.used > gate.used
    <3>1. c \in Clients
      <4> HIDE DEF id
      <4> QED
        BY <1>2, <1>3, <2>1, ClientOf
    <3>2. Good(w, sc_gate_loginclient(w, c)) /\ Good(w, w)
      <4> HIDE DEF c
      <4> QED
        BY <1>3, <3>1, LoginGood, GoodSame
    <3> QED
      BY <3>2
  <2>2. CASE ~ w.gate.used > gate.used
    BY <1>3, <2>2, GoodSame
  <2> QED
    BY <2>1, <2>2
<1> HIDE DEF v
<1>5. Base(v) /\ Moved(w, v) /\ v.gate.abort = gate.abort /\ KeepsLinks(w, v)
  BY <1>3, <1>4 DEF Good
<1>6. Here' = v
  BY <1>1, <1>5, BecomesHere DEF Base
<1>7. AbortCause' /\ Running'
  BY <1>1, <1>5, RunsOn DEF Becomes
<1>8. Stays(Here, v)
  BY <1>3, <1>5 DEF Moved, Stays
<1>9. ASSUME Healthy' PROVE FreshAccepts(loop.ne) /\ LinkedNow(v, Rest(loop.ne))
  <2>1. Healthy
    BY <1>1, <1>9 DEF Healthy, NextEvent
  <2>2. FreshAccepts(loop.ne) /\ LinkedNow(Here, loop.ne)
        /\ loop.ne \in Seq(Messages) /\ loop.ne # <<>>
    BY <1>1, <2>1, Dispatched
  <2> DEFINE E == Ends(loop.ne)
             A == Accepts(loop.ne)
             N == LinkReads(loop.ne)
  <2>3. /\ E \in SUBSET Sockets /\ A \in SUBSET Sockets /\ N \in SUBSET Sockets
        /\ A \ {id} \in SUBSET Sockets /\ Linked(Here, E, A, N)
    BY <2>2, SetsType DEF LinkedNow
  <2>4. id \in A
    BY <1>1, <1>2, <2>2, RestShifts DEF Accepts
  <2>5. Linked(w, E, A \ {id}, N)
    <3> HIDE DEF E, A, N, id
    <3> QED
      BY <1>3, <2>3, <2>4
  <2>6. Linked(v, E, A \ {id}, N)
    <3> HIDE DEF E, N, id
    <3> DEFINE B == A \ {id}
    <3>1. B \in SUBSET Sockets /\ Linked(w, E, B, N)
      BY <2>3, <2>5
    <3> HIDE DEF B
    <3>2. Linked(v, E, B, N)
      BY <1>5, <2>3, <3>1, Zenon DEF KeepsLinks
    <3> QED
      BY <3>2 DEF B
  <2>7. LinkedNow(v, Rest(loop.ne))
    BY <1>1, <1>5, <2>2, <2>6, RestAccepted
  <2> QED
    BY <2>2, <2>7
<1> QED
  BY <1>1, <1>5, <1>6, <1>7, <1>8, <1>9, NextIInv

LEMMA ReadBegins == ASSUME IInv, Running, DispatchRead PROVE IInv'
<1> DEFINE nm == Head(loop.ne)
           c == IF nm.ud = "node" THEN -1 ELSE sc_gate_getclient(Here, nm.id)
           r == [Idle EXCEPT !.at = "read", !.id = nm.id, !.c = c]
<1>1. /\ loop.pc = "dispatch" /\ nm.type = "READ" /\ UNCHANGED <<backlog, loop, mishaps, due>>
      /\ IF nm.ud = "gate" /\ c = -1
         THEN Becomes(Fail(Here, "read", nm.id)) /\ UNCHANGED rd
         ELSE rd' = r /\ Becomes(Here)
  BY DEF DispatchRead, Dispatching
<1>2. /\ Base(Here) /\ Here \in States /\ nm.id \in Sockets /\ nm.ud \in {"gate", "node"}
      /\ nm.ud = "gate" => gate.fi.slots[nm.id] # -1 \/ nm.id \in gone
      /\ loop.ne # <<>> /\ (Healthy => LinkedNow(Here, loop.ne))
  BY <1>1, Dispatched
<1>3. sc_gate_getclient(Here, nm.id) = gate.fi.slots[nm.id] /\ gate.fi.slots[nm.id] \in Clients \cup {-1}
  <2> HIDE DEF nm
  <2> QED
    BY <1>2, SlotsType, HereIs DEF sc_gate_getclient
<1>4. CASE nm.ud = "gate" /\ c = -1
  <2> HIDE DEF nm
  <2>1. nm.id \in gone
    BY <1>2, <1>3, <1>4
  <2> DEFINE v == Fail(Here, "read", nm.id)
  <2>2. Base(v) /\ v.gate.abort = "read" /\ v.gate.culprit = nm.id /\ v.gone = gone
    <3>1. Base(Here) /\ "read" \in Asserts /\ nm.id \in Sockets
      BY <1>2 DEF Asserts
    <3>2. Base(v) /\ v.gate.abort = "read" /\ v.gate.culprit = nm.id /\ v.gone = Here.gone
      BY <3>1, FailBase
    <3> QED
      BY <3>2, HereIs
  <2>3. Becomes(v) /\ rd' = rd
    BY <1>1, <1>4
  <2> HIDE DEF v
  <2>4. Here' = v /\ gate' = v.gate /\ gone' = v.gone
    BY <2>2, <2>3, BecomesHere DEF Base, Becomes
  <2>5. AbortCause' /\ ~ Running' /\ ~ Healthy'
    BY <2>1, <2>2, <2>4, FailCause
  <2>6. rd' \in ReadType
    BY <2>3 DEF IInv
  <2> QED
    BY <1>1, <2>2, <2>4, <2>5, <2>6, SameIInv
<1>5. CASE ~ (nm.ud = "gate" /\ c = -1)
  <2>1. rd' = r /\ Becomes(Here)
    BY <1>1, <1>5
  <2>2. Here' = Here /\ gate' = gate
    BY <1>2, <2>1, BecomesHere DEF Becomes, Here
  <2>3. AbortCause' /\ Running'
    BY <2>2, RunsOn
  <2>4. Stays(Here, Here)
    BY DEF Stays
  <2>5. c \in Clients \cup {-1} /\ (c = -1 <=> nm.ud = "node") /\ (c # -1 => gate.fi.slots[nm.id] = c)
    BY <1>2, <1>3, <1>5
  <2> HIDE DEF c
  <2>6. r \in ReadType /\ r.at = "read" /\ r.id = nm.id /\ r.c = c /\ ~ r.force
    <3>1. nm.id \in Sockets /\ c \in Clients \cup {-1} /\ 0 \in 0 .. RBufferMax /\ 0 \in 0 .. StepMax
      BY <1>2, <2>5, NetAssumption, GateAssumption
    <3> HIDE DEF nm
    <3> QED
      BY <3>1 DEF Idle, ReadType
  <2> HIDE DEF r
  <2>7. ReadInv(Here, r, loop.ne)
    BY <1>1, <1>2, <2>5, <2>6, HereIs DEF ReadInv
  <2>8. Healthy' => LinkedNow(Here, loop.ne)
    BY <1>1, <1>2, <2>2 DEF Healthy, Running
  <2> QED
    BY <1>1, <1>2, <2>1, <2>2, <2>3, <2>4, <2>6, <2>7, <2>8, SameIInv
<1> QED
  BY <1>4, <1>5

-----------------------------------------------------------------------------
\* The read loop.
LEMMA Reading ==
    ASSUME IInv, Running, rd.at # "idle"
    PROVE  /\ loop.pc = "dispatch" /\ Head(loop.ne).type = "READ" /\ loop.ne # <<>>
           /\ rd.id \in Sockets /\ rd.id # ListenId /\ rd.id = Head(loop.ne).id
           /\ rd \in ReadType /\ rd.nread \in Nat /\ rd.buf \in Nat /\ rd.step \in Nat
           /\ Base(Here) /\ Here \in States /\ SocksInv(net)
           /\ rd.c # -1 =>
                /\ rd.c \in Clients /\ Sound(Here, rd.c)
                /\ Open(net, rd.id) => gate.fi.slots[rd.id] = rd.c /\ gate.fi.slots[rd.id] # -1
                /\ gate.fi.slots[rd.id] = -1 => rd.id \in gone
           /\ rd.c = -1 => (Healthy => ~ OfGate(net.sock[rd.id]))
<1>1. /\ loop.pc = "dispatch" /\ rd \in ReadType /\ Base(Here) /\ ReadInv(Here, rd, loop.ne)
  BY DEF IInv
<1>2. Head(loop.ne).type = "READ" /\ rd.id = Head(loop.ne).id /\ loop.ne # <<>>
  BY <1>1 DEF ReadInv
<1>3. rd.id \in Sockets /\ rd.id # ListenId /\ Head(loop.ne).type # "INVALID"
  BY <1>1, <1>2, Dispatched
<1>4. rd.nread \in Nat /\ rd.buf \in Nat /\ rd.step \in Nat /\ rd.c \in Clients \cup {-1}
  BY <1>1, NetAssumption, GateAssumption DEF ReadType
<1>5. ASSUME rd.c # -1
      PROVE  /\ rd.c \in Clients /\ Sound(Here, rd.c)
             /\ Open(net, rd.id) => gate.fi.slots[rd.id] = rd.c /\ gate.fi.slots[rd.id] # -1
             /\ gate.fi.slots[rd.id] = -1 => rd.id \in gone
  <2>1. \/ gate.fi.slots[rd.id] = rd.c
        \/ /\ gate.fi.slots[rd.id] = -1 /\ gate.p[rd.c].status = "FREE"
           /\ rd.id \in gone /\ ~ Open(net, rd.id)
    BY <1>1, <1>5, HereIs, Zenon DEF ReadInv
  <2>2. CASE gate.fi.slots[rd.id] = rd.c
    <3>1. Sound(Here, gate.fi.slots[rd.id])
      BY <1>1, <1>3, <1>5, <2>2, ClientOf, HereIs
    <3> QED
      BY <1>4, <1>5, <2>2, <3>1
  <2>3. CASE gate.fi.slots[rd.id] # rd.c
    <3>1. Sound(Here, rd.c)
      BY <2>1, <2>3, HereIs DEF Sound
    <3> QED
      BY <1>4, <1>5, <2>1, <2>3, <3>1
  <2> QED
    BY <2>2, <2>3
<1>6. ASSUME rd.c = -1, Healthy PROVE ~ OfGate(net.sock[rd.id])
  <2>1. Head(loop.ne).ud = "node"
    BY <1>1, <1>6 DEF ReadInv
  <2>2. LinkedNow(Here, loop.ne) /\ loop.ne \in Seq(Messages)
    BY <1>1, <1>6, Dispatched
  <2>3. rd.id \in LinkReads(loop.ne)
    BY <1>2, <1>3, <2>1, <2>2, RestShifts DEF LinkReads
  <2> QED
    BY <2>2, <2>3, HereIs DEF LinkedNow, Linked
<1>7. Here \in States /\ SocksInv(net)
  BY <1>1, HereIs DEF Base
<1> QED
  BY <1>1, <1>2, <1>3, <1>4, <1>5, <1>6, <1>7

\* The socket that is read is closed: its client is disconnected, and the end of
\* the node link changes nothing of the gate's.
LEMMA ThrowKeeps ==
    ASSUME LowHeap, IInv, Running, rd.at # "idle", NextEvent, NEW t, Closed(net, t, rd.id),
           Becomes(ThrowErr([Here EXCEPT !.net = t]))
    PROVE  IInv'
<1> DEFINE u == [Here EXCEPT !.net = t]
<1>1. /\ loop.pc = "dispatch" /\ Head(loop.ne).type = "READ"
      /\ rd.id \in Sockets /\ Base(Here)
  BY Reading
<1>2. Closed(Here.net, t, rd.id)
  BY HereIs
<1>3. /\ u.gate = gate /\ u.gone = gone /\ Base(u) /\ Moved(Here, u)
      /\ \A E, A, N \in SUBSET Sockets : Linked(Here, E, A, N) /\ ~ OfGate(net.sock[rd.id]) => Linked(u, E, A, N)
  <2> DEFINE w == Here
             i == rd.id
  <2>1. u = [w EXCEPT !.net = t] /\ Base(w) /\ i \in Sockets /\ Closed(w.net, t, i)
    BY <1>1, <1>2
  <2> HIDE DEF u, w, i
  <2>2. /\ u.gate = w.gate /\ u.gone = w.gone
        /\ Base(u) /\ Moved(w, u)
        /\ \A E, A, N \in SUBSET Sockets : Linked(w, E, A, N) =>
             /\ Linked(u, E \cup {i}, A \ {i}, N)
             /\ ~ OfGate(w.net.sock[i]) => Linked(u, E, A, N)
    BY <2>1, CloseOnly
  <2> QED
    BY <2>2, HereIs DEF w, i
<1>4. CASE rd.c = -1
  <2>1. Becomes(u)
    BY <1>4 DEF ThrowErr
  <2>2. ASSUME Healthy PROVE LinkedNow(u, loop.ne)
    <3>1. ~ OfGate(net.sock[rd.id]) /\ LinkedNow(Here, loop.ne)
      BY <1>1, <1>4, <2>2, Reading, Dispatched
    <3> HIDE DEF u
    <3> QED
      BY <1>3, <3>1, SetsType DEF LinkedNow
  <2> HIDE DEF u
  <2> QED
    BY <1>1, <1>3, <2>1, <2>2, MovedStays, LinkedNext
<1>5. CASE rd.c # -1 /\ gate.fi.slots[rd.id] # -1
  <2> DEFINE v == OnSockerr(u, rd.id)
  <2>1. Becomes(v)
    BY <1>5 DEF ThrowErr
  <2>2. Ended(Here, v, rd.id)
    <3>1. Here.gate.fi.slots[rd.id] # -1
      BY <1>5, HereIs
    <3> QED
      BY <1>1, <1>2, <3>1, CloseEnds
  <2> HIDE DEF v
  <2> QED
    BY <1>1, <2>1, <2>2, GoodNext DEF Ended
<1>6. CASE rd.c # -1 /\ gate.fi.slots[rd.id] = -1
  <2> DEFINE v == Fail(u, "sockerr", rd.id)
  <2>1. rd.id \in gone
    BY <1>6, Reading
  <2>2. OnSockerr(u, rd.id) = v
    <3>1. sc_gate_getclient(u, rd.id) = -1
      <4> HIDE DEF u
      <4> QED
        BY <1>1, <1>3, <1>6, SlotsType DEF sc_gate_getclient
    <3> QED
      BY <3>1 DEF OnSockerr
  <2>3. ThrowErr(u) = v
    BY <1>6, <2>2 DEF ThrowErr
  <2> HIDE DEF u
  <2>4. Base(v) /\ v.gate.abort = "sockerr" /\ v.gate.culprit = rd.id /\ v.gone = gone
    <3>1. "sockerr" \in Asserts
      BY DEF Asserts
    <3>2. Base(v) /\ v.gate.abort = "sockerr" /\ v.gate.culprit = rd.id /\ v.gone = u.gone
      BY <1>1, <1>3, <3>1, FailBase
    <3> QED
      BY <1>3, <3>2
  <2> HIDE DEF v
  <2>5. Becomes(v)
    BY <2>3 DEF u
  <2>6. Here' = v /\ gate' = v.gate /\ gone' = v.gone
    BY <2>4, <2>5, BecomesHere DEF Base, Becomes
  <2>7. AbortCause' /\ ~ Running' /\ ~ Healthy'
    BY <2>1, <2>4, <2>6, FailCause
  <2> QED
    BY <1>1, <2>4, <2>6, <2>7, NextIInv
<1> QED
  BY <1>4, <1>5, <1>6

\* A read or a drop leaves the unread bytes to the read loop.
LEMMA SteadyHere ==
    ASSUME NEW w, Base(w), NEW i \in Sockets, NEW t, Steady(w.net, t, i),
           t.sock[i].mask = w.net.sock[i].mask, NEW v, v = [w EXCEPT !.net = t]
    PROVE  /\ v.net = t /\ v.gate = w.gate /\ v.gone = w.gone
           /\ Base(v) /\ Stays(w, v) /\ KeepsLinks(w, v)
           /\ \A j \in Sockets : Open(t, j) <=> Open(w.net, j)
<1>1. /\ v.net = t /\ v.gate = w.gate /\ v.gone = w.gone
      /\ Base(v) /\ KeepsLinks(w, v)
      /\ \A j \in Sockets : Open(t, j) <=> Open(w.net, j)
  BY SteadyNet
<1>2. Stays(w, v)
  BY <1>1 DEF Stays
<1> QED
  BY <1>1, <1>2

LEMMA ReadKeeps == ASSUME LowHeap, IInv, Running, ReadStep PROVE IInv'
<1> DEFINE t == net_read(net, rd.id, rd.force)
           result == ReadResult(net, rd.id, rd.force)
           w == [Here EXCEPT !.net = t]
           nread == w.net.sock[rd.id].rb
<1>1. rd.at = "read" /\ rd.at # "idle"
  BY DEF ReadStep
<1>2. /\ loop.pc = "dispatch" /\ Head(loop.ne).type = "READ" /\ loop.ne # <<>>
      /\ rd.id \in Sockets /\ rd.id # ListenId /\ rd \in ReadType
      /\ Base(Here) /\ Here \in States /\ SocksInv(net) /\ rd.force \in BOOLEAN
  BY <1>1, Reading DEF ReadType
<1>3. ReadAsserts(net, rd.id, rd.force)
  <2>1. net.sock[rd.id].rb \in Nat
    BY <1>2, NetAssumption DEF SocksInv, TableInv, NetType, SocketType
  <2>2. rd.force /\ Open(net, rd.id) => net.sock[rd.id].rb < MsgSize
    BY <1>1, HereIs DEF IInv, ReadInv
  <2> QED
    BY <1>2, <2>1, <2>2, NetAssumption, GateAssumption DEF ReadAsserts, AsksKernel
<1>4. IF result = "error" THEN Open(net, rd.id) /\ Closed(net, t, rd.id)
                          ELSE Steady(net, t, rd.id) /\ t.sock[rd.id].mask = net.sock[rd.id].mask
  BY <1>2, <1>3, ReadEffect
<1>5. \/ /\ result = "data" /\ Becomes(w)
         /\ rd' = [rd EXCEPT !.at = "handle", !.nread = nread, !.buf = nread]
         /\ UNCHANGED <<backlog, loop, mishaps, due>>
      \/ /\ result \in {"none", "error"} /\ NextEvent
         /\ Becomes(IF result = "error" THEN ThrowErr(w) ELSE w)
  BY <1>3, Zenon DEF ReadStep
<1> HIDE DEF t, result
<1>6. CASE result = "error"
  <2>1. NextEvent /\ Becomes(ThrowErr(w))
    BY <1>5, <1>6
  <2>2. Closed(net, t, rd.id)
    BY <1>4, <1>6
  <2> QED
    BY <1>1, <2>1, <2>2, ThrowKeeps
<1>7. CASE result # "error"
  <2>1. /\ w.net = t /\ w.gate = gate /\ w.gone = gone
        /\ Base(w) /\ Stays(Here, w) /\ KeepsLinks(Here, w)
        /\ \A j \in Sockets : Open(t, j) <=> Open(net, j)
    <3>1. Steady(Here.net, t, rd.id) /\ t.sock[rd.id].mask = Here.net.sock[rd.id].mask
      BY <1>4, <1>7, HereIs
    <3>2. /\ w.net = t /\ w.gate = Here.gate /\ w.gone = Here.gone
          /\ Base(w) /\ Stays(Here, w) /\ KeepsLinks(Here, w)
          /\ \A j \in Sockets : Open(t, j) <=> Open(Here.net, j)
      BY <1>2, <3>1, SteadyHere
    <3> HIDE DEF w
    <3> QED
      BY <3>2, HereIs
  <2>2. Healthy => LinkedNow(w, loop.ne)
    BY <1>2, <2>1, Dispatched, KeptNow
  <2>3. CASE result = "none"
    <3>1. NextEvent /\ Becomes(w)
      BY <1>5, <1>7, <2>3
    <3> HIDE DEF w
    <3> QED
      BY <1>2, <2>1, <2>2, <3>1, LinkedNext
  <2>4. CASE result = "data"
    <3>1. /\ Becomes(w) /\ rd' = [rd EXCEPT !.at = "handle", !.nread = nread, !.buf = nread]
          /\ UNCHANGED <<backlog, loop, mishaps, due>>
      BY <1>5, <2>4
    <3>2. nread = t.sock[rd.id].rb /\ nread \in 0 .. RBufferMax
      BY <1>2, <2>1 DEF Base, SocksInv, TableInv, NetType, SocketType
    <3> HIDE DEF w, nread
    <3>3. Here' = w /\ gate' = gate
      BY <2>1, <3>1, BecomesHere DEF Base, Becomes
    <3>4. AbortCause' /\ Running'
      BY <3>3, RunsOn
    <3>5. /\ rd' \in ReadType /\ rd'.at = "handle" /\ rd'.nread = nread /\ rd'.buf = nread
          /\ rd'.id = rd.id /\ rd'.c = rd.c
      BY <1>2, <3>1, <3>2 DEF ReadType
    <3>6. ReadInv(w, rd', loop.ne)
      <4>1. ReadInv(Here, rd, loop.ne)
        BY DEF IInv
      <4>2. nread <= nread
        BY <3>2, NetAssumption
      <4>3. rd.c # -1 =>
              \/ w.gate.fi.slots[rd.id] = rd.c
              \/ /\ w.gate.fi.slots[rd.id] = -1 /\ w.gate.p[rd.c].status = "FREE"
                 /\ rd.id \in w.gone /\ ~ Open(w.net, rd.id)
        BY <1>1, <1>2, <2>1, <4>1, HereIs, Zenon DEF ReadInv
      <4>4. Head(loop.ne).id = rd.id /\ (rd.c = -1 <=> Head(loop.ne).ud = "node")
        BY <1>1, <4>1 DEF ReadInv
      <4> QED
        BY <1>2, <2>1, <3>2, <3>5, <4>2, <4>3, <4>4 DEF ReadInv
    <3>7. Healthy' => LinkedNow(w, loop.ne)
      BY <2>2, <3>1 DEF Healthy
    <3> QED
      BY <1>2, <2>1, <3>1, <3>3, <3>4, <3>5, <3>6, <3>7, SameIInv
  <2> QED
    BY <1>5, <1>7, <2>3, <2>4
<1> QED
  BY <1>6, <1>7

\* While its messages are handled, the client of a read and its unread bytes stay
\* what they were, or the client leaves and its connection is closed.
LEMMA ReadOn ==
    ASSUME NEW w, NEW v, Base(w), Moved(w, v), NEW ne, NEW r \in ReadType, ReadInv(w, r, ne),
           r.at = "handle", NEW q \in ReadType, q.at = "handle",
           q.id = r.id, q.c = r.c, q.nread = r.nread, q.buf <= q.nread
    PROVE  ReadInv(v, q, ne)
<1>1. r.id \in Sockets /\ r.c \in Clients \cup {-1}
  BY DEF ReadType
<1>2. /\ ne # <<>> /\ Head(ne).type = "READ" /\ Head(ne).id = r.id
      /\ r.c = -1 <=> Head(ne).ud = "node"
      /\ Open(w.net, r.id) => w.net.sock[r.id].rb = r.nread
      /\ r.c # -1 =>
             \/ w.gate.fi.slots[r.id] = r.c
             \/ /\ w.gate.fi.slots[r.id] = -1 /\ w.gate.p[r.c].status = "FREE"
                /\ r.id \in w.gone /\ ~ Open(w.net, r.id)
  BY DEF ReadInv
<1>3. ASSUME r.c # -1
      PROVE  \/ v.gate.fi.slots[r.id] = r.c
             \/ /\ v.gate.fi.slots[r.id] = -1 /\ v.gate.p[r.c].status = "FREE"
                /\ r.id \in v.gone /\ ~ Open(v.net, r.id)
  <2>1. CASE w.gate.fi.slots[r.id] = r.c
    BY <1>1, <2>1, Zenon DEF Moved
  <2>2. CASE w.gate.fi.slots[r.id] # r.c
    <3>1. w.gate.fi.slots[r.id] = -1 /\ w.gate.p[r.c].status = "FREE"
          /\ r.id \in w.gone /\ ~ Open(w.net, r.id) /\ r.c \in Clients
      BY <1>1, <1>2, <1>3, <2>2
    <3>2. v.gate.p[r.c].status = "FREE" /\ ~ Open(v.net, r.id)
      BY <1>1, <3>1, Zenon DEF Moved
    <3>3. v.gate.fi.slots[r.id] = -1
      BY <1>1, <3>1, Zenon DEF Moved
    <3>4. r.id \in v.gone
      BY <3>1, Zenon DEF Moved
    <3> QED
      BY <3>2, <3>3, <3>4
  <2> QED
    BY <2>1, <2>2
<1>4. Open(v.net, r.id) => v.net.sock[r.id].rb = r.nread
  BY <1>1, <1>2, Zenon DEF Moved
<1> QED
  BY <1>2, <1>3, <1>4 DEF ReadInv

LEMMA HandledGood ==
    ASSUME LowHeap, IInv, Running, rd.at # "idle", NEW w \in Handled
    PROVE  Good(Here, w)
<1>1. Base(Here) /\ (rd.c # -1 => rd.c \in Clients /\ Sound(Here, rd.c))
  BY Reading
<1>2. CASE rd.c = -1
  <2>1. PICK cid \in Sockets, logout \in BOOLEAN, written \in -1 .. 1 :
            w = forward_nodemsg(Here, cid, logout, written)
    BY <1>2 DEF Handled
  <2> QED
    BY <1>1, <2>1, NodeGood
<1>3. CASE rd.c # -1
  <2>1. PICK um \in UserMessages, written \in -1 .. 1 : w = handlemsg(Here, rd.c, um, written)
    BY <1>3 DEF Handled
  <2> QED
    BY <1>1, <1>3, <2>1, MessageGood
<1> QED
  BY <1>2, <1>3

LEMMA HandleKeeps == ASSUME LowHeap, IInv, Running, HandleMessage PROVE IInv'
<1> DEFINE left == rd.buf - MsgSize
           q == [rd EXCEPT !.buf = left, !.step = rd.step + 1]
           sz == rd.nread - left
<1>1. rd.at = "handle" /\ rd.at # "idle" /\ rd.buf >= MsgSize
  BY DEF HandleMessage
<1>2. PICK w \in Handled :
          IF rd.step < StepMax
          THEN Becomes(w) /\ rd' = q /\ UNCHANGED <<backlog, loop, mishaps, due>>
          ELSE Becomes([w EXCEPT !.net = net_dropread(w.net, rd.id, sz)]) /\ NextEvent
  BY DEF HandleMessage
<1>3. /\ loop.pc = "dispatch" /\ Head(loop.ne).type = "READ" /\ loop.ne # <<>>
      /\ rd.id \in Sockets /\ rd.id # ListenId /\ rd \in ReadType
      /\ rd.nread \in Nat /\ rd.buf \in Nat /\ rd.step \in Nat
      /\ Base(Here) /\ SocksInv(net)
  BY <1>1, Reading
<1>4. /\ Good(Here, w) /\ Base(w) /\ Moved(Here, w) /\ KeepsLinks(Here, w)
      /\ Stays(Here, w) /\ w.gate.abort = gate.abort
  BY <1>1, HandledGood, MovedStays, HereIs DEF Good
<1>5. ReadInv(Here, rd, loop.ne) /\ rd.buf <= rd.nread
      /\ (Open(net, rd.id) => net.sock[rd.id].rb = rd.nread)
  BY <1>1, HereIs DEF IInv, ReadInv
<1>6. left \in Nat /\ left <= rd.nread /\ sz \in Nat /\ sz <= rd.nread
  BY <1>1, <1>3, <1>5, GateAssumption, NetAssumption
<1>7. Healthy => LinkedNow(w, loop.ne)
  BY <1>3, <1>4, Dispatched, KeptNow
<1>8. CASE rd.step < StepMax
  <2>1. Becomes(w) /\ rd' = q /\ UNCHANGED <<backlog, loop, mishaps, due>>
    BY <1>2, <1>8
  <2>2. q \in ReadType /\ q.at = "handle" /\ q.id = rd.id /\ q.c = rd.c /\ q.nread = rd.nread /\ q.buf = left
    <3>1. left \in 0 .. RBufferMax
      <4>1. rd.nread <= RBufferMax
        BY <1>3, NetAssumption DEF ReadType
      <4> QED
        BY <1>3, <1>6, <4>1, NetAssumption
    <3>2. rd.step + 1 \in 0 .. StepMax
      BY <1>3, <1>8, GateAssumption
    <3> HIDE DEF left
    <3> QED
      BY <1>1, <1>3, <3>1, <3>2 DEF ReadType
  <2> HIDE DEF q, left
  <2>3. ReadInv(w, q, loop.ne)
    BY <1>1, <1>3, <1>4, <1>5, <1>6, <2>2, ReadOn
  <2>4. Here' = w /\ gate' = w.gate
    BY <1>4, <2>1, BecomesHere DEF Base, Becomes
  <2>5. AbortCause' /\ Running'
    BY <1>4, <2>4, RunsOn
  <2>6. Healthy' => LinkedNow(w, loop.ne)
    BY <1>7, <2>1 DEF Healthy
  <2> QED
    BY <1>3, <1>4, <2>1, <2>2, <2>3, <2>4, <2>5, <2>6, SameIInv
<1>9. CASE ~ rd.step < StepMax
  <2> DEFINE t == net_dropread(w.net, rd.id, sz)
             v == [w EXCEPT !.net = t]
  <2>1. Becomes(v) /\ NextEvent
    BY <1>2, <1>9
  <2>2. Steady(w.net, t, rd.id) /\ t.sock[rd.id].mask = w.net.sock[rd.id].mask
    <3>1. SocksInv(w.net)
      BY <1>4 DEF Base
    <3>2. Open(w.net, rd.id) => sz <= w.net.sock[rd.id].rb
      <4>1. Open(w.net, rd.id) => Open(Here.net, rd.id) /\ w.net.sock[rd.id].rb = Here.net.sock[rd.id].rb
        BY <1>3, <1>4, Zenon DEF Moved
      <4> QED
        BY <1>5, <1>6, <4>1, HereIs
    <3> HIDE DEF sz
    <3> QED
      BY <1>3, <1>6, <3>1, <3>2, DropEffect
  <2>3. v = [w EXCEPT !.net = t]
    OBVIOUS
  <2> HIDE DEF t, v
  <2>4. v.gate = w.gate /\ Base(v) /\ Stays(w, v) /\ KeepsLinks(w, v)
    BY <1>3, <1>4, <2>2, <2>3, SteadyHere
  <2>5. Stays(Here, v) /\ v.gate.abort = gate.abort
    BY <1>4, <2>4 DEF Stays
  <2>6. Healthy => LinkedNow(v, loop.ne)
    BY <1>7, <2>4, KeptNow
  <2> QED
    BY <1>3, <2>1, <2>4, <2>5, <2>6, LinkedNext
<1> QED
  BY <1>8, <1>9

LEMMA BadKeeps == ASSUME LowHeap, IInv, Running, HandleBadMessage PROVE IInv'
<1> DEFINE t == net_close_socket(net, rd.id, TRUE)
<1>1. rd.at # "idle" /\ NextEvent /\ Becomes(ThrowErr([Here EXCEPT !.net = net_close_socket(@, rd.id, TRUE)]))
  BY DEF HandleBadMessage
<1>2. Becomes(ThrowErr([Here EXCEPT !.net = t]))
  <2>1. [Here EXCEPT !.net = net_close_socket(@, rd.id, TRUE)] = [Here EXCEPT !.net = t]
    BY HereIs
  <2> QED
    BY <1>1, <2>1
<1>3. Closed(net, t, rd.id)
  <2>1. rd.id \in Sockets /\ rd.id # ListenId /\ SocksInv(net)
    BY <1>1, Reading
  <2>2. ClosesNow(net, rd.id, TRUE)
    BY DEF ClosesNow
  <2> QED
    BY <2>1, <2>2, NetCloseEffect
<1> HIDE DEF t
<1> QED
  BY <1>1, <1>2, <1>3, ThrowKeeps

LEMMA EndKeeps == ASSUME LowHeap, IInv, Running, HandleEnd PROVE IInv'
<1> DEFINE drop == rd.nread - rd.buf
           t == net_dropread(net, rd.id, drop)
           v == [Here EXCEPT !.net = t]
           q == [rd EXCEPT !.at = "read", !.nread = 0, !.buf = 0, !.force = (drop = 0)]
<1>1. rd.at = "handle" /\ rd.at # "idle" /\ rd.buf < MsgSize
  BY DEF HandleEnd
<1>2. Becomes(v) /\ rd' = q /\ UNCHANGED <<backlog, loop, mishaps, due>>
  BY HereIs DEF HandleEnd
<1>3. /\ loop.pc = "dispatch" /\ Head(loop.ne).type = "READ" /\ loop.ne # <<>>
      /\ rd.id \in Sockets /\ rd.id # ListenId /\ rd \in ReadType
      /\ rd.nread \in Nat /\ rd.buf \in Nat /\ Base(Here) /\ SocksInv(net)
  BY <1>1, Reading
<1>4. ReadInv(Here, rd, loop.ne) /\ rd.buf <= rd.nread
      /\ (Open(net, rd.id) => net.sock[rd.id].rb = rd.nread)
  BY <1>1, HereIs DEF IInv, ReadInv
<1>5. drop \in Nat /\ drop <= rd.nread
  BY <1>3, <1>4
<1>6. /\ Steady(net, t, rd.id) /\ t.sock[rd.id].mask = net.sock[rd.id].mask
      /\ Open(net, rd.id) => t.sock[rd.id].rb = net.sock[rd.id].rb - drop
  <2>1. Open(net, rd.id) => drop <= net.sock[rd.id].rb
    BY <1>4, <1>5
  <2> HIDE DEF drop
  <2> QED
    BY <1>3, <1>5, <2>1, DropEffect
<1>7. q \in ReadType /\ q.at = "read" /\ q.id = rd.id /\ q.c = rd.c /\ (q.force => drop = 0)
  <2> DEFINE force == (drop = 0)
  <2>1. force \in BOOLEAN /\ 0 \in 0 .. RBufferMax
    BY NetAssumption
  <2> HIDE DEF force
  <2>2. q \in ReadType /\ q.at = "read" /\ q.id = rd.id /\ q.c = rd.c /\ q.force = force
    <3>1. q = [rd EXCEPT !.at = "read", !.nread = 0, !.buf = 0, !.force = force]
      BY DEF force
    <3> HIDE DEF q
    <3> QED
      BY <1>3, <2>1, <3>1 DEF ReadType
  <2> QED
    BY <2>2 DEF force
<1> HIDE DEF t, q
<1>8. v = [Here EXCEPT !.net = t]
  OBVIOUS
<1> HIDE DEF v
<1>9. /\ v.net = t /\ v.gate = gate /\ v.gone = gone
      /\ Base(v) /\ Stays(Here, v) /\ KeepsLinks(Here, v)
      /\ Open(t, rd.id) <=> Open(net, rd.id)
  <2>1. Steady(Here.net, t, rd.id) /\ t.sock[rd.id].mask = Here.net.sock[rd.id].mask
    BY <1>6, HereIs
  <2>2. /\ v.net = t /\ v.gate = Here.gate /\ v.gone = Here.gone
        /\ Base(v) /\ Stays(Here, v) /\ KeepsLinks(Here, v)
        /\ \A j \in Sockets : Open(t, j) <=> Open(Here.net, j)
    BY <1>3, <1>8, <2>1, SteadyHere
  <2> QED
    BY <1>3, <2>2, HereIs
<1>10. Here' = v /\ gate' = gate
  BY <1>2, <1>9, BecomesHere DEF Base, Becomes
<1>11. AbortCause' /\ Running'
  BY <1>10, RunsOn
<1>12. ReadInv(v, q, loop.ne)
  <2>1. q.force /\ Open(v.net, q.id) => v.net.sock[q.id].rb < MsgSize
    <3>1. ASSUME q.force, Open(v.net, q.id) PROVE v.net.sock[q.id].rb < MsgSize
      <4>1. drop = 0 /\ Open(net, rd.id) /\ v.net.sock[q.id].rb = net.sock[rd.id].rb - drop
        BY <1>6, <1>7, <1>9, <3>1
      <4>2. rd.buf = rd.nread /\ net.sock[rd.id].rb = rd.nread
        BY <1>3, <1>4, <4>1
      <4> QED
        BY <1>1, <1>3, <4>1, <4>2
    <3> QED
      BY <3>1
  <2>2. q.c # -1 =>
             \/ v.gate.fi.slots[q.id] = q.c
             \/ /\ v.gate.fi.slots[q.id] = -1 /\ v.gate.p[q.c].status = "FREE"
                /\ q.id \in v.gone /\ ~ Open(v.net, q.id)
    BY <1>1, <1>4, <1>7, <1>9, HereIs, Zenon DEF ReadInv
  <2>3. Head(loop.ne).id = q.id /\ (q.c = -1 <=> Head(loop.ne).ud = "node")
    BY <1>1, <1>4, <1>7 DEF ReadInv
  <2> QED
    BY <1>3, <1>7, <2>1, <2>2, <2>3 DEF ReadInv
<1>13. Healthy' => LinkedNow(v, loop.ne)
  <2>1. Healthy => LinkedNow(v, loop.ne)
    BY <1>3, <1>9, Dispatched, KeptNow
  <2> QED
    BY <1>2, <1>10, <2>1 DEF Healthy, Running
<1> QED
  BY <1>2, <1>3, <1>7, <1>9, <1>10, <1>11, <1>12, <1>13, SameIInv

-----------------------------------------------------------------------------
\* The timer, and the next turn of the loop.
LEMMA NoMessages == FreshAccepts(<<>>) /\ \A w : MsgsInv(<<>>, w)
<1>1. DOMAIN <<>> = {}
  OBVIOUS
<1> QED
  BY <1>1 DEF FreshAccepts, MsgsInv

LEMMA TimerIInv ==
    ASSUME IInv, Running, loop.pc \in {"timer", "poll"}, UNCHANGED <<loop, mishaps, rd>>,
           backlog' \in 0 .. MaxBacklog, due' \in 0 .. Cap, Base(Here'), AbortCause', Healthy' => LinkedNow(Here', loop.ne)
    PROVE  IInv'
<1>1. loop' = loop /\ backlog' \in 0 .. MaxBacklog /\ mishaps' = mishaps /\ rd' = rd
  OBVIOUS
<1>2. loop.ne = <<>> /\ LoopInv(net, loop) /\ rd.at = "idle"
  BY DEF IInv
<1>3. LoopInv(net', loop') /\ EventsInv(loop'.ev, Here')
  <2>1. loop.ev = <<>>
    BY <1>2 DEF LoopInv, LoopType
  <2> QED
    BY <1>1, <1>2, <2>1 DEF LoopInv, EventsInv
<1>4. MsgsInv(loop'.ne, Here') /\ FreshAccepts(loop'.ne)
  BY <1>1, <1>2, NoMessages
<1>5. ReadInv(Here', rd', loop'.ne)
  BY <1>1, <1>2 DEF ReadInv
<1>6. Healthy' => Linked(Here', Ends(loop'.ne), Accepts(loop'.ne), LinkReads(loop'.ne))
  BY <1>1 DEF LinkedNow
<1>7. /\ backlog' \in 0 .. MaxBacklog /\ mishaps' \subseteq {"lost", "reused"} /\ rd' \in ReadType
      /\ rd'.at = "idle" /\ loop'.pc \in {"poll", "timer"} => loop'.ne = <<>>
  BY <1>1, <1>2 DEF IInv
<1> QED
  BY <1>3, <1>4, <1>5, <1>6, <1>7 DEF IInv

\* A client the id table does not know by its connection: the assert fails.
LEMMA DisconnFails ==
    ASSUME NEW w, Base(w), NEW c \in Clients, ~ Sound(w, c)
    PROVE  LET v == sc_gate_disconnclient(w, c, TRUE)
           IN Base(v) /\ v.gate.abort = "disconn" /\ ~ Sound(v, c)
<1> DEFINE i == w.gate.p[c].connid
           t == net_close_socket(w.net, i, TRUE)
           cut == [w EXCEPT !.net = t]
           v == Fail(cut, "disconn", i)
<1>1. /\ w.gate.p[c].status # "FREE" /\ w.gate.fi.slots[i] # c
      /\ i \in Sockets /\ i # ListenId /\ SocksInv(w.net)
  BY DEF Sound, Base, ClientsInv, GateType, ClientType
<1>2. freeid_find(w.gate.fi, i) # c /\ ClosesNow(w.net, i, TRUE)
  <2> HIDE DEF i
  <2> QED
    BY <1>1, SlotsType DEF ClosesNow
<1>3. sc_gate_disconnclient(w, c, TRUE) = v
  BY <1>1, <1>2 DEF sc_gate_disconnclient
<1>4. Closed(w.net, t, i)
  <2> HIDE DEF i
  <2> QED
    BY <1>1, <1>2, NetCloseEffect
<1>5. cut = [w EXCEPT !.net = t]
  OBVIOUS
<1> HIDE DEF t, cut, i
<1>6. cut.gate = w.gate /\ Base(cut)
  BY <1>1, <1>4, <1>5, CloseOnly
<1>7. Base(v) /\ v.gate.abort = "disconn"
  <2>1. "disconn" \in Asserts
    BY DEF Asserts
  <2> QED
    BY <1>1, <1>6, <2>1, FailBase
<1>8. v.gate.p = w.gate.p /\ v.gate.fi = w.gate.fi
  <2>1. cut \in States /\ cut.gate \in GateType
    BY <1>6 DEF Base, ClientsInv
  <2>2. v.gate = [cut.gate EXCEPT !.abort = "disconn", !.culprit = i]
    BY <2>1 DEF Fail, States
  <2> HIDE DEF v
  <2> QED
    BY <1>6, <2>1, <2>2 DEF GateType
<1> HIDE DEF v
<1>9. ~ Sound(v, c)
  BY <1>1, <1>8 DEF Sound, i
<1> QED
  BY <1>3, <1>7, <1>9

LEMMA TimerKeeps == ASSUME LowHeap, IInv, Running, gate_time PROVE IInv'
<1>0. loop.pc \in {"timer", "poll"} /\ UNCHANGED <<loop, mishaps, rd>> /\ backlog' \in 0 .. MaxBacklog
  BY DEF gate_time, IInv
<1> DEFINE c == due
           client == gate.p[due]
           told == IF client.status = "LOGINED" THEN forward_net(Here, due) ELSE Here
           off == sc_gate_disconnclient(told, due, TRUE)
<1>1. /\ loop.pc = "timer" /\ due < Cap /\ due' = due + 1 /\ UNCHANGED <<backlog, loop, mishaps, rd>>
      /\ Becomes(IF TimedOut(client) THEN off ELSE Here)
  BY DEF gate_time
<1>2. due \in Clients /\ due' \in 0 .. Cap /\ Base(Here) /\ (Healthy => LinkedNow(Here, loop.ne))
  <2>1. due \in 0 .. Cap /\ Base(Here) /\ (Healthy => LinkedNow(Here, loop.ne))
    BY DEF IInv, LinkedNow
  <2> QED
    BY <1>1, <2>1, FreeidAssumption DEF Clients, Ids
<1>3. CASE ~ TimedOut(client)
  <2>1. Becomes(Here)
    BY <1>1, <1>3
  <2>2. Here' = Here /\ gate' = gate
    BY <1>2, <2>1, BecomesHere DEF Base, Becomes, Here
  <2>3. AbortCause' /\ Running'
    BY <2>2, RunsOn
  <2>4. Healthy' => LinkedNow(Here', loop.ne)
    BY <1>1, <1>2, <2>2 DEF Healthy
  <2> QED
    BY <1>1, <1>2, <2>2, <2>3, <2>4, <1>0, TimerIInv
<1>4. CASE TimedOut(client) /\ Sound(Here, due)
  <2>1. Good(Here, told)
    <3>1. Good(Here, forward_net(Here, due))
      BY <1>2, <1>4, Disconn DEF forward_net
    <3> QED
      BY <1>2, <3>1, GoodSame
  <2> HIDE DEF told
  <2>2. Base(told) /\ Moved(Here, told)
    BY <2>1 DEF Good
  <2>3. Good(told, off)
    BY <1>2, <1>4, <2>2, SoundMoved, Disconn
  <2>4. Becomes(off)
    BY <1>1, <1>4
  <2> HIDE DEF off
  <2>5. Base(off) /\ off.gate.abort = gate.abort /\ KeepsLinks(Here, off)
    <3>1. Good(Here, off)
      BY <1>2, <2>1, <2>3, GoodThen
    <3> QED
      BY <3>1, HereIs DEF Good
  <2>6. Here' = off /\ gate' = off.gate
    BY <2>4, <2>5, BecomesHere DEF Base, Becomes
  <2>7. AbortCause' /\ Running'
    BY <2>5, <2>6, RunsOn
  <2>8. Healthy' => LinkedNow(Here', loop.ne)
    BY <1>1, <1>2, <2>5, <2>6, KeptNow DEF Healthy
  <2> QED
    BY <1>1, <1>2, <2>5, <2>6, <2>7, <2>8, <1>0, TimerIInv
<1>5. CASE TimedOut(client) /\ ~ Sound(Here, due)
  <2>1. mishaps # {}
    <3>1. SUFFICES ASSUME Healthy PROVE FALSE
      BY DEF Healthy
    <3>2. ClientLinked(Here, Ends(loop.ne), due)
      BY <1>2, <3>1 DEF LinkedNow, Linked
    <3> QED
      BY <1>5, <3>2 DEF ClientLinked, Sound
  <2>2. Base(told) /\ ~ Sound(told, due)
    <3>1. Base(forward_net(Here, due)) /\ ~ Sound(forward_net(Here, due), due)
      BY <1>2, <1>5, DisconnFails DEF forward_net
    <3> QED
      BY <1>2, <1>5, <3>1
  <2> HIDE DEF told
  <2>3. Base(off) /\ off.gate.abort = "disconn"
    BY <1>2, <2>2, DisconnFails
  <2>4. Becomes(off)
    BY <1>1, <1>5
  <2> HIDE DEF off
  <2>5. Here' = off /\ gate' = off.gate
    BY <2>3, <2>4, BecomesHere DEF Base, Becomes
  <2>6. mishaps' # {} /\ gate'.abort = "disconn" /\ gate'.abort # "none"
    BY <1>1, <2>1, <2>3, <2>5
  <2>7. AbortCause' /\ ~ Healthy'
    BY <2>6 DEF AbortCause, Healthy
  <2> QED
    BY <1>1, <1>2, <2>3, <2>5, <2>7, <1>0, TimerIInv
<1> QED
  BY <1>3, <1>4, <1>5

LEMMA TimerDoneKeeps == ASSUME IInv, Running, TimerDone PROVE IInv'
<1>1. /\ loop.pc = "timer" /\ loop' = [loop EXCEPT !.pc = "poll"]
      /\ UNCHANGED <<net, backlog, mishaps, gate, rd, due, gone>>
  BY DEF TimerDone
<1>2. loop.ne = <<>> /\ LoopInv(net, loop) /\ rd.at = "idle" /\ loop \in LoopType
  BY <1>1 DEF IInv, LoopInv
<1>3. loop' \in LoopType /\ loop'.ne = loop.ne /\ loop'.ev = loop.ev /\ loop'.pc = "poll"
  BY <1>1, <1>2 DEF LoopType
<1>4. loop.ev = <<>>
  BY <1>1, <1>2 DEF LoopInv
<1>5. Here' = Here
  BY <1>1 DEF Here
<1>6. LoopInv(net', loop') /\ EventsInv(loop'.ev, Here')
  BY <1>2, <1>3, <1>4 DEF LoopInv, EventsInv
<1>7. MsgsInv(loop'.ne, Here') /\ FreshAccepts(loop'.ne)
  BY <1>2, <1>3, NoMessages
<1>8. ReadInv(Here', rd', loop'.ne)
  BY <1>1, <1>2 DEF ReadInv
<1>9. Healthy' => Linked(Here', Ends(loop'.ne), Accepts(loop'.ne), LinkReads(loop'.ne))
  BY <1>1, <1>3, <1>5 DEF IInv, Healthy, Running
<1>10. /\ Base(Here') /\ backlog' \in 0 .. MaxBacklog /\ mishaps' \subseteq {"lost", "reused"} /\ rd' \in ReadType
       /\ due' \in 0 .. Cap /\ rd'.at = "idle" /\ loop'.ne = <<>>
  BY <1>1, <1>2, <1>3, <1>5 DEF IInv
<1>11. AbortCause'
  BY <1>1 DEF AbortCause, Running
<1> QED
  BY <1>6, <1>7, <1>8, <1>9, <1>10, <1>11 DEF IInv

-----------------------------------------------------------------------------
\* net_poll.  A new connection has the events of nobody yet.
LEMMA CreateEffect ==
    ASSUME NEW t, SocksInv(t), t.free_socket # NIL, NEW ud \in Services,
           NEW status \in {"LISTENING", "CONNECTED"}
    PROVE  LET u == create_socket(t, status, ud)
               i == t.free_socket
           IN /\ TableInv(u) /\ Others(t, u, i)
              /\ i \in Sockets /\ ~ Open(t, i) /\ i # ListenId
              /\ u.sock[i].status = status /\ u.sock[i].ud = ud /\ u.sock[i].mask = {}
<1> DEFINE u == create_socket(t, status, ud)
           i == t.free_socket
           s == Made(t.sock[i], status, ud)
           next == IF t.sock[i].fd >= 0 THEN t.sock[i].fd ELSE NIL
<1>1. TableInv(t)
  BY DEF SocksInv
<1>2. TableInv(u) /\ i \in Sockets /\ ~ Open(t, i) /\ u.sock[i] = s
  BY <1>1, CreateKeeps
<1>3. i # ListenId
  BY <1>2, TableConstants DEF SocksInv, Open
<1>4. s.status = status /\ s.ud = ud /\ s.mask = {}
  <2>1. Clean(t.sock[i]) /\ t.sock[i] \in SocketType
    BY <1>1, <1>2 DEF TableInv, SockInv, Open
  <2> QED
    BY <2>1 DEF Made, Clean, SocketType
<1>5. t = [sock |-> t.sock, free_socket |-> t.free_socket, tail_socket |-> t.tail_socket]
      /\ t.sock \in [Sockets -> SocketType]
  BY <1>1 DEF TableInv, NetType
<1>6. u = [t EXCEPT !.free_socket = next, !.sock[i] = s]
  BY DEF create_socket, Made
<1> HIDE DEF s, next
<1>7. u.sock = [t.sock EXCEPT ![i] = s]
  <2> HIDE DEF u, i
  <2> QED
    BY <1>5, <1>6
<1> HIDE DEF u, i
<1>8. \A j \in Sockets : j # i => u.sock[j] = t.sock[j]
  BY <1>5, <1>7
<1>9. Others(t, u, i)
  BY <1>8, Zenon DEF Others, Same
<1> QED
  BY <1>2, <1>3, <1>4, <1>9 DEF u, i

LEMMA FlushEffect ==
    ASSUME NEW t, SocksInv(t), NEW i \in Sockets, i # ListenId, Open(t, i),
           NEW k \in 0 .. t.sock[i].head, ~ (t.sock[i].status = "HALFCLOSE" /\ k = t.sock[i].head)
    PROVE  Steady(t, send_buffer(t, i, k), i)
<1> DEFINE u == send_buffer(t, i, k)
           s == Flushed(t.sock[i], k)
<1>1. TableInv(t) /\ t.sock[i].status \in {"CONNECTED", "HALFCLOSE"} /\ t.sock[i] \in SocketType
  BY DEF SocksInv, Open, TableInv, NetType
<1>2. TableInv(u)
  <2>1. Touches(t, u, i)
    BY <1>1, FlushTouches
  <2> QED
    BY <2>1 DEF Touches
<1>3. u = [t EXCEPT !.sock[i] = s]
  BY DEF send_buffer
<1>4. s.status = t.sock[i].status /\ s.ud = t.sock[i].ud
  <2> DEFINE mask == IF k > 0 /\ k = t.sock[i].head THEN t.sock[i].mask \ {"W"} ELSE t.sock[i].mask
  <2>1. s = [t.sock[i] EXCEPT !.head = t.sock[i].head - k, !.wbuffersz = t.sock[i].wbuffersz - k, !.mask = mask]
    BY DEF Flushed
  <2> HIDE DEF mask, s
  <2> QED
    BY <1>1, <2>1 DEF SocketType
<1> HIDE DEF u, s
<1>5. Steady(t, u, i)
  BY <1>2, <1>3, <1>4, SteadyUpdate
<1> QED
  BY <1>5 DEF u

\* A connection is accepted: it waits for the gate to hear of it.
LEMMA CreateJoins ==
    ASSUME NEW w, Base(w), NEW u, NEW i \in Sockets, TableInv(u), Others(w.net, u, i),
           ~ Open(w.net, i), i # ListenId,
           u.sock[i].status = "CONNECTED", u.sock[i].ud = "gate", u.sock[i].mask = {},
           NEW v, v = [w EXCEPT !.net = u]
    PROVE  /\ v.net = u /\ v.gate = w.gate /\ v.gone = w.gone /\ Base(v)
           /\ \A E, A, N \in SUBSET Sockets :
                Linked(w, E, A, N) /\ i \notin E /\ i \notin N => Linked(v, E, A \cup {i}, N)
<1>1. /\ SocksInv(w.net) /\ ServedInv(w.net, w.gate.fi.slots) /\ w \in States
      /\ u \in NetType /\ "gate" \in Services
  BY GateAssumption DEF Base, TableInv
<1>2. SocksInv(u)
  BY <1>1, SocksFrom
<1>3. v \in States /\ v.net = u /\ v.gate = w.gate /\ v.gone = w.gone
  BY <1>1, OnlyNet
<1>4. \A j \in Sockets : j # i => Same(u.sock[j], w.net.sock[j])
  BY DEF Others
<1>5. ServedInv(u, w.gate.fi.slots)
  <2> SUFFICES ASSUME NEW j \in Sockets, OfGate(u.sock[j]), u.sock[j].mask # {}
               PROVE  w.gate.fi.slots[j] # -1
    BY DEF ServedInv
  <2>1. j # i
    OBVIOUS
  <2>2. OfGate(w.net.sock[j]) /\ w.net.sock[j].mask # {}
    BY <1>4, <2>1, Zenon DEF Same, OfGate
  <2> QED
    BY <1>1, <2>2, Zenon DEF ServedInv
<1>6. Base(v)
  BY <1>2, <1>3, <1>5, Zenon DEF Base
<1>7. ASSUME NEW E \in SUBSET Sockets, NEW A \in SUBSET Sockets, NEW N \in SUBSET Sockets,
             Linked(w, E, A, N), i \notin E, i \notin N
      PROVE  Linked(v, E, A \cup {i}, N)
  <2>0. ~ OfGate(w.net.sock[i])
    BY DEF Open, OfGate
  <2>1. \A j \in Sockets : j # i => /\ u.sock[j].status = w.net.sock[j].status /\ u.sock[j].ud = w.net.sock[j].ud
                                    /\ OfGate(u.sock[j]) <=> OfGate(w.net.sock[j])
    BY <1>4, Zenon DEF Same, OfGate
  <2>2. \A c \in Clients : w.gate.p[c].status # "FREE" =>
            w.gate.p[c].connid # i /\ w.gate.p[c].connid \in Sockets
    <3> SUFFICES ASSUME NEW c \in Clients, w.gate.p[c].status # "FREE"
                 PROVE  w.gate.p[c].connid # i /\ w.gate.p[c].connid \in Sockets
      OBVIOUS
    <3>1. ClientLinked(w, E, c)
      BY <1>7, Zenon DEF Linked
    <3>2. w.gate.p[c].connid # i
      BY <1>7, <2>0, <3>1, Zenon DEF ClientLinked
    <3>3. w.gate.p[c].connid \in Sockets
      BY DEF Base, ClientsInv, GateType, ClientType
    <3> QED
      BY <3>2, <3>3
  <2>3. ASSUME NEW c \in Clients PROVE ClientLinked(v, E, c)
    <3>1. ClientLinked(w, E, c)
      BY <1>7, Zenon DEF Linked
    <3>2. CASE w.gate.p[c].status = "FREE"
      BY <1>3, <3>2 DEF ClientLinked
    <3>3. CASE w.gate.p[c].status # "FREE"
      <4> DEFINE k == w.gate.p[c].connid
      <4>1. k \in Sockets /\ k # i
        BY <2>2, <3>3
      <4>2. u.sock[k].status = w.net.sock[k].status /\ (OfGate(u.sock[k]) <=> OfGate(w.net.sock[k]))
        <5> HIDE DEF k
        <5> QED
          BY <2>1, <4>1, Zenon
      <4> QED
        BY <1>3, <3>1, <3>3, <4>2, Zenon DEF ClientLinked
    <3> QED
      BY <3>2, <3>3
  <2>4. ASSUME NEW j \in Sockets PROVE SocketLinked(v, A \cup {i}, j)
    <3>1. SocketLinked(w, A, j)
      BY <1>7, Zenon DEF Linked
    <3> QED
      BY <1>3, <2>1, <3>1 DEF SocketLinked
  <2>5. w.gate.fi.slots[i] = -1
    <3> SUFFICES ASSUME w.gate.fi.slots[i] # -1 PROVE FALSE
      OBVIOUS
    <3> DEFINE c == w.gate.fi.slots[i]
    <3>1. c \in Clients /\ w.gate.p[c].status # "FREE" /\ w.gate.p[c].connid = i
      BY ClientOf
    <3> HIDE DEF c
    <3> QED
      BY <2>2, <3>1
  <2>6. ASSUME NEW j \in A \cup {i} PROVE AcceptLinked(v, j)
    <3>1. CASE j = i
      BY <1>3, <2>5, <3>1 DEF AcceptLinked
    <3>2. CASE j # i
      <4>1. AcceptLinked(w, j) /\ j \in Sockets
        BY <1>7, <2>6, <3>2 DEF Linked
      <4> QED
        BY <1>3, <2>1, <3>2, <4>1, Zenon DEF AcceptLinked
    <3> QED
      BY <3>1, <3>2
  <2>7. ASSUME NEW j \in N PROVE ~ OfGate(v.net.sock[j])
    <3>1. ~ OfGate(w.net.sock[j]) /\ j \in Sockets /\ j # i
      BY <1>7 DEF Linked
    <3> QED
      BY <1>3, <2>1, <3>1, Zenon
  <2> QED
    BY <2>3, <2>4, <2>6, <2>7, Zenon DEF Linked
<1> QED
  BY <1>3, <1>6, <1>7

\* What one message adds to the sets.
EndOf(m) == {i \in Sockets : i = m.id /\ m.type \in {"SOCKERR", "WRIDONECLOSE"} /\ m.ud = "gate"}
AcceptOf(m) == {i \in Sockets : i = m.id /\ m.type = "ACCEPT"}
LinkReadOf(m) == {i \in Sockets : i = m.id /\ m.type = "READ" /\ m.ud = "node"}

MsgOK(m, w) ==
    m.type # "INVALID" =>
        /\ m.type \in {"READ", "ACCEPT", "SOCKERR", "WRIDONECLOSE"}
        /\ m.id \in Sockets \ {ListenId} /\ m.ud \in Services
        /\ m.type # "ACCEPT" /\ m.ud = "gate" => w.gate.fi.slots[m.id] # -1 \/ m.id \in w.gone

LEMMA AppendSets ==
    ASSUME NEW ne \in Seq(Messages), NEW m \in Messages
    PROVE  LET n == Append(ne, m)
           IN /\ n \in Seq(Messages)
              /\ Ends(n) = Ends(ne) \cup EndOf(m)
              /\ Accepts(n) = Accepts(ne) \cup AcceptOf(m)
              /\ LinkReads(n) = LinkReads(ne) \cup LinkReadOf(m)
              /\ FreshAccepts(ne) /\ ~ Reuses(ne, m) => FreshAccepts(n)
              /\ \A w : MsgsInv(ne, w) /\ MsgOK(m, w) => MsgsInv(n, w)
<1> DEFINE n == Append(ne, m)
           L == Len(ne) + 1
<1>1. /\ n \in Seq(Messages) /\ L \in DOMAIN n /\ n[L] = m
      /\ \A k \in DOMAIN ne : k \in DOMAIN n /\ n[k] = ne[k]
      /\ \A k \in DOMAIN n : k = L \/ k \in DOMAIN ne
      /\ \A k \in DOMAIN ne : k \in Nat /\ k < L
      /\ L \in Nat
  OBVIOUS
<1> HIDE DEF n, L
<1>2. Ends(n) = Ends(ne) \cup EndOf(m)
  <2>1. ASSUME NEW i \in Sockets PROVE i \in Ends(n) <=> i \in Ends(ne) \cup EndOf(m)
    <3>1. ASSUME i \in Ends(n) PROVE i \in Ends(ne) \cup EndOf(m)
      <4>1. PICK k \in DOMAIN n : n[k].type \in {"SOCKERR", "WRIDONECLOSE"} /\ n[k].ud = "gate" /\ n[k].id = i
        BY <3>1 DEF Ends
      <4> QED
        BY <1>1, <4>1, Zenon DEF Ends, EndOf
    <3>2. ASSUME i \in Ends(ne) PROVE i \in Ends(n)
      BY <1>1, <3>2, Zenon DEF Ends
    <3>3. ASSUME i \in EndOf(m) PROVE i \in Ends(n)
      BY <1>1, <3>3, Zenon DEF Ends, EndOf
    <3> QED
      BY <3>1, <3>2, <3>3
  <2>2. Ends(n) \subseteq Sockets /\ Ends(ne) \subseteq Sockets /\ EndOf(m) \subseteq Sockets
    BY DEF Ends, EndOf
  <2> QED
    BY <2>1, <2>2
<1>3. Accepts(n) = Accepts(ne) \cup AcceptOf(m)
  <2>1. ASSUME NEW i \in Sockets PROVE i \in Accepts(n) <=> i \in Accepts(ne) \cup AcceptOf(m)
    <3>1. ASSUME i \in Accepts(n) PROVE i \in Accepts(ne) \cup AcceptOf(m)
      <4>1. PICK k \in DOMAIN n : n[k].type = "ACCEPT" /\ n[k].id = i
        BY <3>1 DEF Accepts
      <4> QED
        BY <1>1, <4>1, Zenon DEF Accepts, AcceptOf
    <3>2. ASSUME i \in Accepts(ne) PROVE i \in Accepts(n)
      BY <1>1, <3>2, Zenon DEF Accepts
    <3>3. ASSUME i \in AcceptOf(m) PROVE i \in Accepts(n)
      BY <1>1, <3>3, Zenon DEF Accepts, AcceptOf
    <3> QED
      BY <3>1, <3>2, <3>3
  <2>2. Accepts(n) \subseteq Sockets /\ Accepts(ne) \subseteq Sockets /\ AcceptOf(m) \subseteq Sockets
    BY DEF Accepts, AcceptOf
  <2> QED
    BY <2>1, <2>2
<1>4. LinkReads(n) = LinkReads(ne) \cup LinkReadOf(m)
  <2>1. ASSUME NEW i \in Sockets PROVE i \in LinkReads(n) <=> i \in LinkReads(ne) \cup LinkReadOf(m)
    <3>1. ASSUME i \in LinkReads(n) PROVE i \in LinkReads(ne) \cup LinkReadOf(m)
      <4>1. PICK k \in DOMAIN n : n[k].type = "READ" /\ n[k].ud = "node" /\ n[k].id = i
        BY <3>1 DEF LinkReads
      <4> QED
        BY <1>1, <4>1, Zenon DEF LinkReads, LinkReadOf
    <3>2. ASSUME i \in LinkReads(ne) PROVE i \in LinkReads(n)
      BY <1>1, <3>2, Zenon DEF LinkReads
    <3>3. ASSUME i \in LinkReadOf(m) PROVE i \in LinkReads(n)
      BY <1>1, <3>3, Zenon DEF LinkReads, LinkReadOf
    <3> QED
      BY <3>1, <3>2, <3>3
  <2>2. LinkReads(n) \subseteq Sockets /\ LinkReads(ne) \subseteq Sockets /\ LinkReadOf(m) \subseteq Sockets
    BY DEF LinkReads, LinkReadOf
  <2> QED
    BY <2>1, <2>2
<1>5. ASSUME FreshAccepts(ne), ~ Reuses(ne, m) PROVE FreshAccepts(n)
  <2> SUFFICES ASSUME NEW j \in DOMAIN n, NEW k \in DOMAIN n, j < k, n[k].type = "ACCEPT"
               PROVE  n[j].id # n[k].id
    BY DEF FreshAccepts
  <2>1. j \in DOMAIN ne
    BY <1>1
  <2>2. CASE k \in DOMAIN ne
    BY <1>1, <1>5, <2>1, <2>2, Zenon DEF FreshAccepts
  <2>3. CASE k = L
    BY <1>1, <1>5, <2>1, <2>3, Zenon DEF Reuses
  <2> QED
    BY <1>1, <2>2, <2>3
<1>6. ASSUME NEW w, MsgsInv(ne, w), MsgOK(m, w) PROVE MsgsInv(n, w)
  <2> SUFFICES ASSUME NEW k \in DOMAIN n PROVE MsgOK(n[k], w)
    BY Zenon DEF MsgsInv, MsgOK
  <2>1. CASE k = L
    BY <1>1, <1>6, <2>1
  <2>2. CASE k \in DOMAIN ne
    BY <1>1, <1>6, <2>2, Zenon DEF MsgsInv, MsgOK
  <2> QED
    BY <1>1, <2>1, <2>2
<1> QED
  BY <1>1, <1>2, <1>3, <1>4, <1>5, <1>6, Zenon DEF n

\* _dispatch sees the first c messages only.
LEMMA CutSets ==
    ASSUME NEW n \in Seq(Messages), NEW c \in 0 .. Len(n)
    PROVE  LET r == SubSeq(n, 1, c)
           IN /\ FreshAccepts(n) => FreshAccepts(r)
              /\ \A w : MsgsInv(n, w) => MsgsInv(r, w)
              /\ Accepts(r) \subseteq Accepts(n) /\ LinkReads(r) \subseteq LinkReads(n)
              /\ (\A k \in c + 1 .. Len(n) : n[k].type \in {"INVALID", "READ"}) =>
                   Ends(n) \subseteq Ends(r) /\ Accepts(n) \subseteq Accepts(r)
              /\ c = 0 => r = <<>>
<1> DEFINE r == SubSeq(n, 1, c)
<1>1. /\ c \in Nat /\ Len(n) \in Nat /\ r \in Seq(Messages)
      /\ \A k \in DOMAIN r : k \in DOMAIN n /\ k \in Nat /\ r[k] = n[k]
      /\ \A k \in DOMAIN n : k \in DOMAIN r \/ k \in c + 1 .. Len(n)
      /\ c = 0 => r = <<>>
  <2>1. c \in Nat /\ Len(n) \in Nat /\ c <= Len(n) /\ DOMAIN n = 1 .. Len(n)
    OBVIOUS
  <2>2. r \in Seq(Messages) /\ Len(r) = c /\ DOMAIN r = 1 .. c /\ \A k \in 1 .. c : r[k] = n[k]
    BY <2>1
  <2> HIDE DEF r
  <2>3. c = 0 => r = <<>>
    BY <2>2
  <2> QED
    BY <2>1, <2>2, <2>3
<1> HIDE DEF r
<1>2. FreshAccepts(n) => FreshAccepts(r)
  BY <1>1, Zenon DEF FreshAccepts
<1>3. ASSUME NEW w, MsgsInv(n, w) PROVE MsgsInv(r, w)
  <2> SUFFICES ASSUME NEW k \in DOMAIN r PROVE MsgOK(r[k], w)
    BY Zenon DEF MsgsInv, MsgOK
  <2> QED
    BY <1>1, <1>3, Zenon DEF MsgsInv, MsgOK
<1>4. Accepts(r) \subseteq Accepts(n) /\ LinkReads(r) \subseteq LinkReads(n)
  BY <1>1 DEF Accepts, LinkReads
<1>5. ASSUME \A k \in c + 1 .. Len(n) : n[k].type \in {"INVALID", "READ"}
      PROVE  Ends(n) \subseteq Ends(r) /\ Accepts(n) \subseteq Accepts(r)
  <2>1. \A k \in DOMAIN n : n[k].type \in {"SOCKERR", "WRIDONECLOSE", "ACCEPT"} => k \in DOMAIN r /\ r[k] = n[k]
    BY <1>1, <1>5
  <2> QED
    BY <2>1 DEF Ends, Accepts
<1> QED
  BY <1>1, <1>2, <1>3, <1>4, <1>5, Zenon DEF r

\* The head event is handled: the sockets of the others are what they were.
LEMMA BuildIInv ==
    ASSUME IInv, Running, loop.pc = "build", NEW m \in Messages, Build(m),
           UNCHANGED <<gate, rd, due, gone>>, backlog' \in 0 .. MaxBacklog, Base(Here'),
           \A j \in Sockets : j # Head(loop.ev).id /\ Open(net, j) => Same(net'.sock[j], net.sock[j]),
           MsgOK(m, Here),
           Healthy /\ ~ Reuses(loop.ne, m) =>
               Linked(Here', Ends(loop.ne) \cup EndOf(m), Accepts(loop.ne) \cup AcceptOf(m),
                      LinkReads(loop.ne) \cup LinkReadOf(m))
    PROVE  IInv'
<1> DEFINE ne == loop.ne
           n == Append(ne, m)
           c == nevent(n)
           r == SubSeq(n, 1, c)
<1>1. /\ loop \in LoopType /\ loop.ev \in Seq(Events) /\ loop.ev # <<>> /\ ne \in Seq(Messages)
      /\ LoopInv(net, loop) /\ EventsInv(loop.ev, Here) /\ rd.at = "idle"
      /\ mishaps \subseteq {"lost", "reused"} /\ MsgsInv(ne, Here)
  BY DEF IInv, LoopInv, LoopType
<1>2. gate' = gate /\ gone' = gone /\ rd' = rd /\ due' = due
  OBVIOUS
<1>3. LoopInv(net', loop') /\ mishaps' \subseteq {"lost", "reused"}
  <2>1. \A j \in Sockets : j # Head(loop.ev).id /\ Open(net, j) => Open(net', j)
    BY DEF Same, Open
  <2> QED
    BY <1>1, <2>1, BuildKeeps
<1>4. /\ n \in Seq(Messages)
      /\ Ends(n) = Ends(ne) \cup EndOf(m)
      /\ Accepts(n) = Accepts(ne) \cup AcceptOf(m)
      /\ LinkReads(n) = LinkReads(ne) \cup LinkReadOf(m)
      /\ FreshAccepts(ne) /\ ~ Reuses(ne, m) => FreshAccepts(n)
      /\ MsgsInv(n, Here)
  BY <1>1, AppendSets
<1>5. \/ /\ Len(loop.ev) > 1 /\ loop' = [loop EXCEPT !.ev = Tail(loop.ev), !.ne = n]
      \/ /\ ~ Len(loop.ev) > 1
         /\ loop' = [pc |-> IF c = 0 THEN "timer" ELSE "dispatch", ev |-> <<>>, ne |-> r]
  BY DEF Build
<1>6. mishaps' = mishaps \cup (IF Len(loop.ev) = 1 /\ Loses(n) THEN {"lost"} ELSE {})
                         \cup (IF Reuses(ne, m) THEN {"reused"} ELSE {})
  BY DEF Build
<1>7. c \in 0 .. Len(n)
  BY <1>4, NeventIsShort
<1> HIDE DEF n, c
<1>8. /\ FreshAccepts(n) => FreshAccepts(r)
      /\ MsgsInv(r, Here)
      /\ Accepts(r) \subseteq Accepts(n) /\ LinkReads(r) \subseteq LinkReads(n)
      /\ (\A k \in c + 1 .. Len(n) : n[k].type \in {"INVALID", "READ"}) =>
           Ends(n) \subseteq Ends(r) /\ Accepts(n) \subseteq Accepts(r)
      /\ c = 0 => r = <<>>
  BY <1>4, <1>7, CutSets
<1> HIDE DEF r
<1>9. Here'.gate = gate /\ Here'.gone = gone /\ Here'.net = net'
  BY <1>2 DEF Here
<1>10. MsgsInv(n, Here') /\ MsgsInv(r, Here')
  <2>1. Stays(Here, Here')
    BY <1>9, HereIs DEF Stays
  <2> QED
    BY <1>4, <1>8, <2>1, MsgsStay
<1>11. ReadInv(Here', rd', loop'.ne) /\ rd'.at = "idle" /\ AbortCause' /\ Running'
  BY <1>1, <1>2, RunsOn DEF ReadInv
<1>12. ASSUME Healthy' PROVE Healthy /\ FreshAccepts(n) /\ LinkedNow(Here', n)
                             /\ (Len(loop.ev) = 1 => ~ Loses(n))
  <2>1. mishaps = {} /\ ~ Reuses(ne, m) /\ (Len(loop.ev) = 1 => ~ Loses(n))
    BY <1>6, <1>12 DEF Healthy
  <2>2. Healthy
    BY <2>1 DEF Healthy
  <2>3. FreshAccepts(ne)
    BY <2>2 DEF IInv
  <2>4. LinkedNow(Here', n)
    BY <1>4, <2>1, <2>2 DEF LinkedNow
  <2> QED
    BY <1>4, <2>1, <2>2, <2>3, <2>4
<1>13. rd' \in ReadType /\ due' \in 0 .. Cap
  BY <1>2 DEF IInv
<1>14. CASE Len(loop.ev) > 1 /\ loop' = [loop EXCEPT !.ev = Tail(loop.ev), !.ne = n]
  <2>1. /\ Tail(loop.ev) \in Seq(Events)
        /\ \A k \in DOMAIN Tail(loop.ev) : k + 1 \in DOMAIN loop.ev /\ k + 1 # 1 /\ Tail(loop.ev)[k] = loop.ev[k + 1]
    BY <1>1, <1>14, TailShifts
  <2> DEFINE rest == Tail(loop.ev)
  <2> HIDE DEF rest
  <2>2. loop'.ev = rest /\ loop'.ne = n /\ loop'.pc = "build"
    BY <1>1, <1>14 DEF LoopType, rest
  <2>3. EventsInv(rest, Here')
    <3> SUFFICES ASSUME NEW k \in DOMAIN rest, OfGate(net'.sock[rest[k].id])
                 PROVE  gate.fi.slots[rest[k].id] # -1
      BY <1>9 DEF EventsInv
    <3>1. k + 1 \in DOMAIN loop.ev /\ k + 1 # 1 /\ rest[k] = loop.ev[k + 1] /\ 1 \in DOMAIN loop.ev
          /\ Head(loop.ev) = loop.ev[1]
      BY <1>1, <1>14, <2>1 DEF rest
    <3> DEFINE i == rest[k].id
    <3>2. Open(net, i) /\ i # Head(loop.ev).id /\ i \in Sockets
      BY <1>1, <3>1 DEF LoopInv, Open
    <3>3. Same(net'.sock[i], net.sock[i])
      BY <3>2
    <3>4. OfGate(net.sock[i])
      BY <3>3 DEF Same, OfGate
    <3> QED
      BY <1>1, <3>1, <3>4, HereIs DEF EventsInv
  <2>4. Healthy' => FreshAccepts(loop'.ne) /\ Linked(Here', Ends(loop'.ne), Accepts(loop'.ne), LinkReads(loop'.ne))
    BY <1>12, <2>2 DEF LinkedNow
  <2> QED
    BY <1>3, <1>10, <1>11, <1>13, <2>2, <2>3, <2>4 DEF IInv
<1>15. CASE ~ Len(loop.ev) > 1
            /\ loop' = [pc |-> IF c = 0 THEN "timer" ELSE "dispatch", ev |-> <<>>, ne |-> r]
  <2>1. /\ loop'.ev = <<>> /\ loop'.ne = r /\ loop'.pc \in {"timer", "dispatch"}
        /\ loop'.pc = "timer" => c = 0
    BY <1>15
  <2>2. EventsInv(loop'.ev, Here')
    BY <2>1 DEF EventsInv
  <2>3. loop'.pc \in {"poll", "timer"} => loop'.ne = <<>>
    BY <1>8, <2>1
  <2>4. ASSUME Healthy' PROVE FreshAccepts(r) /\ LinkedNow(Here', r)
    <3>1. Len(loop.ev) = 1
      <4> DEFINE l == Len(loop.ev)
      <4>1. l \in Nat /\ l >= 1
        BY <1>1
      <4>2. ~ (l > 1)
        BY <1>15
      <4> HIDE DEF l
      <4>3. l = 1
        BY <4>1, <4>2
      <4> QED
        BY <4>3 DEF l
    <3>2. FreshAccepts(n) /\ Linked(Here', Ends(n), Accepts(n), LinkReads(n)) /\ ~ Loses(n)
      BY <1>12, <2>4, <3>1 DEF LinkedNow
    <3>3. \A k \in c + 1 .. Len(n) : n[k].type \in {"INVALID", "READ"}
      BY <3>2 DEF Loses, c
    <3>4. Ends(n) \subseteq Ends(r) /\ Accepts(n) = Accepts(r) /\ LinkReads(r) \subseteq LinkReads(n)
      BY <1>8, <3>3
    <3>5. Linked(Here', Ends(r), Accepts(r), LinkReads(r))
      BY <3>2, <3>4, LinkedLess
    <3> QED
      BY <1>8, <3>2, <3>5 DEF LinkedNow
  <2>5. loop'.pc # "build"
    BY <2>1
  <2>6. Healthy' => FreshAccepts(loop'.ne) /\ Linked(Here', Ends(loop'.ne), Accepts(loop'.ne), LinkReads(loop'.ne))
    BY <2>1, <2>4 DEF LinkedNow
  <2>7. MsgsInv(loop'.ne, Here')
    BY <1>10, <2>1
  <2> QED
    BY <1>3, <1>11, <1>13, <2>2, <2>3, <2>6, <2>7 DEF IInv
<1> QED
  BY <1>5, <1>14, <1>15

LEMMA Built ==
    ASSUME IInv, loop.pc = "build"
    PROVE  LET i == Head(loop.ev).id
           IN /\ i \in Sockets /\ Open(net, i) /\ loop.ne \in Seq(Messages)
              /\ OfGate(net.sock[i]) => gate.fi.slots[i] # -1
              /\ Base(Here) /\ Here \in States /\ SocksInv(net) /\ backlog \in 0 .. MaxBacklog
              /\ Healthy => Linked(Here, Ends(loop.ne), Accepts(loop.ne), LinkReads(loop.ne))
<1> DEFINE i == Head(loop.ev).id
<1>1. loop.ev \in Seq(Events) /\ loop.ev # <<>> /\ loop.ne \in Seq(Messages)
  BY DEF IInv, LoopInv, LoopType
<1>2. 1 \in DOMAIN loop.ev /\ Head(loop.ev) = loop.ev[1]
  BY <1>1
<1>3. i \in Sockets /\ Open(net, i)
  BY <1>2 DEF IInv, LoopInv, Open
<1>4. OfGate(net.sock[i]) => gate.fi.slots[i] # -1
  <2>1. EventsInv(loop.ev, Here)
    BY DEF IInv
  <2> QED
    BY <1>2, <2>1, HereIs DEF EventsInv
<1>5. Base(Here) /\ Here \in States /\ SocksInv(net) /\ backlog \in 0 .. MaxBacklog
  BY HereIs DEF IInv, Base
<1>6. Healthy => Linked(Here, Ends(loop.ne), Accepts(loop.ne), LinkReads(loop.ne))
  BY DEF IInv
<1> QED
  BY <1>1, <1>3, <1>4, <1>5, <1>6

\* A message of no consequence, while no connection of the gate's is disturbed.
LEMMA NoMessageAdds ==
    /\ NoMessage \in Messages /\ \A w : MsgOK(NoMessage, w)
    /\ EndOf(NoMessage) = {} /\ AcceptOf(NoMessage) = {} /\ LinkReadOf(NoMessage) = {}
<1>1. NoMessage.type = "INVALID" /\ NoMessage \in Messages
  BY DEF NoMessage, Messages, MessageTypes
<1> QED
  BY <1>1 DEF MsgOK, EndOf, AcceptOf, LinkReadOf

LEMMA AcceptEventKeeps ==
    ASSUME IInv, Running, BuildAccept, UNCHANGED <<gate, rd, due, gone>>
    PROVE  IInv'
<1> DEFINE i == Head(loop.ev).id
           ud == net.sock[i].ud
           created == create_socket(net, "CONNECTED", ud)
           f == net.free_socket
           m == Message("ACCEPT", created, f)
           E == Ends(loop.ne)
           A == Accepts(loop.ne)
           N == LinkReads(loop.ne)
<1>1. loop.pc = "build" /\ net.sock[i].status = "LISTENING"
  BY DEF BuildAccept, Building
<1>2. /\ i \in Sockets /\ loop.ne \in Seq(Messages)
      /\ Base(Here) /\ Here \in States /\ SocksInv(net) /\ backlog \in 0 .. MaxBacklog
      /\ Healthy => Linked(Here, E, A, N)
  BY <1>1, Built
<1>3. ud = "gate" /\ ud \in Services
  BY <1>1, <1>2, GateAssumption DEF SocksInv
<1>4. backlog' \in 0 .. MaxBacklog
  BY <1>2, NetAssumption DEF BuildAccept
<1>5. E \in SUBSET Sockets /\ A \in SUBSET Sockets /\ N \in SUBSET Sockets
  BY SetsType
<1>6. \/ net' = net /\ Build(NoMessage)
      \/ f # NIL /\ net' = close_socket(created, f) /\ Build(NoMessage)
      \/ f # NIL /\ net' = created /\ Build(m)
  BY DEF BuildAccept
<1> HIDE DEF E, A, N, i
<1>7. CASE net' = net /\ Build(NoMessage)
  <2>1. Here' = Here
    BY <1>7 DEF Here
  <2>2. \A j \in Sockets : Same(net'.sock[j], net.sock[j])
    BY <1>7 DEF Same
  <2>3. Healthy => Linked(Here', E \cup {}, A \cup {}, N \cup {})
    BY <1>2, <2>1
  <2> QED
    BY <1>1, <1>2, <1>4, <1>7, <2>1, <2>2, <2>3, NoMessageAdds, BuildIInv DEF E, A, N
<1>8. ASSUME f # NIL PROVE
         /\ TableInv(created) /\ Others(net, created, f)
         /\ f \in Sockets /\ ~ Open(net, f) /\ f # ListenId
         /\ created.sock[f].status = "CONNECTED" /\ created.sock[f].ud = "gate" /\ created.sock[f].mask = {}
  BY <1>2, <1>3, <1>8, CreateEffect
<1> HIDE DEF created, f, ud
<1>9. CASE f # NIL /\ net' = close_socket(created, f) /\ Build(NoMessage)
  <2> DEFINE u == close_socket(created, f)
             v == [Here EXCEPT !.net = u]
  <2>1. Closed(net, u, f)
    <3>1. TableInv(u) /\ Others(created, u, f) /\ u.sock[f].status = "INVALID"
      BY <1>8, <1>9, CloseEffect
    <3> HIDE DEF u
    <3>2. Others(net, u, f)
      BY <1>8, <1>9, <3>1 DEF Others, Same
    <3>3. SocksInv(u)
      BY <1>2, <1>8, <1>9, <3>1, <3>2, SocksFrom
    <3> QED
      BY <3>1, <3>2, <3>3 DEF Closed
  <2> HIDE DEF u
  <2>2. v = [Here EXCEPT !.net = u] /\ Closed(Here.net, u, f) /\ f \in Sockets
    BY <1>8, <1>9, <2>1, HereIs
  <2> HIDE DEF v
  <2>3. /\ v.net = u /\ v.gate = Here.gate /\ v.gone = Here.gone /\ Base(v)
        /\ \A X, Y, Z \in SUBSET Sockets : Linked(Here, X, Y, Z) =>
             /\ Linked(v, X \cup {f}, Y \ {f}, Z)
             /\ ~ OfGate(Here.net.sock[f]) => Linked(v, X, Y, Z)
    <3> DEFINE w == Here
    <3>1. v = [w EXCEPT !.net = u] /\ Closed(w.net, u, f) /\ f \in Sockets /\ Base(w)
      BY <1>2, <2>2
    <3> HIDE DEF w
    <3>2. /\ v.net = u /\ v.gate = w.gate /\ v.gone = w.gone /\ Base(v)
          /\ \A X, Y, Z \in SUBSET Sockets : Linked(w, X, Y, Z) =>
               /\ Linked(v, X \cup {f}, Y \ {f}, Z)
               /\ ~ OfGate(w.net.sock[f]) => Linked(v, X, Y, Z)
      BY <3>1, CloseOnly
    <3> QED
      BY <3>2 DEF w
  <2>4. Here' = v
    <3>1. v \in States /\ net' = v.net /\ gate' = v.gate /\ gone' = v.gone
      BY <1>9, <2>3, HereIs DEF Base, u
    <3> QED
      BY <3>1, BecomesHere DEF Becomes
  <2>5. Healthy => Linked(Here', E \cup {}, A \cup {}, N \cup {})
    <3>1. ~ OfGate(Here.net.sock[f])
      BY <1>8, <1>9, HereIs DEF OfGate, Open
    <3> QED
      BY <1>2, <1>5, <2>3, <2>4, <3>1
  <2>6. \A j \in Sockets : j # i /\ Open(net, j) => Same(net'.sock[j], net.sock[j])
    <3>1. Others(net, net', f) /\ ~ Open(net, f)
      BY <1>8, <1>9, <2>1 DEF Closed, u
    <3> QED
      BY <3>1 DEF Others
  <2> QED
    BY <1>1, <1>4, <1>9, <2>3, <2>4, <2>5, <2>6, NoMessageAdds, BuildIInv DEF E, A, N, i
<1>10. CASE f # NIL /\ net' = created /\ Build(m)
  <2> DEFINE v == [Here EXCEPT !.net = created]
  <2>1. /\ TableInv(created) /\ Others(net, created, f)
        /\ f \in Sockets /\ ~ Open(net, f) /\ f # ListenId
        /\ created.sock[f].status = "CONNECTED" /\ created.sock[f].ud = "gate" /\ created.sock[f].mask = {}
    BY <1>8, <1>10
  <2>2. /\ v.net = created /\ v.gate = Here.gate /\ v.gone = Here.gone /\ Base(v)
        /\ \A X, Y, Z \in SUBSET Sockets :
             Linked(Here, X, Y, Z) /\ f \notin X /\ f \notin Z => Linked(v, X, Y \cup {f}, Z)
    <3> DEFINE w == Here
    <3>1. v = [w EXCEPT !.net = created] /\ Base(w) /\ Others(w.net, created, f) /\ ~ Open(w.net, f)
      BY <1>2, <2>1, HereIs
    <3> HIDE DEF w, v
    <3>2. /\ v.net = created /\ v.gate = w.gate /\ v.gone = w.gone /\ Base(v)
          /\ \A X, Y, Z \in SUBSET Sockets :
               Linked(w, X, Y, Z) /\ f \notin X /\ f \notin Z => Linked(v, X, Y \cup {f}, Z)
      BY <2>1, <3>1, CreateJoins
    <3> QED
      BY <3>2 DEF w
  <2> HIDE DEF v
  <2>3. Here' = v
    <3>1. v \in States /\ net' = v.net /\ gate' = v.gate /\ gone' = v.gone
      BY <1>10, <2>2, HereIs DEF Base
    <3> QED
      BY <3>1, BecomesHere DEF Becomes
  <2>4. /\ m.type = "ACCEPT" /\ m.id = f /\ m.ud = "gate" /\ m \in Messages
    BY <1>3, <2>1 DEF Message, Messages, MessageTypes
  <2> HIDE DEF m
  <2>5. EndOf(m) = {} /\ AcceptOf(m) = {f} /\ LinkReadOf(m) = {} /\ MsgOK(m, Here)
    BY <1>3, <2>1, <2>4 DEF EndOf, AcceptOf, LinkReadOf, MsgOK
  <2>6. ASSUME Healthy, ~ Reuses(loop.ne, m) PROVE Linked(Here', E \cup {}, A \cup {f}, N \cup {})
    <3>1. \A k \in DOMAIN loop.ne : loop.ne[k].id # f
      BY <2>4, <2>6 DEF Reuses
    <3>2. f \notin E /\ f \notin N
      BY <3>1, Zenon DEF E, N, Ends, LinkReads
    <3> QED
      BY <1>2, <1>5, <2>2, <2>3, <2>6, <3>2
  <2>7. \A j \in Sockets : j # i /\ Open(net, j) => Same(net'.sock[j], net.sock[j])
    BY <1>10, <2>1 DEF Others
  <2> QED
    BY <1>1, <1>4, <1>10, <2>2, <2>3, <2>4, <2>5, <2>6, <2>7, BuildIInv DEF E, A, N, i
<1> QED
  BY <1>6, <1>7, <1>9, <1>10

\* The READ of an event of a stream, or nothing.
LEMMA ReadMessage ==
    ASSUME IInv, Running, loop.pc = "build", NEW i, i = Head(loop.ev).id,
           net.sock[i].status \in {"CONNECTED", "HALFCLOSE"},
           NEW m, m \in {Message("READ", net, i), NoMessage}
    PROVE  /\ m \in Messages /\ MsgOK(m, Here) /\ EndOf(m) = {} /\ AcceptOf(m) = {}
           /\ LinkReadOf(m) = {} \/ (LinkReadOf(m) = {i} /\ net.sock[i].ud = "node")
<1>1. /\ i \in Sockets /\ Open(net, i) /\ (OfGate(net.sock[i]) => gate.fi.slots[i] # -1) /\ SocksInv(net)
  BY Built
<1>2. CASE m = NoMessage
  BY <1>2, NoMessageAdds
<1>3. CASE m = Message("READ", net, i)
  <2>1. m.type = "READ" /\ m.id = i /\ m.ud = net.sock[i].ud
    BY <1>3 DEF Message
  <2>2. net.sock[i].ud \in Services /\ i # ListenId
    BY <1>1 DEF SocksInv
  <2>3. m \in Messages
    BY <1>1, <1>3, <2>2 DEF Message, Messages, MessageTypes
  <2>4. m.ud = "gate" => gate.fi.slots[i] # -1
    BY <1>1, <2>1 DEF OfGate
  <2> HIDE DEF Message
  <2>5. MsgOK(m, Here)
    BY <1>1, <2>1, <2>2, <2>4, HereIs DEF MsgOK
  <2>6. EndOf(m) = {} /\ AcceptOf(m) = {}
    BY <2>1 DEF EndOf, AcceptOf
  <2>7. LinkReadOf(m) = {} \/ (LinkReadOf(m) = {i} /\ net.sock[i].ud = "node")
    BY <1>1, <2>1 DEF LinkReadOf
  <2> QED
    BY <2>3, <2>5, <2>6, <2>7
<1> QED
  BY <1>2, <1>3

LEMMA LinkedMore ==
    ASSUME NEW v, NEW E, NEW A, NEW N, Linked(v, E, A, N), NEW M,
           \A i \in M : ~ OfGate(v.net.sock[i])
    PROVE  Linked(v, E, A, N \cup M)
<1>1. \A i \in N \cup M : ~ OfGate(v.net.sock[i])
  BY DEF Linked
<1> QED
  BY <1>1, Zenon DEF Linked

\* The connection is written to, or not; its READ is built.
LEMMA FlushedKeeps ==
    ASSUME IInv, Running, loop.pc = "build", NEW i, i = Head(loop.ev).id,
           net.sock[i].status \in {"CONNECTED", "HALFCLOSE"},
           NEW m, m \in {Message("READ", net, i), NoMessage}, Build(m),
           Steady(net, net', i), UNCHANGED <<backlog, gate, rd, due, gone>>
    PROVE  IInv'
<1> DEFINE v == [Here EXCEPT !.net = net']
           E == Ends(loop.ne)
           A == Accepts(loop.ne)
           N == LinkReads(loop.ne)
<1>1. /\ i \in Sockets /\ (OfGate(net.sock[i]) => gate.fi.slots[i] # -1)
      /\ Base(Here) /\ backlog \in 0 .. MaxBacklog
      /\ Healthy => Linked(Here, E, A, N)
  BY Built
<1>2. /\ m \in Messages /\ MsgOK(m, Here) /\ EndOf(m) = {} /\ AcceptOf(m) = {}
      /\ LinkReadOf(m) = {} \/ (LinkReadOf(m) = {i} /\ net.sock[i].ud = "node")
  BY ReadMessage
<1>3. E \in SUBSET Sockets /\ A \in SUBSET Sockets /\ N \in SUBSET Sockets
  BY SetsType
<1> HIDE DEF E, A, N
<1>4. v.net = net' /\ v.gate = Here.gate /\ v.gone = Here.gone /\ Base(v) /\ KeepsLinks(Here, v)
  <2> DEFINE w == Here
             u == net'
  <2>1. /\ v = [w EXCEPT !.net = u] /\ Base(w) /\ Steady(w.net, u, i)
        /\ w.gate.fi.slots[i] # -1 \/ ~ OfGate(w.net.sock[i])
        /\ i \in Sockets
    BY <1>1, HereIs
  <2> HIDE DEF w, u, v
  <2>2. v.net = u /\ v.gate = w.gate /\ v.gone = w.gone /\ Base(v) /\ KeepsLinks(w, v)
    BY <2>1, SteadyNet
  <2> QED
    BY <2>2 DEF w, u
<1> HIDE DEF v
<1>5. Here' = v
  <2>1. v \in States /\ net' = v.net /\ gate' = v.gate /\ gone' = v.gone
    BY <1>4, HereIs DEF Base
  <2> QED
    BY <2>1, BecomesHere DEF Becomes
<1>6. ASSUME Healthy PROVE Linked(Here', E \cup {}, A \cup {}, N \cup LinkReadOf(m))
  <2>1. Linked(v, E, A, N)
    BY <1>1, <1>3, <1>4, <1>6, Zenon DEF KeepsLinks
  <2>2. \A j \in LinkReadOf(m) : ~ OfGate(v.net.sock[j])
    <3>1. net'.sock[i].ud = net.sock[i].ud
      BY DEF Steady
    <3> QED
      BY <1>2, <1>4, <3>1 DEF OfGate
  <2>3. Linked(v, E, A, N \cup LinkReadOf(m))
    BY <2>1, <2>2, LinkedMore
  <2> QED
    BY <1>5, <2>3
<1>7. \A j \in Sockets : j # i /\ Open(net, j) => Same(net'.sock[j], net.sock[j])
  BY DEF Steady, Others
<1>8. backlog' \in 0 .. MaxBacklog /\ UNCHANGED <<gate, rd, due, gone>> /\ Base(Here')
  BY <1>1, <1>4, <1>5
<1> QED
  BY <1>2, <1>6, <1>7, <1>8, BuildIInv DEF E, A, N

\* The connection is closed; the message that tells is built.
LEMMA BrokenKeeps ==
    ASSUME IInv, Running, loop.pc = "build", NEW i, i = Head(loop.ev).id,
           net.sock[i].status \in {"CONNECTED", "HALFCLOSE"},
           NEW type \in {"SOCKERR", "WRIDONECLOSE"}, Build(Message(type, net, i)),
           net' = close_socket(net, i), UNCHANGED <<backlog, gate, rd, due, gone>>
    PROVE  IInv'
<1> DEFINE v == [Here EXCEPT !.net = net']
           m == Message(type, net, i)
           E == Ends(loop.ne)
           A == Accepts(loop.ne)
           N == LinkReads(loop.ne)
<1>1. /\ i \in Sockets /\ Open(net, i) /\ (OfGate(net.sock[i]) => gate.fi.slots[i] # -1)
      /\ Base(Here) /\ SocksInv(net) /\ backlog \in 0 .. MaxBacklog
      /\ Healthy => Linked(Here, E, A, N)
  BY Built
<1>2. i # ListenId /\ net.sock[i].ud \in Services
  BY <1>1 DEF SocksInv
<1>3. Closed(net, net', i)
  BY <1>1, <1>2, SocksClose
<1>4. E \in SUBSET Sockets /\ A \in SUBSET Sockets /\ N \in SUBSET Sockets
  BY SetsType
<1> HIDE DEF E, A, N
<1>5. m \in Messages /\ m.type = type /\ m.id = i /\ m.ud = net.sock[i].ud
  BY <1>1, <1>2 DEF Message, Messages, MessageTypes
<1>6. Build(m)
  OBVIOUS
<1> HIDE DEF m
<1>7. MsgOK(m, Here)
  <2>1. m.ud = "gate" => gate.fi.slots[i] # -1
    BY <1>1, <1>5 DEF OfGate
  <2> QED
    BY <1>1, <1>2, <1>5, <2>1, HereIs DEF MsgOK
<1>8. /\ EndOf(m) = IF net.sock[i].ud = "gate" THEN {i} ELSE {}
      /\ AcceptOf(m) = {} /\ LinkReadOf(m) = {}
  BY <1>1, <1>5 DEF EndOf, AcceptOf, LinkReadOf
<1>9. /\ v.net = net' /\ v.gate = Here.gate /\ v.gone = Here.gone /\ Base(v)
      /\ \A X, Y, Z \in SUBSET Sockets : Linked(Here, X, Y, Z) =>
           /\ Linked(v, X \cup {i}, Y \ {i}, Z)
           /\ ~ OfGate(Here.net.sock[i]) => Linked(v, X, Y, Z)
  <2> DEFINE w == Here
             u == net'
  <2>1. v = [w EXCEPT !.net = u] /\ Base(w) /\ Closed(w.net, u, i) /\ i \in Sockets
    BY <1>1, <1>3, HereIs
  <2> HIDE DEF w, u, v
  <2>2. /\ v.net = u /\ v.gate = w.gate /\ v.gone = w.gone /\ Base(v)
        /\ \A X, Y, Z \in SUBSET Sockets : Linked(w, X, Y, Z) =>
             /\ Linked(v, X \cup {i}, Y \ {i}, Z)
             /\ ~ OfGate(w.net.sock[i]) => Linked(v, X, Y, Z)
    <3>1. /\ v.net = u /\ v.gate = w.gate /\ v.gone = w.gone
          /\ Base(v) /\ Moved(w, v)
          /\ \A X, Y, Z \in SUBSET Sockets : Linked(w, X, Y, Z) =>
               /\ Linked(v, X \cup {i}, Y \ {i}, Z)
               /\ ~ OfGate(w.net.sock[i]) => Linked(v, X, Y, Z)
      BY ONLY <2>1, CloseOnly
    <3> QED
      BY ONLY <3>1, Zenon
  <2> QED
    BY <2>2 DEF w, u
<1> HIDE DEF v
<1>10. Here' = v
  <2>1. v \in States /\ net' = v.net /\ gate' = v.gate /\ gone' = v.gone
    BY <1>9, HereIs DEF Base
  <2> QED
    BY <2>1, BecomesHere DEF Becomes
<1>11. ASSUME Healthy PROVE Linked(Here', E \cup EndOf(m), A \cup {}, N \cup {})
  <2>1. Linked(Here, E, A, N)
    BY <1>1, <1>11
  <2>2. CASE net.sock[i].ud = "gate"
    <3>1. i \notin A
      <4>1. gate.fi.slots[i] # -1
        BY <1>1, <2>2 DEF OfGate
      <4>2. i \in A => AcceptLinked(Here, i)
        BY <2>1, Zenon DEF Linked
      <4> QED
        BY <4>1, <4>2, HereIs DEF AcceptLinked
    <3>2. A \ {i} = A
      BY <3>1
    <3>3. Linked(v, E \cup {i}, A \ {i}, N)
      BY <1>4, <1>9, <2>1
    <3> QED
      BY <1>8, <1>10, <2>2, <3>2, <3>3
  <2>3. CASE net.sock[i].ud # "gate"
    <3>1. ~ OfGate(Here.net.sock[i])
      BY <2>3, HereIs DEF OfGate
    <3>2. Linked(v, E, A, N)
      BY <1>4, <1>9, <2>1, <3>1
    <3> QED
      BY <1>8, <1>10, <2>3, <3>2
  <2> QED
    BY <2>2, <2>3
<1>12. \A j \in Sockets : j # i /\ Open(net, j) => Same(net'.sock[j], net.sock[j])
  BY <1>3 DEF Closed, Others
<1>13. backlog' \in 0 .. MaxBacklog /\ UNCHANGED <<gate, rd, due, gone>> /\ Base(Here')
  BY <1>1, <1>9, <1>10
<1> QED
  BY <1>5, <1>6, <1>7, <1>8, <1>11, <1>12, <1>13, BuildIInv DEF E, A, N

LEMMA StreamEventKeeps ==
    ASSUME IInv, Running, BuildStream, UNCHANGED <<gate, rd, due, gone>>
    PROVE  IInv'
<1> DEFINE e == Head(loop.ev)
           i == e.id
           m == IF e.r THEN Message("READ", net, i) ELSE NoMessage
<1>1. loop.pc = "build" /\ net.sock[i].status \in {"CONNECTED", "HALFCLOSE"}
  BY DEF BuildStream, Building
<1>2. i \in Sockets /\ Open(net, i) /\ SocksInv(net) /\ i # ListenId
  <2>1. i \in Sockets /\ Open(net, i) /\ SocksInv(net)
    BY <1>1, Built
  <2> QED
    BY <1>1, <2>1 DEF SocksInv
<1>3. UNCHANGED <<backlog, gate, rd, due, gone>>
  <2>1. UNCHANGED backlog
    BY ZenonT(40) DEF BuildStream
  <2> QED
    BY <2>1
<1>4. m \in {Message("READ", net, i), NoMessage}
  OBVIOUS
<1>5. \/ net' = net /\ Build(m)
      \/ net' = close_socket(net, i) /\ Build(Message("WRIDONECLOSE", net, i))
      \/ net' = close_socket(net, i) /\ Build(Message("SOCKERR", net, i))
      \/ \E k \in 0 .. net.sock[i].head :
            /\ ~ (net.sock[i].status = "HALFCLOSE" /\ k = net.sock[i].head)
            /\ net' = send_buffer(net, i, k) /\ Build(m)
  BY DEF BuildStream
<1> HIDE DEF m
<1>6. CASE net' = net /\ Build(m)
  <2>1. Steady(net, net', i)
    BY <1>2, <1>6, SameKept DEF Kept
  <2> QED
    BY <1>1, <1>3, <1>4, <1>6, <2>1, FlushedKeeps
<1>7. CASE net' = close_socket(net, i) /\ Build(Message("WRIDONECLOSE", net, i))
  BY <1>1, <1>3, <1>7, BrokenKeeps
<1>8. CASE net' = close_socket(net, i) /\ Build(Message("SOCKERR", net, i))
  BY <1>1, <1>3, <1>8, BrokenKeeps
<1>9. ASSUME NEW k \in 0 .. net.sock[i].head,
             ~ (net.sock[i].status = "HALFCLOSE" /\ k = net.sock[i].head),
             net' = send_buffer(net, i, k), Build(m)
      PROVE  IInv'
  <2>1. Steady(net, net', i)
    BY <1>2, <1>9, FlushEffect
  <2> QED
    BY <1>1, <1>3, <1>4, <1>9, <2>1, FlushedKeeps
<1> QED
  BY <1>5, <1>6, <1>7, <1>8, <1>9

\* epoll_wait reports subscribed sockets only.
LEMMA PollSubscribed ==
    ASSUME SocksInv(net), Poll
    PROVE  /\ loop'.ne = <<>> /\ loop'.pc \in {"timer", "build"}
           /\ \A k \in DOMAIN loop'.ev :
                 loop'.ev[k].id \in Sockets /\ net.sock[loop'.ev[k].id].mask # {}
<1>1. PICK batch \in Batches :
          loop' = [pc |-> IF batch = <<>> THEN "timer" ELSE "build", ev |-> batch, ne |-> <<>>]
  BY DEF Poll
<1>2. PICK W \in SUBSET {i \in Sockets : MayBeWritable(i)} :
          batch \in {[k \in DOMAIN o |-> [id |-> o[k], r |-> Readable(o[k]), w |-> o[k] \in W]] :
                         o \in Orders(W \cup {i \in Sockets : Readable(i)})}
  BY <1>1 DEF Batches
<1> DEFINE S == W \cup {i \in Sockets : Readable(i)}
<1>3. PICK o \in Orders(S) :
          batch = [k \in DOMAIN o |-> [id |-> o[k], r |-> Readable(o[k]), w |-> o[k] \in W]]
  BY <1>2
<1>4. \A i \in S : i \in Sockets /\ net.sock[i].mask # {}
  BY DEF MayBeWritable, Readable
<1> HIDE DEF S
<1>5. DOMAIN o = 1 .. Cardinality(S) /\ \A k \in DOMAIN o : o[k] \in S
  BY DEF Orders
<1>6. DOMAIN batch = DOMAIN o /\ \A k \in DOMAIN o : batch[k].id = o[k]
  BY <1>3
<1>7. loop'.ne = <<>> /\ loop'.pc \in {"timer", "build"} /\ loop'.ev = batch
  BY <1>1
<1> QED
  BY <1>4, <1>5, <1>6, <1>7

\* Time makes the clients older, and no more.
LEMMA AgedClient ==
    ASSUME NEW q \in ClientType
    PROVE  Older(q) \in ClientType /\ Older(q).status = q.status /\ Older(q).connid = q.connid
<1> DEFINE older == q.age + 1
<1>1. Older(q) = IF q.status # "FREE" /\ q.age < MaxAge THEN [q EXCEPT !.age = older] ELSE q
  BY DEF Older
<1>2. q.age < MaxAge => older \in Ages
  BY AgesBegin DEF ClientType, Ages
<1> HIDE DEF older
<1>3. CASE q.status # "FREE" /\ q.age < MaxAge
  <2>1. Older(q) = [q EXCEPT !.age = older] /\ older \in Ages
    BY <1>1, <1>2, <1>3
  <2> QED
    BY <2>1 DEF ClientType
<1>4. CASE ~ (q.status # "FREE" /\ q.age < MaxAge)
  <2>1. Older(q) = q
    BY <1>1, <1>4
  <2> QED
    BY <2>1
<1> QED
  BY <1>3, <1>4

LEMMA AgedInv ==
    ASSUME NEW g, ClientsInv(g), NEW p \in [Clients -> ClientType],
           \A c \in Clients : p[c].status = g.p[c].status /\ p[c].connid = g.p[c].connid,
           NEW h, h = [g EXCEPT !.p = p]
    PROVE  /\ ClientsInv(h) /\ h.fi = g.fi /\ h.abort = g.abort /\ h.culprit = g.culprit
           /\ \A c \in Clients : h.p[c].status = g.p[c].status /\ h.p[c].connid = g.p[c].connid
<1>1. g \in GateType /\ g.p \in [Clients -> ClientType]
  BY DEF ClientsInv, GateType
<1>2. \A c \in Clients : p[c].status = g.p[c].status /\ p[c].connid = g.p[c].connid
  OBVIOUS
<1>3. p \in [Clients -> ClientType]
  OBVIOUS
<1>4. /\ h \in GateType /\ h.fi = g.fi /\ h.used = g.used /\ h.p = p
      /\ h.abort = g.abort /\ h.culprit = g.culprit
  BY <1>1, <1>3 DEF GateType
<1>5. \A c \in Clients : h.p[c].status = g.p[c].status /\ h.p[c].connid = g.p[c].connid
  BY <1>2, <1>4
<1>6. TakenIn(h.p) = TakenIn(g.p)
  BY <1>5 DEF TakenIn
<1>7. \A i \in Sockets : h.fi.slots[i] # -1 =>
         h.p[h.fi.slots[i]].status # "FREE" /\ h.p[h.fi.slots[i]].connid = i
  <2> SUFFICES ASSUME NEW i \in Sockets, g.fi.slots[i] # -1
               PROVE  h.p[g.fi.slots[i]].status # "FREE" /\ h.p[g.fi.slots[i]].connid = i
    BY <1>4
  <2>1. g.fi.slots[i] \in Clients
    BY TableConstants DEF ClientsInv, FreeOutside, FreeidType
  <2>2. g.p[g.fi.slots[i]].status # "FREE" /\ g.p[g.fi.slots[i]].connid = i
    BY Zenon DEF ClientsInv
  <2> QED
    BY <1>5, <2>1, <2>2
<1>8. FreeOutside(h.fi, TakenIn(h.p)) /\ h.used = Cardinality(TakenIn(h.p))
  BY <1>4, <1>6 DEF ClientsInv
<1>9. \A c \in Clients : h.p[c].status # "FREE" => h.p[c].connid # ListenId
  BY <1>5 DEF ClientsInv
<1>10. ClientsInv(h)
  BY <1>4, <1>7, <1>8, <1>9, Zenon DEF ClientsInv
<1> QED
  BY <1>4, <1>5, <1>10

LEMMA AgedLinked ==
    ASSUME NEW w, NEW v, v.net = w.net, v.gate.fi = w.gate.fi,
           \A c \in Clients : v.gate.p[c].status = w.gate.p[c].status /\ v.gate.p[c].connid = w.gate.p[c].connid,
           NEW E, NEW A, NEW N, Linked(w, E, A, N)
    PROVE  Linked(v, E, A, N)
<1>1. ASSUME NEW c \in Clients PROVE ClientLinked(v, E, c)
  <2>1. ClientLinked(w, E, c)
    BY Zenon DEF Linked
  <2>2. v.gate.p[c].status = w.gate.p[c].status /\ v.gate.p[c].connid = w.gate.p[c].connid
    OBVIOUS
  <2> QED
    BY <2>1, <2>2, Zenon DEF ClientLinked
<1>2. \A i \in Sockets : SocketLinked(v, A, i)
  BY DEF Linked, SocketLinked
<1>3. \A i \in A : AcceptLinked(v, i)
  BY DEF Linked, AcceptLinked
<1>4. \A i \in N : ~ OfGate(v.net.sock[i])
  BY DEF Linked
<1> QED
  BY <1>1, <1>2, <1>3, <1>4, Zenon DEF Linked

LEMMA GatePollKeeps ==
    ASSUME IInv, Running, NEW tick \in BOOLEAN, GatePoll(tick)
    PROVE  IInv'
<1> DEFINE p == [c \in Clients |-> Older(gate.p[c])]
           h == [gate EXCEPT !.p = p]
           ne == loop.ne
<1>1. /\ Poll /\ loop.pc = "poll" /\ net' = net /\ backlog' = backlog /\ mishaps' = mishaps
      /\ gone' = {} /\ rd' = rd /\ due' \in {0, due}
  BY DEF GatePoll, Poll
<1>2. gate' = h \/ gate' = gate
  <2>1. gate' = IF tick THEN h ELSE gate
    BY Zenon DEF GatePoll
  <2> QED
    BY <2>1, Zenon
<1>3. /\ Base(Here) /\ ClientsInv(gate) /\ SocksInv(net) /\ ServedInv(net, gate.fi.slots)
      /\ Here \in States /\ LoopInv(net, loop) /\ ne = <<>> /\ rd.at = "idle" /\ rd \in ReadType
      /\ backlog \in 0 .. MaxBacklog /\ mishaps \subseteq {"lost", "reused"} /\ due \in 0 .. Cap
      /\ Healthy => Linked(Here, Ends(ne), Accepts(ne), LinkReads(ne))
  <2>1. /\ Base(Here) /\ LoopInv(net, loop) /\ rd \in ReadType
        /\ backlog \in 0 .. MaxBacklog /\ mishaps \subseteq {"lost", "reused"} /\ due \in 0 .. Cap
        /\ Healthy => Linked(Here, Ends(ne), Accepts(ne), LinkReads(ne))
    BY DEF IInv
  <2>2. ne = <<>> /\ rd.at = "idle"
    BY <1>1 DEF IInv
  <2>3. ClientsInv(gate) /\ SocksInv(net) /\ ServedInv(net, gate.fi.slots) /\ Here \in States
    BY <2>1, HereIs DEF Base
  <2> QED
    BY <2>1, <2>2, <2>3
<1>4. /\ ClientsInv(gate') /\ gate'.fi = gate.fi /\ gate'.abort = gate.abort
      /\ \A c \in Clients : gate'.p[c].status = gate.p[c].status /\ gate'.p[c].connid = gate.p[c].connid
  <2>1. /\ ClientsInv(h) /\ h.fi = gate.fi /\ h.abort = gate.abort
        /\ \A c \in Clients : h.p[c].status = gate.p[c].status /\ h.p[c].connid = gate.p[c].connid
    <3> DEFINE g == gate
    <3>1. g.p \in [Clients -> ClientType]
      BY <1>3 DEF ClientsInv, GateType
    <3>2. \A c \in Clients : p[c] = Older(g.p[c])
      OBVIOUS
    <3>3. ASSUME NEW c \in Clients
          PROVE  p[c] \in ClientType /\ p[c].status = g.p[c].status /\ p[c].connid = g.p[c].connid
      <4>1. g.p[c] \in ClientType /\ p[c] = Older(g.p[c])
        BY <3>1, <3>2
      <4> HIDE DEF p, g
      <4> QED
        BY <4>1, AgedClient
    <3>4. p \in [Clients -> ClientType]
      BY <3>3
    <3>5. /\ ClientsInv(g) /\ h = [g EXCEPT !.p = p]
          /\ \A c \in Clients : p[c].status = g.p[c].status /\ p[c].connid = g.p[c].connid
      BY <1>3, <3>3
    <3> HIDE DEF g, h, p
    <3>6. /\ ClientsInv(h) /\ h.fi = g.fi /\ h.abort = g.abort /\ h.culprit = g.culprit
          /\ \A c \in Clients : h.p[c].status = g.p[c].status /\ h.p[c].connid = g.p[c].connid
      BY <3>4, <3>5, AgedInv
    <3> QED
      BY <3>6 DEF g
  <2> HIDE DEF h
  <2> QED
    BY <1>2, <1>3, <2>1
<1> HIDE DEF h, ne
<1>5. Here'.net = net /\ Here'.gate = gate' /\ Here'.gone = {}
  BY <1>1 DEF Here
<1>6. Base(Here')
  <2>1. Here' \in States
    <3>1. net \in NetType /\ gate' \in GateType
      BY <1>3, <1>4 DEF SocksInv, TableInv, ClientsInv
    <3>2. Here' = [net |-> net, gate |-> gate', gone |-> {}]
      BY <1>1 DEF Here
    <3> QED
      BY <3>1, <3>2 DEF States
  <2> QED
    BY <1>3, <1>4, <1>5, <2>1, Zenon DEF Base
<1>7. /\ loop'.ne = <<>> /\ loop'.pc \in {"timer", "build"}
      /\ \A k \in DOMAIN loop'.ev :
            loop'.ev[k].id \in Sockets /\ net.sock[loop'.ev[k].id].mask # {}
  BY <1>1, <1>3, PollSubscribed
<1>8. LoopInv(net', loop')
  <2>1. LoopInv(net, loop')
    BY <1>1, <1>3, PollKeeps DEF SocksInv
  <2> QED
    BY <1>1, <2>1
<1>9. EventsInv(loop'.ev, Here')
  BY <1>3, <1>4, <1>5, <1>7 DEF EventsInv, ServedInv
<1>10. MsgsInv(loop'.ne, Here') /\ FreshAccepts(loop'.ne) /\ ReadInv(Here', rd', loop'.ne)
  BY <1>1, <1>3, <1>7, NoMessages DEF ReadInv
<1>11. AbortCause' /\ Running'
  BY <1>4, RunsOn
<1>12. ASSUME Healthy' PROVE Linked(Here', Ends(loop'.ne), Accepts(loop'.ne), LinkReads(loop'.ne))
  <2>1. Healthy
    BY <1>1, <1>12 DEF Healthy
  <2>2. Linked(Here, Ends(ne), Accepts(ne), LinkReads(ne))
    BY <1>3, <2>1
  <2>3. /\ Here'.net = Here.net /\ Here'.gate.fi = Here.gate.fi
        /\ \A c \in Clients : Here'.gate.p[c].status = Here.gate.p[c].status
                              /\ Here'.gate.p[c].connid = Here.gate.p[c].connid
    BY <1>4, <1>5, HereIs
  <2>4. Linked(Here', Ends(ne), Accepts(ne), LinkReads(ne))
    BY <2>2, <2>3, AgedLinked
  <2> QED
    BY <1>3, <1>7, <2>4
<1>13. /\ backlog' \in 0 .. MaxBacklog /\ mishaps' \subseteq {"lost", "reused"} /\ rd' \in ReadType
       /\ due' \in 0 .. Cap /\ rd'.at = "idle"
  BY <1>1, <1>3, FreeidAssumption
<1> QED
  BY <1>6, <1>7, <1>8, <1>9, <1>10, <1>11, <1>12, <1>13 DEF IInv

-----------------------------------------------------------------------------
\* What peers do is in the kernel, until the loop asks for it.
LEMMA PeerEffect ==
    ASSUME SocksInv(net), NEW i \in Sockets, PeerSend(i) \/ PeerClose(i)
    PROVE  /\ Steady(net, net', i) /\ Open(net, i) /\ i # ListenId
           /\ net'.sock[i].mask = net.sock[i].mask /\ net'.sock[i].rb = net.sock[i].rb
<1> DEFINE inq == net.sock[i].inq + 1
           q == [net.sock[i] EXCEPT !.inq = inq]
           r == [net.sock[i] EXCEPT !.eof = TRUE]
<1>1. TableInv(net) /\ net.sock[i] \in SocketType
  BY DEF SocksInv, TableInv, NetType
<1>2. net.sock[i].status \in {"CONNECTED", "HALFCLOSE"}
  BY DEF PeerSend, PeerClose, Stream
<1>3. net.sock[i].status # "INVALID" /\ Open(net, i) /\ i # ListenId
  BY <1>2 DEF Open, SocksInv
<1>4. CASE PeerSend(i)
  <2>1. inq \in 0 .. MaxIn
    <3>1. net.sock[i].inq \in 0 .. MaxIn /\ net.sock[i].inq < MaxIn
      BY <1>1, <1>4 DEF PeerSend, SocketType
    <3> QED
      BY <3>1, NetAssumption
  <2>2. net' = [net EXCEPT !.sock[i].inq = inq]
    BY <1>4 DEF PeerSend
  <2>3. q.status = net.sock[i].status /\ q.ud = net.sock[i].ud /\ q.mask = net.sock[i].mask
        /\ q.rb = net.sock[i].rb
    BY <1>1 DEF SocketType
  <2>4. [net EXCEPT !.sock[i].inq = inq] = [net EXCEPT !.sock[i] = q]
    OBVIOUS
  <2> HIDE DEF inq
  <2>5. Touches(net, [net EXCEPT !.sock[i].inq = inq], i)
    BY <1>1, <1>3, <2>1, KernelTouches
  <2> HIDE DEF q
  <2>6. net' = [net EXCEPT !.sock[i] = q] /\ TableInv(net')
    BY <2>2, <2>4, <2>5 DEF Touches
  <2>7. Steady(net, net', i) /\ net'.sock[i] = q
    BY <1>3, <2>3, <2>6, SteadyUpdate
  <2> QED
    BY <1>3, <2>3, <2>7
<1>5. CASE PeerClose(i)
  <2>1. 0 \in 0 .. MaxIn
    BY NetAssumption
  <2>2. net' = [net EXCEPT !.sock[i].eof = TRUE]
    BY <1>5 DEF PeerClose
  <2>3. r.status = net.sock[i].status /\ r.ud = net.sock[i].ud /\ r.mask = net.sock[i].mask
        /\ r.rb = net.sock[i].rb
    BY <1>1 DEF SocketType
  <2>4. [net EXCEPT !.sock[i].eof = TRUE] = [net EXCEPT !.sock[i] = r]
    OBVIOUS
  <2>5. Touches(net, [net EXCEPT !.sock[i].eof = TRUE], i)
    BY <1>1, <1>3, <2>1, KernelTouches
  <2> HIDE DEF r
  <2>6. net' = [net EXCEPT !.sock[i] = r] /\ TableInv(net')
    BY <2>2, <2>4, <2>5 DEF Touches
  <2>7. Steady(net, net', i) /\ net'.sock[i] = r
    BY <1>3, <2>3, <2>6, SteadyUpdate
  <2> QED
    BY <1>3, <2>3, <2>7
<1> QED
  BY <1>4, <1>5

LEMMA PeerHere ==
    ASSUME Base(Here), NEW i \in Sockets, PeerSend(i) \/ PeerClose(i), UNCHANGED <<gate, gone>>
    PROVE  /\ Base(Here') /\ Stays(Here, Here') /\ KeepsLinks(Here, Here')
           /\ \A j \in Sockets : Open(net', j) <=> Open(net, j)
           /\ \A j \in Sockets : net'.sock[j].rb = net.sock[j].rb
           /\ UNCHANGED <<backlog, loop, mishaps>>
<1> DEFINE w == Here
           t == net'
           v == [w EXCEPT !.net = t]
<1>1. SocksInv(net) /\ w.net = net /\ w.gate = gate /\ w.gone = gone /\ w \in States
  BY HereIs DEF Base
<1>2. /\ Steady(w.net, t, i) /\ t.sock[i].mask = w.net.sock[i].mask
      /\ t.sock[i].rb = net.sock[i].rb
  BY <1>1, PeerEffect
<1>3. Here' = v
  BY DEF Here
<1>4. Base(w) /\ i \in Sockets /\ Steady(w.net, t, i) /\ t.sock[i].mask = w.net.sock[i].mask
      /\ v = [w EXCEPT !.net = t]
  BY <1>2
<1> HIDE DEF w, t, v
<1>5. /\ v.net = t /\ v.gate = w.gate /\ v.gone = w.gone
      /\ Base(v) /\ Stays(w, v) /\ KeepsLinks(w, v)
      /\ \A j \in Sockets : Open(t, j) <=> Open(w.net, j)
  BY <1>4, SteadyHere
<1>6. \A j \in Sockets : t.sock[j].rb = net.sock[j].rb
  <2>1. Others(net, t, i)
    BY <1>1, <1>2 DEF Steady
  <2> QED
    BY <1>2, <2>1 DEF Others, Same
<1>7. UNCHANGED <<backlog, loop, mishaps>>
  BY DEF PeerSend, PeerClose
<1> QED
  BY <1>1, <1>3, <1>5, <1>6, <1>7 DEF t, w

LEMMA PeersKeep == ASSUME IInv, Running, Peers PROVE IInv'
<1>1. UNCHANGED <<gate, rd, due, gone>>
  BY DEF Peers
<1>2. /\ Base(Here) /\ rd \in ReadType /\ due \in 0 .. Cap /\ backlog \in 0 .. MaxBacklog
      /\ rd.at # "idle" => loop.pc = "dispatch"
      /\ Healthy => LinkedNow(Here, loop.ne)
      /\ ReadInv(Here, rd, loop.ne)
  BY DEF IInv, LinkedNow
<1>3. AbortCause' /\ Running'
  BY <1>1, RunsOn
<1>4. CASE loop.pc = "poll" /\ PeerConnect
  <2>1. UNCHANGED <<net, loop, mishaps>> /\ backlog' \in 0 .. MaxBacklog
    <3>1. UNCHANGED <<net, loop, mishaps>> /\ backlog' = backlog + 1 /\ backlog < MaxBacklog
      BY <1>4 DEF PeerConnect
    <3> QED
      BY <1>2, <3>1, NetAssumption
  <2>2. Here' = Here
    BY <1>1, <2>1 DEF Here
  <2>3. Healthy' => Healthy
    BY <1>1, <2>1 DEF Healthy, Running
  <2>4. due' \in 0 .. Cap /\ Base(Here') /\ (Healthy' => LinkedNow(Here', loop.ne))
    BY <1>1, <1>2, <2>2, <2>3
  <2> QED
    BY <1>1, <1>3, <1>4, <2>1, <2>4, TimerIInv
<1>5. ASSUME NEW i \in Sockets, PeerSend(i) \/ PeerClose(i), loop.pc = "poll" \/ rd.at = "read"
      PROVE  IInv'
  <2>1. /\ Base(Here') /\ Stays(Here, Here') /\ KeepsLinks(Here, Here')
        /\ \A j \in Sockets : Open(net', j) <=> Open(net, j)
        /\ \A j \in Sockets : net'.sock[j].rb = net.sock[j].rb
        /\ UNCHANGED <<backlog, loop, mishaps>>
    BY <1>1, <1>2, <1>5, PeerHere
  <2>2. Healthy' => LinkedNow(Here', loop.ne)
    <3>1. Healthy' => Healthy
      BY <1>1, <2>1 DEF Healthy, Running
    <3> QED
      BY <1>2, <2>1, <3>1, KeptNow
  <2>3. CASE loop.pc = "poll"
    <3>1. due' \in 0 .. Cap /\ backlog' \in 0 .. MaxBacklog
      BY <1>1, <1>2, <2>1
    <3> QED
      BY <1>1, <1>3, <2>1, <2>2, <2>3, <3>1, TimerIInv
  <2>4. CASE rd.at = "read"
    <3>1. loop.pc = "dispatch" /\ rd' \in ReadType /\ rd' = rd /\ rd.id \in Sockets
      BY <1>1, <1>2, <2>4 DEF ReadType
    <3>2. ReadInv(Here', rd', loop.ne)
      <4>1. Here'.gate = Here.gate /\ Here'.gone = Here.gone /\ Here'.net = net' /\ Here.net = net
        BY <1>1 DEF Here
      <4>2. /\ Open(Here'.net, rd.id) <=> Open(Here.net, rd.id)
            /\ Here'.net.sock[rd.id].rb = Here.net.sock[rd.id].rb
        BY <2>1, <3>1, <4>1
      <4> DEFINE w == Here
                 v == Here'
      <4>3. ReadInv(w, rd, loop.ne)
        BY <1>2
      <4>4. /\ v.gate = w.gate /\ v.gone = w.gone
            /\ Open(v.net, rd.id) <=> Open(w.net, rd.id)
            /\ v.net.sock[rd.id].rb = w.net.sock[rd.id].rb
        BY <4>1, <4>2
      <4> HIDE DEF w, v
      <4>5. ReadInv(v, rd, loop.ne)
        <5>1. rd.at # "idle"
          BY <2>4
        <5>2. /\ loop.ne # <<>> /\ Head(loop.ne).type = "READ" /\ Head(loop.ne).id = rd.id
              /\ rd.c = -1 <=> Head(loop.ne).ud = "node"
              /\ rd.at = "handle" => rd.buf <= rd.nread
          BY <4>3, <5>1 DEF ReadInv
        <5>3. rd.c # -1 =>
                 \/ v.gate.fi.slots[rd.id] = rd.c
                 \/ /\ v.gate.fi.slots[rd.id] = -1 /\ v.gate.p[rd.c].status = "FREE"
                    /\ rd.id \in v.gone /\ ~ Open(v.net, rd.id)
          BY <4>3, <4>4, <5>1 DEF ReadInv
        <5>4. /\ rd.at = "read" /\ rd.force /\ Open(v.net, rd.id) => v.net.sock[rd.id].rb < MsgSize
              /\ rd.at = "handle" => (Open(v.net, rd.id) => v.net.sock[rd.id].rb = rd.nread)
          BY <4>3, <4>4, <5>1 DEF ReadInv
        <5> QED
          BY <5>2, <5>3, <5>4 DEF ReadInv
      <4> QED
        BY <3>1, <4>5 DEF v
    <3> QED
      BY <1>1, <1>3, <2>1, <2>2, <3>1, <3>2, SameIInv
  <2> QED
    BY <1>5, <2>3, <2>4
<1>6. rd.id \in Sockets
  BY <1>2 DEF ReadType
<1> QED
  BY <1>4, <1>5, <1>6 DEF Peers, Environment

-----------------------------------------------------------------------------
\* The initial states: no client, the listening socket, and the link if there is one.
LEMMA OpenEffect ==
    ASSUME NEW t, TableInv(t), t.free_socket # NIL,
           NEW status \in {"LISTENING", "CONNECTED"}, NEW ud \in Services
    PROVE  LET i == t.free_socket
               u == subscribe(create_socket(t, status, ud), i, {"R"})
           IN /\ TableInv(u) /\ Others(t, u, i) /\ i \in Sockets /\ ~ Open(t, i)
              /\ u.sock[i].status = status /\ u.sock[i].ud = ud
              /\ u.free_socket = IF t.sock[i].fd >= 0 THEN t.sock[i].fd ELSE NIL
<1> DEFINE i == t.free_socket
           c == create_socket(t, status, ud)
           m == Made(t.sock[i], status, ud)
           next == IF t.sock[i].fd >= 0 THEN t.sock[i].fd ELSE NIL
           mask == {"R"}
           u == subscribe(c, i, mask)
           s == [c.sock[i] EXCEPT !.mask = mask]
<1>1. TableInv(u)
  <2>1. mask \in Masks
    BY DEF Masks
  <2> QED
    BY <2>1, OpenedKeeps
<1>2. TableInv(c) /\ i \in Sockets /\ ~ Open(t, i) /\ c.sock[i] = m
  BY CreateKeeps
<1>3. m.status = status /\ m.ud = ud /\ m \in SocketType
  <2>1. t.sock[i] \in SocketType
    BY <1>2 DEF TableInv, SockInv
  <2>2. m.status = status /\ m.ud = ud
    BY <2>1 DEF Made, SocketType
  <2>3. c.sock[i] \in SocketType
    BY <1>2 DEF TableInv, NetType
  <2> QED
    BY <1>2, <2>2, <2>3
<1>4. t = [sock |-> t.sock, free_socket |-> t.free_socket, tail_socket |-> t.tail_socket]
      /\ t.sock \in [Sockets -> SocketType]
  BY DEF TableInv, NetType
<1>5. c = [t EXCEPT !.free_socket = next, !.sock[i] = m]
  BY DEF create_socket, Made
<1>6. u = [c EXCEPT !.sock[i] = s]
  BY DEF subscribe
<1> HIDE DEF m, next
<1>7. c.free_socket = next /\ c.sock = [t.sock EXCEPT ![i] = m]
  <2> HIDE DEF c, i
  <2> QED
    BY <1>4, <1>5
<1> HIDE DEF c, mask
<1>8. s.status = status /\ s.ud = ud
  BY <1>2, <1>3 DEF SocketType
<1> HIDE DEF s, u, i
<1>9. Others(c, u, i) /\ u.sock[i] = s
  BY <1>2, <1>6, UpdateEffect
<1>10. u.free_socket = next
  <2>1. c = [sock |-> c.sock, free_socket |-> c.free_socket, tail_socket |-> c.tail_socket]
    BY <1>2 DEF TableInv, NetType
  <2> QED
    BY <1>6, <1>7, <2>1
<1>11. Others(t, u, i)
  <2>1. \A j \in Sockets : j # i => c.sock[j] = t.sock[j]
    BY <1>4, <1>7
  <2> QED
    BY <1>9, <2>1 DEF Others, Same
<1> QED
  BY <1>1, <1>2, <1>8, <1>9, <1>10, <1>11 DEF u, i, next, c, mask

LEMMA InitSockets ==
    ASSUME Init
    PROVE  SocksInv(net) /\ \A i \in Sockets : ~ OfGate(net.sock[i])
<1> DEFINE a == net_create
           b == subscribe(create_socket(a, "LISTENING", "gate"), a.free_socket, {"R"})
           c == subscribe(create_socket(b, "CONNECTED", "node"), b.free_socket, {"R"})
<1>1. TableInv(a)
  BY CreatedInv
<1>2. /\ a.free_socket = 0 /\ 0 \in Sockets /\ 1 \in Sockets
      /\ \A i \in Sockets : a.sock[i].status = "INVALID"
      /\ a.sock[0].fd = 1
  <2>1. 0 \in Sockets /\ 1 \in Sockets
    BY NetAssumption, GateAssumption DEF Sockets
  <2>2. MaxSocket - 1 # 0
    BY NetAssumption, GateAssumption
  <2> QED
    BY <2>1, <2>2 DEF net_create, FreeSocket
<1>3. "gate" \in Services /\ "node" \in Services /\ 0 # NIL /\ 1 # NIL
  BY GateAssumption DEF NIL
<1> HIDE DEF a
<1>4. /\ TableInv(b) /\ Others(a, b, 0)
      /\ b.sock[0].status = "LISTENING" /\ b.sock[0].ud = "gate" /\ b.free_socket = 1
  <2>1. TableInv(a) /\ a.free_socket # NIL /\ "gate" \in Services
    BY <1>1, <1>2, <1>3
  <2>2. /\ TableInv(b) /\ Others(a, b, a.free_socket)
        /\ b.sock[a.free_socket].status = "LISTENING" /\ b.sock[a.free_socket].ud = "gate"
        /\ b.free_socket = IF a.sock[a.free_socket].fd >= 0 THEN a.sock[a.free_socket].fd ELSE NIL
    BY <2>1, OpenEffect
  <2> HIDE DEF b
  <2> QED
    BY <1>2, <2>2
<1> HIDE DEF b
<1>5. /\ TableInv(c) /\ Others(b, c, 1)
      /\ c.sock[1].status = "CONNECTED" /\ c.sock[1].ud = "node"
  <2>1. TableInv(b) /\ b.free_socket # NIL /\ "node" \in Services
    BY <1>3, <1>4
  <2>2. /\ TableInv(c) /\ Others(b, c, b.free_socket)
        /\ c.sock[b.free_socket].status = "CONNECTED" /\ c.sock[b.free_socket].ud = "node"
    BY <2>1, OpenEffect
  <2> HIDE DEF c
  <2> QED
    BY <1>4, <2>2
<1> HIDE DEF c
<1>6. net = IF WorldUp THEN c ELSE b
  BY <1>2, <1>4 DEF Init, ListenId, LinkId, a, b, c
<1>7. /\ \A i \in Sockets : i # 0 => b.sock[i].status = "INVALID"
      /\ \A i \in Sockets : i # 0 /\ i # 1 => c.sock[i].status = "INVALID"
      /\ c.sock[0].status = "LISTENING" /\ c.sock[0].ud = "gate"
  <2>1. \A i \in Sockets : i # 0 => b.sock[i].status = "INVALID"
    BY <1>2, <1>4 DEF Others, Same
  <2>2. \A i \in Sockets : i # 1 => c.sock[i].status = b.sock[i].status /\ c.sock[i].ud = b.sock[i].ud
    BY <1>5 DEF Others, Same
  <2>3. 0 # 1
    OBVIOUS
  <2> QED
    BY <1>2, <1>4, <2>1, <2>2, <2>3
<1>8. SocksInv(b) /\ \A i \in Sockets : ~ OfGate(b.sock[i])
  <2>1. \A i \in Sockets : Open(b, i) => i = 0
    BY <1>7 DEF Open
  <2> QED
    BY <1>3, <1>4, <1>7, <2>1 DEF SocksInv, ListenId, OfGate
<1>9. SocksInv(c) /\ \A i \in Sockets : ~ OfGate(c.sock[i])
  <2>1. \A i \in Sockets : Open(c, i) => i = 0 \/ i = 1
    BY <1>7 DEF Open
  <2>2. \A i \in Sockets : Open(c, i) => c.sock[i].ud \in Services
    BY <1>3, <1>5, <1>7, <2>1
  <2>3. \A i \in Sockets : i # 0 => c.sock[i].status \in {"INVALID", "CONNECTED", "HALFCLOSE"}
    BY <1>5, <1>7
  <2>4. \A i \in Sockets : ~ OfGate(c.sock[i])
    BY <1>5, <1>7 DEF OfGate
  <2> QED
    BY <1>5, <1>7, <2>2, <2>3, <2>4 DEF SocksInv, ListenId
<1> QED
  BY <1>6, <1>8, <1>9

LEMMA InitClients ==
    ASSUME Init
    PROVE  /\ ClientsInv(gate) /\ \A i \in Sockets : gate.fi.slots[i] = -1
           /\ \A c \in Clients : gate.p[c].status = "FREE"
           /\ gate.abort = "none"
<1> DEFINE fi == freeid_init
           p == [c \in Clients |-> FreeClient]
<1>1. gate = [fi |-> fi, used |-> 0, abort |-> "none", culprit |-> 0, p |-> p]
  BY DEF Init
<1>2. fi \in FreeidType /\ FreeOutside(fi, {}) /\ \A i \in Sockets : fi.slots[i] = -1
  <2>1. WellFormed(fi)
    BY InitIsWellFormed
  <2>2. \A i \in Sockets : fi.slots[i] = -1
    BY TableConstants DEF freeid_init
  <2> HIDE DEF fi
  <2>3. fi \in FreeidType
    BY <2>1 DEF WellFormed
  <2>4. PICK n \in 0 .. Cap : \E chain \in [1 .. n -> Ids] : IsFreeList(fi, n, chain)
    BY <2>1 DEF WellFormed
  <2>5. PICK chain \in [1 .. n -> Ids] : IsFreeList(fi, n, chain)
    BY <2>4
  <2>6. IsList(fi, {}, n, chain)
    BY <2>5 DEF IsList, IsFreeList
  <2> QED
    BY <2>2, <2>3, <2>6 DEF FreeOutside
<1>3. p \in [Clients -> ClientType] /\ \A c \in Clients : p[c].status = "FREE"
  <2>1. FreeClient.status = "FREE"
    BY DEF FreeClient
  <2> QED
    BY <2>1, AgesBegin
<1> HIDE DEF fi, p
<1>4. gate \in GateType
  <2>1. 0 \in Sockets /\ "none" \in Asserts /\ 0 \in Int
    BY NetAssumption DEF Sockets, Asserts
  <2> QED
    BY <1>1, <1>2, <1>3, <2>1 DEF GateType
<1>5. TakenIn(gate.p) = {} /\ Cardinality({}) = 0
  <2>1. TakenIn(gate.p) = {}
    BY <1>1, <1>3 DEF TakenIn
  <2> QED
    BY <2>1, FS_EmptySet
<1> QED
  BY <1>1, <1>2, <1>3, <1>4, <1>5 DEF ClientsInv

LEMMA InitIInv == Init => IInv
<1> SUFFICES ASSUME Init PROVE IInv
  OBVIOUS
<1>1. /\ backlog = 0 /\ loop = [pc |-> "poll", ev |-> <<>>, ne |-> <<>>] /\ mishaps = {}
      /\ rd = Idle /\ due = Cap /\ gone = {}
  BY DEF Init
<1>2. SocksInv(net) /\ \A i \in Sockets : ~ OfGate(net.sock[i])
  BY InitSockets
<1>3. /\ ClientsInv(gate) /\ \A i \in Sockets : gate.fi.slots[i] = -1
      /\ \A c \in Clients : gate.p[c].status = "FREE"
      /\ gate.abort = "none"
  BY InitClients
<1>4. Base(Here)
  <2>1. net \in NetType /\ gate \in GateType /\ gone \subseteq Sockets
    BY <1>1, <1>2, <1>3 DEF SocksInv, TableInv, ClientsInv
  <2>2. Here \in States
    BY <2>1 DEF Here, States
  <2>3. ServedInv(net, gate.fi.slots)
    BY <1>2 DEF ServedInv
  <2> QED
    BY <1>2, <1>3, <2>2, <2>3, HereIs DEF Base
<1>5. LoopInv(net, loop) /\ EventsInv(loop.ev, Here) /\ loop.ne = <<>> /\ loop.pc = "poll"
  BY <1>1 DEF LoopInv, LoopType, EventsInv
<1>6. rd \in ReadType /\ rd.at = "idle"
  BY <1>1, NetAssumption, GateAssumption DEF Idle, ReadType, Sockets
<1>7. Running /\ AbortCause
  BY <1>3 DEF Running, AbortCause
<1>8. MsgsInv(loop.ne, Here) /\ FreshAccepts(loop.ne) /\ ReadInv(Here, rd, loop.ne)
  BY <1>5, <1>6, NoMessages DEF ReadInv
<1>9. Linked(Here, Ends(loop.ne), Accepts(loop.ne), LinkReads(loop.ne))
  <2>1. \A c \in Clients : ClientLinked(Here, Ends(loop.ne), c)
    BY <1>3, HereIs DEF ClientLinked
  <2>2. \A i \in Sockets : SocketLinked(Here, Accepts(loop.ne), i)
    BY <1>2, HereIs DEF SocketLinked
  <2>3. Accepts(loop.ne) = {} /\ LinkReads(loop.ne) = {}
    <3>1. DOMAIN loop.ne = {}
      BY <1>5
    <3> QED
      BY <3>1 DEF Accepts, LinkReads
  <2> QED
    BY <2>1, <2>2, <2>3 DEF Linked
<1>10. backlog \in 0 .. MaxBacklog /\ mishaps \subseteq {"lost", "reused"} /\ due \in 0 .. Cap
  BY <1>1, NetAssumption, FreeidAssumption
<1> QED
  BY <1>4, <1>5, <1>6, <1>7, <1>8, <1>9, <1>10 DEF IInv

-----------------------------------------------------------------------------
\* What the runs check of a gate node follows from IInv.
LEMMA NextKeeps == ASSUME LowHeap, IInv, [Next]_vars PROVE IInv'
<1>1. CASE Running /\ Loop
  <2>1. CASE \E tick \in BOOLEAN : GatePoll(tick)
    BY <1>1, <2>1, GatePollKeeps
  <2>2. CASE GateBuild
    BY <1>1, <2>2, AcceptEventKeeps, StreamEventKeeps DEF GateBuild
  <2>3. CASE DispatchInvalid
    BY <1>1, <2>3, InvalidKeeps
  <2>4. CASE DispatchAccept
    BY <1>1, <2>4, AcceptKeeps
  <2>5. CASE DispatchClosed
    BY <1>1, <2>5, ClosedKeeps
  <2>6. CASE DispatchRead
    BY <1>1, <2>6, ReadBegins
  <2>7. CASE ReadLoop
    <3>1. CASE ReadStep
      BY <1>1, <3>1, ReadKeeps
    <3>2. CASE HandleMessage
      BY <1>1, <3>2, HandleKeeps
    <3>3. CASE HandleBadMessage
      BY <1>1, <3>3, BadKeeps
    <3>4. CASE HandleEnd
      BY <1>1, <3>4, EndKeeps
    <3> QED
      BY <2>7, <3>1, <3>2, <3>3, <3>4, Zenon DEF ReadLoop
  <2>8. CASE gate_time
    BY <1>1, <2>8, TimerKeeps
  <2>9. CASE TimerDone
    BY <1>1, <2>9, TimerDoneKeeps
  <2> QED
    BY <1>1, <2>1, <2>2, <2>3, <2>4, <2>5, <2>6, <2>7, <2>8, <2>9, Zenon DEF Loop
<1>2. CASE Running /\ Peers
  BY <1>2, PeersKeep
<1>3. CASE UNCHANGED vars
  <2>1. /\ UNCHANGED <<net, backlog, loop, mishaps, gate, rd, due, gone>>
    BY <1>3 DEF vars, netvars
  <2>2. Here' = Here /\ (AbortCause' <=> AbortCause) /\ (Running' <=> Running) /\ (Healthy' <=> Healthy)
    BY <2>1 DEF Here, AbortCause, Running, Healthy
  <2> QED
    BY <2>1, <2>2 DEF IInv
<1> QED
  BY <1>1, <1>2, <1>3, Zenon DEF Next, Aborted

LEMMA IInvHolds == ASSUME LowHeap PROVE Spec => []IInv
<1>1. IInv /\ [Next]_vars => IInv'
  BY NextKeeps
<1> QED
  BY <1>1, InitIInv, PTL DEF Spec

LEMMA SlotIsFound ==
    ASSUME IInv, NEW i \in Sockets
    PROVE  /\ freeid_find(gate.fi, i) = gate.fi.slots[i]
           /\ gate.fi.slots[i] # -1 => gate.fi.slots[i] \in Taken /\ gate.p[gate.fi.slots[i]].connid = i
<1>1. Base(Here) /\ ClientsInv(gate)
  BY HereIs DEF IInv, Base
<1>2. /\ freeid_find(gate.fi, i) = gate.fi.slots[i]
      /\ gate.fi.slots[i] \in Clients \cup {-1}
  <2> DEFINE w == Here
  <2>1. Base(w) /\ w.gate = gate
    BY <1>1, HereIs
  <2> HIDE DEF w
  <2>2. /\ w.gate.fi.slots[i] \in Clients \cup {-1}
        /\ freeid_find(w.gate.fi, i) = w.gate.fi.slots[i]
    BY <2>1, SlotsType
  <2> QED
    BY <2>1, <2>2
<1>3. gate.fi.slots[i] # -1 =>
        gate.p[gate.fi.slots[i]].status # "FREE" /\ gate.p[gate.fi.slots[i]].connid = i
  BY <1>1, Zenon DEF ClientsInv
<1> QED
  BY <1>2, <1>3 DEF Taken

LEMMA LinksAgree ==
    ASSUME IInv, Healthy
    PROVE  /\ \A c \in Taken : ClientLinked(Here, Ends(loop.ne), c)
           /\ \A i \in Sockets : SocketLinked(Here, Accepts(loop.ne), i)
           /\ \A i \in Accepts(loop.ne) : AcceptLinked(Here, i)
           /\ \A i \in Ends(loop.ne) : Ending(i)
           /\ \A i \in Accepts(loop.ne) : Pending({"ACCEPT"}, i)
<1>1. Linked(Here, Ends(loop.ne), Accepts(loop.ne), LinkReads(loop.ne))
  BY DEF IInv
<1>2. /\ \A i \in Ends(loop.ne) : Ending(i)
      /\ \A i \in Accepts(loop.ne) : Pending({"ACCEPT"}, i)
  BY DEF Ends, Accepts, Ending, Pending
<1> QED
  BY <1>1, <1>2, Zenon DEF Linked, Taken

LEMMA IInvTypes == ASSUME IInv PROVE TypeOK
<1>1. Base(Here) /\ LoopInv(net, loop)
  BY DEF IInv
<1>2. net \in NetType /\ gate \in GateType /\ gone \subseteq Sockets
  BY <1>1, HereIs DEF Base, States
<1>3. loop \in LoopType
  BY <1>1 DEF LoopInv
<1> QED
  BY <1>2, <1>3 DEF IInv, TypeOK

LEMMA IInvAgrees == ASSUME IInv PROVE TablesAgree /\ LogoutIsHalfclose
<1>1. ASSUME Healthy, NEW c \in Taken
      PROVE  LET i == gate.p[c].connid IN
             /\ freeid_find(gate.fi, i) = c
             /\ Ending(i) \/ (Open(net, i) /\ net.sock[i].ud = "gate")
             /\ Ending(i) \/ (gate.p[c].status = "LOGOUTED" <=> net.sock[i].status = "HALFCLOSE")
  <2> DEFINE i == gate.p[c].connid
  <2>1. ClientLinked(Here, Ends(loop.ne), c)
    BY <1>1, LinksAgree
  <2>2. i \in Sockets /\ c \in Clients /\ gate.p[c].status # "FREE"
    <3>1. gate \in GateType
      BY IInvTypes DEF TypeOK
    <3> QED
      BY <3>1 DEF Taken, GateType, ClientType
  <2>3. /\ gate.fi.slots[i] = c
        /\ \/ i \in Ends(loop.ne)
           \/ /\ OfGate(net.sock[i])
              /\ gate.p[c].status = "LOGOUTED" <=> net.sock[i].status = "HALFCLOSE"
    BY <2>1, <2>2, HereIs DEF ClientLinked
  <2>4. freeid_find(gate.fi, i) = c
    BY <2>2, <2>3, SlotIsFound
  <2>5. i \in Ends(loop.ne) => Ending(i)
    BY <1>1, LinksAgree
  <2>6. OfGate(net.sock[i]) => Open(net, i) /\ net.sock[i].ud = "gate"
    BY <2>2 DEF OfGate, Open
  <2> HIDE DEF i
  <2>7. /\ freeid_find(gate.fi, i) = c
        /\ Ending(i) \/ (Open(net, i) /\ net.sock[i].ud = "gate")
        /\ Ending(i) \/ (gate.p[c].status = "LOGOUTED" <=> net.sock[i].status = "HALFCLOSE")
    BY <2>3, <2>4, <2>5, <2>6, Zenon
  <2> QED
    BY <2>7 DEF i
<1>2. ClientHasConnection
  BY <1>1 DEF ClientHasConnection
<1>3. LogoutIsHalfclose
  BY <1>1 DEF LogoutIsHalfclose
<1>4. ConnectionHasClient
  <2> SUFFICES ASSUME Healthy, NEW i \in Sockets, Stream(i), net.sock[i].ud = "gate"
               PROVE  Pending({"ACCEPT"}, i) \/ freeid_find(gate.fi, i) \in Taken
    BY DEF ConnectionHasClient
  <2>1. OfGate(net.sock[i])
    BY DEF Stream, OfGate
  <2>2. i \in Accepts(loop.ne) \/ gate.fi.slots[i] # -1
    <3>1. SocketLinked(Here, Accepts(loop.ne), i)
      BY LinksAgree
    <3> QED
      BY <2>1, <3>1, HereIs DEF SocketLinked
  <2>3. i \in Accepts(loop.ne) => Pending({"ACCEPT"}, i)
    BY LinksAgree
  <2> QED
    BY <2>2, <2>3, SlotIsFound
<1>5. UsedIsExact
  <2>1. gate.used = Cardinality(TakenIn(gate.p))
    BY HereIs DEF IInv, Base, ClientsInv
  <2> QED
    BY <2>1 DEF UsedIsExact, TakenIn, Taken
<1>6. AcceptIsFresh
  <2> SUFFICES ASSUME Healthy, loop.pc = "dispatch", Head(loop.ne).type = "ACCEPT"
               PROVE  freeid_find(gate.fi, Head(loop.ne).id) = -1
    BY DEF AcceptIsFresh
  <2> DEFINE m == Head(loop.ne)
  <2>1. Running
    BY DEF Healthy
  <2>2. /\ loop.ne \in Seq(Messages) /\ loop.ne # <<>>
        /\ m.type # "INVALID" => m.id \in Sockets \ {ListenId}
    BY <2>1, Dispatched
  <2>3. m.id \in Sockets /\ 1 \in DOMAIN loop.ne /\ m = loop.ne[1]
    BY <2>2, RestShifts
  <2>4. m.id \in Accepts(loop.ne)
    BY <2>3 DEF Accepts
  <2>5. AcceptLinked(Here, m.id)
    BY <2>4, LinksAgree
  <2>6. gate.fi.slots[m.id] = -1
    BY <2>5, HereIs DEF AcceptLinked
  <2> QED
    BY <2>3, <2>6, SlotIsFound
<1>7. ConnidMatches
  BY SlotIsFound DEF ConnidMatches
<1> QED
  BY <1>2, <1>3, <1>4, <1>5, <1>6, <1>7, IInvTypes DEF TablesAgree

\* In a gate node of any size, whatever its peers and the world send and in
\* whatever order epoll reports it, the client table of sc_gate.c, the socket
\* table of net.c and the handler agree: unless a batch lost a message or reused
\* an id, every client has an open connection that leads back to it and no
\* connection is without a client; the load that is reported is exact, an id is
\* never taken for a connection that has one, and assert(c->connid == connid) of
\* sc_gate_getclient holds always.  LowHeap: the heap is where freeid.h works.
THEOREM TablesAlwaysAgree == ASSUME LowHeap PROVE Spec => []TablesAgree
<1>1. IInv => TablesAgree
  BY IInvAgrees
<1> QED
  BY <1>1, IInvHolds, PTL

\* Unless a batch lost a message or reused an id, sc_gate_disconnclient and
\* net_close_socket never disagree: a client is LOGOUTED exactly while its
\* connection is half-closed.
THEOREM LogoutIsAlwaysHalfclose == ASSUME LowHeap PROVE Spec => []LogoutIsHalfclose
<1>1. IInv => LogoutIsHalfclose
  BY IInvAgrees
<1> QED
  BY <1>1, IInvHolds, PTL

\* The asserts of service_forward.c, service_gate.c and sc_gate.c fail in no other
\* way than the two that are known: a message that arrives for a client freed
\* earlier in the same batch, and, after a batch lost a message or reused an id,
\* a timeout of a client whose connection id belongs to another by then.
THEOREM AssertsFailOnlyThen == ASSUME LowHeap PROVE Spec => []AbortCause
<1>1. IInv => AbortCause
  BY DEF IInv
<1> QED
  BY <1>1, IInvHolds, PTL
=============================================================================

-------------------------------- MODULE Net ---------------------------------
(***************************************************************************)
(* net/net.c and the poll half of libshaco/sc_net.c: the socket table, its *)
(* free list, the write buffers and half-close, and net_poll, which turns  *)
(* a batch of epoll events into the messages that _dispatch delivers.      *)
(*                                                                         *)
(* net is struct net with its sockets.  A handler makes several calls into *)
(* the table, so every call is an operator from a net to a net.  The last  *)
(* two fields of a socket, inq and eof, are the kernel's side of it.       *)
(***************************************************************************)
EXTENDS Integers, Sequences, FiniteSets

CONSTANTS MaxSocket,    \* sc_connmax
          Services,     \* the services that own sockets, the ud of a socket
          WBufferMax,   \* gate_wbuffermax, the limit of a socket's unsent bytes
          RBufferMax,   \* RDBUFFER_SIZE, the unread bytes net_read can buffer
          MaxIn,        \* bound: bytes the kernel queues for one socket
          MaxBacklog    \* bound: connections waiting in accept()

ASSUME NetAssumption ==
    /\ MaxSocket \in Nat \ {0}
    /\ "none" \notin Services
    /\ WBufferMax \in Nat \ {0}
    /\ RBufferMax \in Nat \ {0}
    /\ MaxIn \in Nat
    /\ MaxBacklog \in Nat

Sockets == 0 .. MaxSocket - 1
NIL == -1      \* no socket; also the fd that ends the free list
KFD == -2      \* the fd of an open socket, a kernel descriptor

\* SUSPEND is a status only inside _create_socket's callers.
Status == {"INVALID", "LISTENING", "CONNECTING", "CONNECTED", "HALFCLOSE"}
Masks == SUBSET {"R", "W"}     \* NET_RABLE, NET_WABLE

VARIABLES net,      \* the socket table
          backlog,  \* connections the listening socket can accept
          loop,     \* sc_start's loop: what the current poll has still to do
          mishaps   \* history: what the batches of net_poll have suffered

netvars == <<net, backlog, loop, mishaps>>

SocketType ==
    [status : Status, mask : Masks, fd : Sockets \cup {NIL, KFD}, ud : Services \cup {"none"},
     rb : 0 .. RBufferMax, head : Nat, wbuffersz : Nat, inq : 0 .. MaxIn, eof : BOOLEAN]

NetType == [sock : [Sockets -> SocketType],
            free_socket : Sockets \cup {NIL},
            tail_socket : Sockets]

-----------------------------------------------------------------------------
\* The socket table.

FreeSocket(next) ==
    [status |-> "INVALID", mask |-> {}, fd |-> next, ud |-> "none",
     rb |-> 0, head |-> 0, wbuffersz |-> 0, inq |-> 0, eof |-> FALSE]

\* Nothing of a connection is left in it.
Clean(s) ==
    /\ s.mask = {} /\ s.ud = "none" /\ s.rb = 0 /\ s.head = 0 /\ s.wbuffersz = 0
    /\ s.inq = 0 /\ s.eof = FALSE

net_create ==
    [sock |-> [i \in Sockets |-> FreeSocket(IF i = MaxSocket - 1 THEN NIL ELSE i + 1)],
     free_socket |-> 0,
     tail_socket |-> MaxSocket - 1]

\* _get_socket finds the socket open.
Open(n, i) == i \in Sockets /\ n.sock[i].status # "INVALID"

\* The socket that _create_socket takes is n.free_socket; mask, head and the
\* kernel's queue are what _close_socket left.
create_socket(n, status, ud) ==
    LET i == n.free_socket IN
    [n EXCEPT !.free_socket = IF n.sock[i].fd >= 0 THEN n.sock[i].fd ELSE NIL,
              !.sock[i] = [@ EXCEPT !.fd = KFD, !.status = status, !.ud = ud,
                                    !.rb = 0, !.wbuffersz = 0]]

\* Mutants of _close_socket: tail_socket is not moved, the mask is kept.
CloseForgetsTail(n, i) ==
    IF n.sock[i].status = "INVALID" THEN n
    ELSE LET cleared == [n EXCEPT !.sock[i] = FreeSocket(NIL)]
         IN IF n.free_socket = NIL
            THEN [cleared EXCEPT !.free_socket = i]
            ELSE [cleared EXCEPT !.sock[n.tail_socket].fd = i]
CloseKeepsMask(n, i) ==
    IF n.sock[i].status = "INVALID" THEN n
    ELSE LET cleared == [n EXCEPT !.sock[i] = [FreeSocket(NIL) EXCEPT !.mask = n.sock[i].mask],
                                  !.tail_socket = i]
         IN IF n.free_socket = NIL
            THEN [cleared EXCEPT !.free_socket = i]
            ELSE [cleared EXCEPT !.sock[n.tail_socket].fd = i]

close_socket(n, i) ==
    IF n.sock[i].status = "INVALID"
    THEN n
    ELSE LET cleared == [n EXCEPT !.sock[i] = FreeSocket(NIL), !.tail_socket = i]
         IN IF n.free_socket = NIL
            THEN [cleared EXCEPT !.free_socket = i]
            ELSE [cleared EXCEPT !.sock[n.tail_socket].fd = i]

\* _close_socket runs assert(self->tail_socket->fd == -1).
CloseAsserts(n, i) == Open(n, i) /\ n.free_socket # NIL => n.sock[n.tail_socket].fd = NIL

subscribe(n, i, mask) == [n EXCEPT !.sock[i].mask = mask]

\* Mutant: the write subscription is forgotten.
SubscribeDropsWrite(n, i, read) ==
    IF Open(n, i) THEN subscribe(n, i, IF read THEN {"R"} ELSE {}) ELSE n

net_subscribe(n, i, read) ==
    IF Open(n, i)
    THEN subscribe(n, i, (IF read THEN {"R"} ELSE {}) \cup (n.sock[i].mask \cap {"W"}))
    ELSE n

\* With unsent bytes an unforced close only marks the socket.
ClosesNow(n, i, force) == Open(n, i) => force \/ n.sock[i].head = 0

net_close_socket(n, i, force) ==
    IF ~ Open(n, i) THEN n
    ELSE IF ClosesNow(n, i, force) THEN close_socket(n, i)
    ELSE [n EXCEPT !.sock[i].status = "HALFCLOSE"]

\* chain lists the n sockets of the free list of table t, head first.
IsPool(t, n, chain) ==
    /\ \A j, k \in 1 .. n : chain[j] = chain[k] => j = k
    /\ t.free_socket = IF n = 0 THEN NIL ELSE chain[1]
    /\ n > 0 => t.tail_socket = chain[n]
    /\ \A k \in 1 .. n : t.sock[chain[k]].fd = IF k = n THEN NIL ELSE chain[k + 1]
    /\ \A i \in Sockets : Open(t, i) <=> \A k \in 1 .. n : chain[k] # i

Pool(t) == \E n \in 0 .. MaxSocket : \E chain \in [1 .. n -> Sockets] : IsPool(t, n, chain)

-----------------------------------------------------------------------------
\* Writing.

\* net_send of sz bytes to an open socket, of which the kernel takes written
\* at once; written = -1 is a write that fails for good.  The kernel is only
\* asked when nothing is queued before.
SendResult(n, i, sz, written) ==
    LET s == n.sock[i]
        rest == IF s.head = 0 THEN sz - written ELSE sz
    IN IF ~ Open(n, i) \/ s.status = "HALFCLOSE" THEN "refused"
       ELSE IF s.head = 0 /\ written = -1 THEN "error"
       ELSE IF rest > 0 /\ s.wbuffersz + rest > WBufferMax THEN "error"
       ELSE "ok"

\* rest bytes are put on the socket's list; the first ones subscribe it.
Queued(s, rest) ==
    LET mask == IF s.head = 0 THEN s.mask \cup {"W"} ELSE s.mask
    IN [s EXCEPT !.head = s.head + rest, !.wbuffersz = s.wbuffersz + rest, !.mask = mask]

net_send(n, i, sz, written) ==
    LET s == n.sock[i]
        rest == IF s.head = 0 THEN sz - written ELSE sz
        result == SendResult(n, i, sz, written)
    IN IF result = "refused" \/ (result = "ok" /\ rest = 0) THEN n
       ELSE IF result = "error" THEN close_socket(n, i)
       ELSE [n EXCEPT !.sock[i] = Queued(s, rest)]

\* _send_buffer when the kernel takes k of the queued bytes.
Flushed(s, k) ==
    LET mask == IF k > 0 /\ k = s.head THEN s.mask \ {"W"} ELSE s.mask
    IN [s EXCEPT !.head = s.head - k, !.wbuffersz = s.wbuffersz - k, !.mask = mask]

send_buffer(n, i, k) == [n EXCEPT !.sock[i] = Flushed(n.sock[i], k)]

-----------------------------------------------------------------------------
\* Reading.  net_read(force = FALSE) returns what is buffered, if anything,
\* and else asks the kernel; it returns the number of buffered bytes.  Of the
\* buffer only the number of unread bytes is kept: net_dropread moves them to
\* the front when the end is reached.

AsksKernel(n, i, force) == force \/ n.sock[i].rb = 0

\* What one read takes from the kernel; assert(space > 0) of _readto needs room.
ReadSize(s) == IF s.rb + s.inq <= RBufferMax THEN s.inq ELSE RBufferMax - s.rb
ReadAsserts(n, i, force) == Open(n, i) /\ AsksKernel(n, i, force) => n.sock[i].rb < RBufferMax

\* The peer closed or the connection broke, and every byte before was taken.
AtEof(n, i) == n.sock[i].inq = 0 /\ n.sock[i].eof

ReadResult(n, i, force) ==
    LET s == n.sock[i] IN
    IF ~ Open(n, i) THEN "none"
    ELSE IF ~ AsksKernel(n, i, force) THEN "data"
    ELSE IF AtEof(n, i) THEN "error"
    ELSE IF s.status = "HALFCLOSE" THEN "none"   \* _read_close drops the bytes
    ELSE IF s.rb + s.inq = 0 THEN "none"
    ELSE "data"

net_read(n, i, force) ==
    LET s == n.sock[i] IN
    IF ~ Open(n, i) \/ ~ AsksKernel(n, i, force) THEN n
    ELSE IF AtEof(n, i) THEN close_socket(n, i)
    ELSE IF s.status = "HALFCLOSE" THEN [n EXCEPT !.sock[i].inq = 0]
    ELSE [n EXCEPT !.sock[i] = [s EXCEPT !.rb = s.rb + ReadSize(s), !.inq = s.inq - ReadSize(s)]]

net_dropread(n, i, sz) ==
    IF Open(n, i) THEN [n EXCEPT !.sock[i].rb = @ - sz] ELSE n

-----------------------------------------------------------------------------
\* net_poll.  epoll_wait returns every ready socket once, in an order of its
\* own; the loop over self->ev builds one message per event into self->ne.

MessageTypes == {"INVALID", "READ", "ACCEPT", "CONNECT", "CONNERR", "SOCKERR",
                 "WRIDONECLOSE", "CONN_THEN_READ"}
Messages == [type : MessageTypes, id : Sockets \cup {NIL}, ud : Services \cup {"none"}]
Events == [id : Sockets, r : BOOLEAN, w : BOOLEAN]

\* loop.pc: "poll" in epoll_wait, "build" in the loop of net_poll with the events
\* ev left, "dispatch" in _dispatch with the messages ne left, "timer" after it.
LoopType == [pc : {"poll", "build", "dispatch", "timer"}, ev : Seq(Events), ne : Seq(Messages)]

Message(type, n, i) == [type |-> type, id |-> i, ud |-> n.sock[i].ud]
NoMessage == [type |-> "INVALID", id |-> NIL, ud |-> "none"]

Readable(i) ==
    LET s == net.sock[i] IN
    /\ "R" \in s.mask
    /\ CASE s.status = "LISTENING"  -> backlog > 0
         [] s.status = "CONNECTING" -> s.eof
         [] OTHER                   -> s.inq > 0 \/ s.eof

\* EPOLLERR and EPOLLHUP count as writable and need no subscription.
MayBeWritable(i) == net.sock[i].mask # {} /\ ("W" \in net.sock[i].mask \/ net.sock[i].eof)

\* The orders in which the elements of a set can be listed.
Orders(S) == {o \in [1 .. Cardinality(S) -> S] : \A j, k \in DOMAIN o : j # k => o[j] # o[k]}

Batches ==
    UNION {{[k \in DOMAIN o |-> [id |-> o[k], r |-> Readable(o[k]), w |-> o[k] \in W]] :
                o \in Orders(W \cup {i \in Sockets : Readable(i)})} :
           W \in SUBSET {i \in Sockets : MayBeWritable(i)}}

Poll ==
    /\ loop.pc = "poll"
    /\ \E batch \in Batches :
          loop' = [pc |-> IF batch = <<>> THEN "timer" ELSE "build", ev |-> batch, ne |-> <<>>]
    /\ UNCHANGED <<net, backlog, mishaps>>

\* self->nevent counts the messages that are not INVALID, but message k stands
\* at index k of self->ne, and _dispatch takes the first nevent indices.
nevent(ne) == Cardinality({k \in DOMAIN ne : ne[k].type # "INVALID"})

\* A message that is not repeated by the next poll, as a READ is, is not dispatched.
Loses(ne) == \E k \in nevent(ne) + 1 .. Len(ne) : ne[k].type \notin {"INVALID", "READ"}

\* The connection accepted has the id of one that ended earlier in the batch.
Reuses(ne, message) ==
    /\ message.type = "ACCEPT"
    /\ \E k \in DOMAIN ne : ne[k].id = message.id

Build(message) ==
    LET ne == Append(loop.ne, message)
        c == nevent(ne)
    IN /\ loop' = IF Len(loop.ev) > 1
                  THEN [loop EXCEPT !.ev = Tail(@), !.ne = ne]
                  ELSE [pc |-> IF c = 0 THEN "timer" ELSE "dispatch",
                        ev |-> <<>>, ne |-> SubSeq(ne, 1, c)]
       /\ mishaps' = mishaps
            \cup (IF Len(loop.ev) = 1 /\ Loses(ne) THEN {"lost"} ELSE {})
            \cup (IF Reuses(loop.ne, message) THEN {"reused"} ELSE {})

\* The next event is for a socket in one of the statuses S.
Building(S) == loop.pc = "build" /\ net.sock[Head(loop.ev).id].status \in S

\* _accept: accept() may fail, the table may be full, O_NONBLOCK may be refused.
BuildAccept ==
    /\ Building({"LISTENING"})
    /\ LET ud == net.sock[Head(loop.ev).id].ud
           created == create_socket(net, "CONNECTED", ud)
           i == net.free_socket
       IN \/ UNCHANGED <<net, backlog>> /\ Build(NoMessage)
          \/ /\ backlog > 0
             /\ backlog' = backlog - 1
             /\ \/ i = NIL /\ UNCHANGED net /\ Build(NoMessage)
                \/ i # NIL /\ net' = close_socket(created, i) /\ Build(NoMessage)
                \/ i # NIL /\ net' = created /\ Build(Message("ACCEPT", created, i))

\* _onconnect
BuildConnect ==
    /\ Building({"CONNECTING"})
    /\ UNCHANGED backlog
    /\ LET e == Head(loop.ev)
           connected == [net EXCEPT !.sock[e.id] = [@ EXCEPT !.status = "CONNECTED", !.mask = {}]]
       IN \/ ~ e.w /\ UNCHANGED net /\ Build(NoMessage)
          \/ e.w /\ net' = close_socket(net, e.id) /\ Build(Message("CONNERR", net, e.id))
          \/ /\ e.w /\ net' = connected
             /\ Build(Message(IF e.r THEN "CONN_THEN_READ" ELSE "CONNECT", net, e.id))

\* The kernel takes k of the queued bytes, or the write fails for good.
BuildStream ==
    /\ Building({"CONNECTED", "HALFCLOSE"})
    /\ UNCHANGED backlog
    /\ LET e == Head(loop.ev)
           s == net.sock[e.id]
           read == IF e.r THEN Message("READ", net, e.id) ELSE NoMessage
       IN \/ ~ e.w /\ UNCHANGED net /\ Build(read)
          \/ /\ e.w
             /\ \E k \in 0 .. s.head :
                   IF s.status = "HALFCLOSE" /\ k = s.head
                   THEN /\ net' = close_socket(net, e.id)
                        /\ Build(Message("WRIDONECLOSE", net, e.id))
                   ELSE net' = send_buffer(net, e.id, k) /\ Build(read)
          \/ /\ e.w /\ s.head > 0
             /\ net' = close_socket(net, e.id)
             /\ Build(Message("SOCKERR", net, e.id))

BuildStep == BuildAccept \/ BuildConnect \/ BuildStream

\* _dispatch is done with the first message.
NextMessage ==
    IF Len(loop.ne) > 1
    THEN [loop EXCEPT !.ne = Tail(@)]
    ELSE [loop EXCEPT !.pc = "timer", !.ne = <<>>]

-----------------------------------------------------------------------------
\* The peers and the kernel.

Stream(i) == net.sock[i].status \in {"CONNECTED", "HALFCLOSE"}

PeerConnect ==
    /\ backlog < MaxBacklog
    /\ backlog' = backlog + 1
    /\ UNCHANGED <<net, loop, mishaps>>

PeerSend(i) ==
    /\ Stream(i) /\ ~ net.sock[i].eof /\ net.sock[i].inq < MaxIn
    /\ net' = [net EXCEPT !.sock[i].inq = @ + 1]
    /\ UNCHANGED <<backlog, loop, mishaps>>

PeerClose(i) ==
    /\ Stream(i) /\ ~ net.sock[i].eof
    /\ net' = [net EXCEPT !.sock[i].eof = TRUE]
    /\ UNCHANGED <<backlog, loop, mishaps>>

Environment == PeerConnect \/ \E i \in Sockets : PeerSend(i) \/ PeerClose(i)
=============================================================================

----------------------------- MODULE NetProofs ------------------------------
(***************************************************************************)
(* Theorems about the socket table of Net under NetService, for every      *)
(* number of sockets and every buffer size, from the lemmas about each     *)
(* call of NetLemmas.                                                      *)
(***************************************************************************)
EXTENDS NetService, NetLemmas

-----------------------------------------------------------------------------
\* The inductive invariant.
Inv ==
    /\ TableInv(net)
    /\ LoopInv(net, loop)
    /\ backlog \in 0 .. MaxBacklog
    /\ mishaps \subseteq {"lost", "reused"}

LEMMA InvInit == Init => Inv
<1> SUFFICES ASSUME Init PROVE Inv
  OBVIOUS
<1>1. TableInv(net)
  BY CreatedInv DEF Init
<1>2. loop \in LoopType /\ loop.pc = "timer" /\ loop.ev = <<>>
  BY DEF Init, LoopType
<1>3. LoopInv(net, loop)
  BY <1>2 DEF LoopInv
<1> QED
  BY <1>1, <1>3, NetAssumption DEF Init, Inv

\* Outside the loop of net_poll no event waits, so any table goes with the loop.
LEMMA NoEvents ==
    ASSUME LoopInv(net, loop), loop.pc # "build", NEW u
    PROVE  LoopInv(u, loop)
<1>1. loop.ev = <<>> /\ \A k \in DOMAIN loop.ev : FALSE
  BY DEF LoopInv
<1> QED
  BY <1>1 DEF LoopInv

LEMMA CallKeeps ==
    ASSUME Inv, NEW u, TableInv(u), Call(u)
    PROVE  Inv'
<1>1. loop.pc # "build" /\ net' = u /\ UNCHANGED <<backlog, loop, mishaps>>
  BY DEF Call, InService
<1>2. LoopInv(net', loop')
  BY <1>1, NoEvents DEF Inv
<1>3. TableInv(net')
  BY <1>1
<1> QED
  BY <1>1, <1>2, <1>3 DEF Inv

LEMMA ServiceKeeps ==
    ASSUME Inv, Service
    PROVE  Inv'
<1>1. TableInv(net) /\ LoopInv(net, loop)
  BY DEF Inv
<1>2. \A i \in Sockets : Knows(i) /\ Open(net, i) => net.sock[i].status \in {"CONNECTED", "HALFCLOSE"}
  BY <1>1 DEF Knows, Open, TableInv, NetType, SocketType, Status
<1>3. ASSUME NEW ud \in Services, Listen(ud) PROVE Inv'
  <2>1. {"R"} \in Masks
    BY DEF Masks
  <2> QED
    BY <1>1, <1>3, <2>1, OpenedKeeps, CallKeeps DEF Listen
<1>4. ASSUME NEW ud \in Services, Connect(ud) PROVE Inv'
  <2>1. {"R", "W"} \in Masks
    BY DEF Masks
  <2>2. TableInv(subscribe(create_socket(net, "CONNECTING", ud), net.free_socket, {"R", "W"}))
    BY <1>1, <1>4, <2>1, OpenedKeeps DEF Connect
  <2>3. TableInv(create_socket(net, "CONNECTED", ud))
    BY <1>1, <1>4, CreateKeeps DEF Connect
  <2> QED
    BY <1>4, <2>2, <2>3, CallKeeps DEF Connect
<1>5. ASSUME NEW i \in Sockets, Subscribe(i) PROVE Inv'
  <2>1. PICK read \in BOOLEAN : Call(net_subscribe(net, i, read))
    BY <1>5 DEF Subscribe
  <2>2. TableInv(net_subscribe(net, i, read))
    BY <1>1, NetSubscribeTouches DEF Touches
  <2> QED
    BY <2>1, <2>2, CallKeeps
<1>6. ASSUME NEW i \in Sockets, Send(i) PROVE Inv'
  <2>1. PICK sz \in 1 .. MaxSend : \E written \in -1 .. sz : Call(net_send(net, i, sz, written))
    BY <1>6 DEF Send
  <2>2. PICK written \in -1 .. sz : Call(net_send(net, i, sz, written))
    BY <2>1
  <2>3. sz \in Nat \ {0}
    BY MaxSendAssumption
  <2>4. TableInv(net_send(net, i, sz, written))
    BY <1>1, <1>2, <1>6, <2>3, SendTouches DEF Touches, Send
  <2> QED
    BY <2>2, <2>4, CallKeeps
<1>7. ASSUME NEW i \in Sockets, Close(i) PROVE Inv'
  <2>1. PICK force \in BOOLEAN : Call(net_close_socket(net, i, force))
    BY <1>7 DEF Close
  <2>2. TableInv(net_close_socket(net, i, force))
    BY <1>1, <1>2, <1>7, NetCloseTouches DEF Touches, Close
  <2> QED
    BY <2>1, <2>2, CallKeeps
<1>8. CASE Read
  <2> DEFINE i == Head(loop.ne).id
  <2>1. PICK force \in BOOLEAN : ReadAsserts(net, i, force) /\ Call(net_read(net, i, force))
    BY <1>8 DEF Read
  <2> HIDE DEF i
  <2>2. CASE i \in Sockets
    <3>1. TableInv(net_read(net, i, force))
      BY <1>1, <2>1, <2>2, ReadTouches DEF Touches
    <3> QED
      BY <2>1, <3>1, CallKeeps
  <2>3. CASE i \notin Sockets
    <3>1. net_read(net, i, force) = net
      BY <2>3 DEF net_read, Open
    <3> QED
      BY <1>1, <2>1, <3>1, CallKeeps
  <2> QED
    BY <2>2, <2>3
<1>9. CASE Drop
  <2> DEFINE i == Head(loop.ne).id
  <2>1. i \in Sockets /\ \E sz \in 1 .. net.sock[i].rb : Call(net_dropread(net, i, sz))
    BY <1>9 DEF Drop
  <2> HIDE DEF i
  <2>2. PICK sz \in 1 .. net.sock[i].rb : Call(net_dropread(net, i, sz))
    BY <2>1
  <2>3. TableInv(net_dropread(net, i, sz))
    BY <1>1, <2>1, DropTouches DEF Touches
  <2> QED
    BY <2>2, <2>3, CallKeeps
<1>10. CASE Return
  <2>1. loop.pc \in {"dispatch", "timer"} /\ UNCHANGED <<net, backlog, mishaps>>
        /\ loop \in LoopType /\ loop.ev = <<>>
    BY <1>1, <1>10 DEF Return, InService, LoopInv
  <2>2. loop' \in LoopType /\ loop'.ev = <<>> /\ loop'.pc # "build"
        /\ (loop'.pc = "dispatch" => loop'.ne # <<>>)
    <3>1. CASE loop.pc = "timer"
      <4>1. loop' = [loop EXCEPT !.pc = "poll"]
        BY <1>10, <3>1 DEF Return
      <4> QED
        BY <2>1, <4>1 DEF LoopType
    <3>2. CASE loop.pc = "dispatch" /\ Len(loop.ne) > 1
      <4>1. loop' = [loop EXCEPT !.ne = Tail(loop.ne)]
        BY <1>10, <3>2 DEF Return, NextMessage
      <4>2. loop.ne \in Seq(Messages)
        BY <2>1 DEF LoopType
      <4>3. Tail(loop.ne) \in Seq(Messages) /\ Tail(loop.ne) # <<>>
        BY <3>2, <4>2, TailShifts
      <4> QED
        BY <2>1, <3>2, <4>1, <4>3 DEF LoopType
    <3>3. CASE loop.pc = "dispatch" /\ ~ (Len(loop.ne) > 1)
      <4>1. loop' = [loop EXCEPT !.pc = "timer", !.ne = <<>>]
        BY <1>10, <3>3 DEF Return, NextMessage
      <4>2. <<>> \in Seq(Messages)
        OBVIOUS
      <4> QED
        BY <2>1, <4>1, <4>2 DEF LoopType
    <3> QED
      BY <2>1, <3>1, <3>2, <3>3
  <2>3. \A k \in DOMAIN loop'.ev : FALSE
    BY <2>2
  <2>4. LoopInv(net, loop')
    BY <2>2, <2>3 DEF LoopInv
  <2> QED
    BY <2>1, <2>4 DEF Inv
<1> QED
  BY <1>3, <1>4, <1>5, <1>6, <1>7, <1>8, <1>9, <1>10 DEF Service

LEMMA BuildStepKeeps ==
    ASSUME Inv, BuildStep
    PROVE  Inv'
<1> DEFINE e == Head(loop.ev)
           i == e.id
<1>1. /\ TableInv(net) /\ LoopInv(net, loop) /\ loop.pc = "build"
      /\ backlog \in 0 .. MaxBacklog /\ mishaps \subseteq {"lost", "reused"}
  BY DEF Inv, BuildStep, BuildAccept, BuildConnect, BuildStream, Building
<1>2. e \in Events /\ Open(net, i) /\ i \in Sockets
  <2>1. loop.ev \in Seq(Events) /\ loop.ev # <<>>
    BY <1>1 DEF LoopInv, LoopType
  <2>2. 1 \in DOMAIN loop.ev /\ e = loop.ev[1] /\ loop.ev[1] \in Events
    BY <2>1
  <2> QED
    BY <1>1, <2>2 DEF LoopInv, Events
<1>3. \A j \in Sockets : net.sock[j].ud \in Services \cup {"none"}
  BY <1>1 DEF TableInv, NetType, SocketType
<1>4. NoMessage \in Messages
  BY DEF NoMessage, Messages, MessageTypes
<1>5. \A type \in MessageTypes : Message(type, net, i) \in Messages
  BY <1>2, <1>3 DEF Message, Messages
\* It is enough that the step leaves the other sockets open.
<1>6. ASSUME TableInv(net'), NEW message \in Messages, Build(message), backlog' \in 0 .. MaxBacklog,
             \A j \in Sockets : j # i /\ Open(net, j) => Open(net', j)
      PROVE  Inv'
  <2>1. LoopInv(net', loop') /\ mishaps' \subseteq {"lost", "reused"}
    BY <1>1, <1>6, BuildKeeps
  <2> QED
    BY <1>6, <2>1 DEF Inv
<1>7. ASSUME NEW u, Touches(net, u, i), net' = u, UNCHANGED backlog, NEW message \in Messages, Build(message)
      PROVE  Inv'
  BY <1>1, <1>6, <1>7 DEF Touches
<1>8. CASE BuildAccept
  <2> DEFINE ud == net.sock[i].ud
             created == create_socket(net, "CONNECTED", ud)
             f == net.free_socket
  <2>1. backlog' \in 0 .. MaxBacklog
    BY <1>1, <1>8, NetAssumption DEF BuildAccept
  <2>2. CASE UNCHANGED net /\ Build(NoMessage)
    BY <1>1, <1>4, <1>6, <2>1, <2>2
  <2>3. ASSUME f # NIL, net' \in {created, close_socket(created, f)},
               Build(NoMessage) \/ Build(Message("ACCEPT", created, f))
        PROVE  Inv'
    <3>1. ud \in Services \cup {"none"}
      BY <1>2, <1>3
    <3>2. /\ TableInv(created) /\ f \in Sockets
          /\ \A j \in Sockets : Open(created, j) <=> Open(net, j) \/ j = f
          /\ ~ Open(net, f)
      BY <1>1, <2>3, <3>1, CreateKeeps
    <3> HIDE DEF created, f
    <3>3. /\ TableInv(close_socket(created, f))
          /\ \A j \in Sockets : Open(close_socket(created, f), j) <=> Open(created, j) /\ j # f
      BY <3>2, CloseKeeps
    <3>4. TableInv(net') /\ \A j \in Sockets : Open(net, j) => Open(net', j)
      BY <2>3, <3>2, <3>3
    <3>5. Message("ACCEPT", created, f) \in Messages
      BY <3>2 DEF Message, Messages, MessageTypes, TableInv, NetType, SocketType
    <3> QED
      BY <1>4, <1>6, <2>1, <2>3, <3>4, <3>5
  <2> QED
    BY <1>8, <2>2, <2>3 DEF BuildAccept
<1>9. CASE BuildConnect
  <2>1. net.sock[i].status = "CONNECTING"
    BY <1>9 DEF BuildConnect, Building
  <2> DEFINE connected == [net EXCEPT !.sock[i] = [@ EXCEPT !.status = "CONNECTED", !.mask = {}]]
  <2>2. Touches(net, connected, i) /\ Touches(net, net, i) /\ Touches(net, close_socket(net, i), i)
    BY <1>1, <1>2, <2>1, ConnectedTouches, SameTouches, CloseTouches
  <2>3. {"CONNERR", "CONN_THEN_READ", "CONNECT"} \subseteq MessageTypes
    BY DEF MessageTypes
  <2>4. \/ net' = net /\ Build(NoMessage)
        \/ net' = close_socket(net, i) /\ Build(Message("CONNERR", net, i))
        \/ net' = connected /\ Build(Message("CONN_THEN_READ", net, i))
        \/ net' = connected /\ Build(Message("CONNECT", net, i))
    BY <1>9 DEF BuildConnect
  <2>5. UNCHANGED backlog
    BY <1>9 DEF BuildConnect
  <2> HIDE DEF connected, i
  <2> QED
    BY <1>4, <1>5, <1>7, <2>2, <2>3, <2>4, <2>5
<1>10. CASE BuildStream
  <2>1. net.sock[i].status \in {"CONNECTED", "HALFCLOSE"}
    BY <1>10 DEF BuildStream, Building
  <2>2. Touches(net, net, i) /\ Touches(net, close_socket(net, i), i)
    BY <1>1, <1>2, SameTouches, CloseTouches
  <2>3. {"READ", "WRIDONECLOSE", "SOCKERR"} \subseteq MessageTypes
    BY DEF MessageTypes
  <2> DEFINE read == IF e.r THEN Message("READ", net, i) ELSE NoMessage
  <2>4. read \in Messages
    BY <1>4, <1>5, <2>3
  <2>5. UNCHANGED backlog
    BY <1>10, ZenonT(40) DEF BuildStream
  <2>6. \/ net' = net /\ Build(read)
        \/ net' = close_socket(net, i) /\ Build(Message("WRIDONECLOSE", net, i))
        \/ net' = close_socket(net, i) /\ Build(Message("SOCKERR", net, i))
        \/ \E k \in 0 .. net.sock[i].head :
              /\ ~ (net.sock[i].status = "HALFCLOSE" /\ k = net.sock[i].head)
              /\ net' = send_buffer(net, i, k) /\ Build(read)
    BY <1>10 DEF BuildStream
  <2> HIDE DEF read, i
  <2>7. ASSUME NEW k \in 0 .. net.sock[i].head,
               ~ (net.sock[i].status = "HALFCLOSE" /\ k = net.sock[i].head)
        PROVE  Touches(net, send_buffer(net, i, k), i)
    BY <1>1, <1>2, <2>1, <2>7, FlushTouches
  <2> QED
    BY <1>5, <1>7, <2>2, <2>3, <2>4, <2>5, <2>6, <2>7
<1> QED
  BY <1>8, <1>9, <1>10, Zenon DEF BuildStep

LEMMA PeersKeep ==
    ASSUME Inv, Peers
    PROVE  Inv'
<1>1. TableInv(net) /\ LoopInv(net, loop) /\ loop.pc # "build"
      /\ backlog \in 0 .. MaxBacklog /\ mishaps \subseteq {"lost", "reused"}
  BY DEF Inv, Peers
<1>2. LoopInv(net', loop)
  BY <1>1, NoEvents
<1>3. CASE PeerConnect
  BY <1>1, <1>3, NetAssumption DEF PeerConnect, Inv
<1>4. ASSUME NEW i \in Sockets, PeerSend(i) \/ PeerClose(i) PROVE Inv'
  <2>1. net.sock[i].status # "INVALID"
    BY <1>4 DEF PeerSend, PeerClose, Stream
  <2>2. CASE PeerSend(i)
    <3> DEFINE inq == net.sock[i].inq + 1
    <3>1. inq \in 0 .. MaxIn
      BY <1>1, <2>2, NetAssumption DEF PeerSend, TableInv, NetType, SocketType
    <3>2. net' = [net EXCEPT !.sock[i].inq = inq] /\ UNCHANGED <<backlog, loop, mishaps>>
      BY <2>2 DEF PeerSend
    <3> HIDE DEF inq
    <3>3. TableInv(net')
      BY <1>1, <2>1, <3>1, <3>2, KernelTouches DEF Touches
    <3> QED
      BY <1>1, <1>2, <3>2, <3>3 DEF Inv
  <2>3. CASE PeerClose(i)
    <3>1. net' = [net EXCEPT !.sock[i].eof = TRUE] /\ UNCHANGED <<backlog, loop, mishaps>>
      BY <2>3 DEF PeerClose
    <3>2. 0 \in 0 .. MaxIn
      BY NetAssumption
    <3>3. TableInv(net')
      BY <1>1, <2>1, <3>1, <3>2, KernelTouches DEF Touches
    <3> QED
      BY <1>1, <1>2, <3>1, <3>3 DEF Inv
  <2> QED
    BY <1>4, <2>2, <2>3
<1> QED
  BY <1>3, <1>4 DEF Peers, Environment

LEMMA InvNext == Inv /\ [Next]_netvars => Inv'
<1> SUFFICES ASSUME Inv, [Next]_netvars PROVE Inv'
  OBVIOUS
<1>1. CASE Service
  BY <1>1, ServiceKeeps
<1>2. CASE Poll
  <2>1. LoopInv(net, loop')
    BY <1>2, PollKeeps DEF Inv
  <2> QED
    BY <1>2, <2>1 DEF Inv, Poll
<1>3. CASE BuildStep
  BY <1>3, BuildStepKeeps
<1>4. CASE Peers
  BY <1>4, PeersKeep
<1>5. CASE UNCHANGED netvars
  BY <1>5 DEF netvars, Inv
<1> QED
  BY <1>1, <1>2, <1>3, <1>4, <1>5 DEF Next

LEMMA InvHolds == Spec => []Inv
BY InvInit, InvNext, PTL DEF Spec

\* For every number of sockets and every sequence of calls, the free list of
\* net.c holds exactly the closed sockets, each once and clean: no socket is
\* leaked, handed out twice, or handed out with what is left of a connection.
THEOREM SocketsAreRecycled == Spec => []SocketsOK
<1>1. Inv => PoolIntegrity /\ FreeIsClean
  BY DEF Inv, TableInv, SockInv, PoolIntegrity, FreeIsClean, Open
<1>2. Inv => TypeOK
  BY DEF Inv, TableInv, LoopInv, TypeOK
<1>3. Inv => SocketsOK
  BY <1>1, <1>2 DEF SocketsOK
<1> QED
  BY <1>3, InvHolds, PTL

\* Unsent bytes stay within the limit of the socket and keep it subscribed for
\* writing, and a half-closed socket always has some: the WRIDONECLOSE that
\* ends it can come.
THEOREM OutputIsNeverStranded == Spec => []OutputOK
<1>1. Inv => OutputOK
  BY DEF Inv, TableInv, SockInv, OutputOK, OutputIsPolled, HalfCloseHasOutput, Stream
<1> QED
  BY <1>1, InvHolds, PTL

\* net_poll never looks at an event of a closed socket, whatever an earlier
\* event of the batch closed or accepted.
THEOREM BatchStaysOpen == Spec => []EventsAreOpen
<1>1. Inv => EventsAreOpen
  BY DEF Inv, LoopInv, EventsAreOpen
<1> QED
  BY <1>1, InvHolds, PTL
=============================================================================

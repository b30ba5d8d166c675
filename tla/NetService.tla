----------------------------- MODULE NetService -----------------------------
(***************************************************************************)
(* The socket table of Net under services that make any sequence of calls  *)
(* the interface of sc_net.h allows them.  A service calls it when the     *)
(* event loop dispatches a message to it and in its timer; it learns the   *)
(* id of a socket from an ACCEPT or CONNECT message, so it never names a   *)
(* socket that is still CONNECTING, or a listening one.  The calls of the  *)
(* services' init run before the first poll and are of the same kinds.     *)
(***************************************************************************)
EXTENDS Net

CONSTANT MaxSend   \* bound: bytes of one sc_net_send

ASSUME MaxSendAssumption == MaxSend \in Nat \ {0}

Init ==
    /\ net = net_create
    /\ backlog = 0
    /\ loop = [pc |-> "timer", ev |-> <<>>, ne |-> <<>>]
    /\ mishaps = {}

InService == loop.pc \in {"dispatch", "timer"}
Knows(i) == net.sock[i].status \notin {"LISTENING", "CONNECTING"}

\* A call that changes the socket table and nothing else.
Call(n) ==
    /\ InService
    /\ net' = n
    /\ UNCHANGED <<backlog, loop, mishaps>>

\* Listening sockets are subscribed before they are LISTENING.
Listen(ud) ==
    /\ net.free_socket # NIL
    /\ Call(subscribe(create_socket(net, "LISTENING", ud), net.free_socket, {"R"}))

\* A connect that is under way, or was done at once; one that fails changes
\* nothing.
Connect(ud) ==
    /\ net.free_socket # NIL
    /\ \/ Call(subscribe(create_socket(net, "CONNECTING", ud), net.free_socket, {"R", "W"}))
       \/ Call(create_socket(net, "CONNECTED", ud))

Subscribe(i) == Knows(i) /\ \E read \in BOOLEAN : Call(net_subscribe(net, i, read))

Send(i) ==
    /\ Knows(i)
    /\ \E sz \in 1 .. MaxSend : \E written \in -1 .. sz : Call(net_send(net, i, sz, written))

Close(i) == Knows(i) /\ \E force \in BOOLEAN : Call(net_close_socket(net, i, force))

\* A service reads the socket its message names, then drops what it used.
Read ==
    /\ loop.pc = "dispatch"
    /\ Head(loop.ne).type \in {"READ", "CONN_THEN_READ"}
    /\ \E force \in BOOLEAN : /\ ReadAsserts(net, Head(loop.ne).id, force)
                            /\ Call(net_read(net, Head(loop.ne).id, force))

Drop ==
    /\ loop.pc = "dispatch"
    /\ LET i == Head(loop.ne).id IN
          /\ i \in Sockets
          /\ \E sz \in 1 .. net.sock[i].rb : Call(net_dropread(net, i, sz))

\* The service returns: the next message, or the timers and then the next poll.
Return ==
    /\ InService
    /\ loop' = IF loop.pc = "dispatch" THEN NextMessage ELSE [loop EXCEPT !.pc = "poll"]
    /\ UNCHANGED <<net, backlog, mishaps>>

Service ==
    \/ \E ud \in Services : Listen(ud) \/ Connect(ud)
    \/ \E i \in Sockets : Subscribe(i) \/ Send(i) \/ Close(i)
    \/ Read \/ Drop \/ Return

\* What a peer does between two polls is seen at the next poll, or by the next
\* read of its socket: it is enough that peers act there.
Peers ==
    \/ loop.pc = "poll" /\ Environment
    \/ /\ loop.pc = "dispatch"
       /\ \E i \in Sockets \cap {Head(loop.ne).id} : PeerSend(i) \/ PeerClose(i)

Next == Service \/ Poll \/ BuildStep \/ Peers

Spec == Init /\ [][Next]_netvars

-----------------------------------------------------------------------------

TypeOK ==
    /\ net \in NetType /\ backlog \in 0 .. MaxBacklog
    /\ loop \in LoopType /\ mishaps \subseteq {"lost", "reused"}

\* The intrusive list through fd holds exactly the INVALID sockets, each once,
\* and tail_socket is its end whenever it is not empty: no socket is leaked or
\* handed out twice whatever the calls, and assert(self->tail_socket->fd == -1)
\* of _close_socket holds.
PoolIntegrity == Pool(net)

\* A free socket keeps nothing of its last connection: no subscription
\* (assert(s->mask == 0) of _create_socket), no buffered or queued byte.
FreeIsClean == \A i \in Sockets : ~ Open(net, i) => Clean(net.sock[i])

\* Sockets are recycled as they should be.
SocketsOK == TypeOK /\ PoolIntegrity /\ FreeIsClean

\* Queued output is never stranded: the socket is subscribed for writing, its
\* account wbuffersz is exact and within the limit, and only a stream queues.
OutputIsPolled ==
    \A i \in Sockets :
        /\ net.sock[i].wbuffersz = net.sock[i].head
        /\ net.sock[i].head <= WBufferMax
        /\ net.sock[i].head > 0 => "W" \in net.sock[i].mask /\ Stream(i)

\* A half-closed socket still has output to flush, so WRIDONECLOSE will end it.
HalfCloseHasOutput == \A i \in Sockets : net.sock[i].status = "HALFCLOSE" => net.sock[i].head > 0

OutputOK == OutputIsPolled /\ HalfCloseHasOutput

\* net_poll reads e->ud->status of every event: no event of the batch is for a
\* socket that an earlier event of the batch closed, or has been handled before.
EventsAreOpen ==
    /\ \A k \in DOMAIN loop.ev : Open(net, loop.ev[k].id)
    /\ \A j, k \in DOMAIN loop.ev : j # k => loop.ev[j].id # loop.ev[k].id
=============================================================================

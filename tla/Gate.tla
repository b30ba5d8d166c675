-------------------------------- MODULE Gate --------------------------------
(***************************************************************************)
(* A gate node: the event loop of Net, the client table of                 *)
(* libshaco/sc_gate.c, service/service_gate.c with its read loop and its   *)
(* timer, and service/service_forward.c as the gate's handler, which acts  *)
(* on clients both for their own messages and for messages of the world    *)
(* that arrive on a node link.                                             *)
(*                                                                         *)
(* One thread runs it all, so a handler is one step; the read loop is cut  *)
(* at every net_read and every message because peers may send in between.  *)
(* A failed assert() ends the process: abort then names the assert.        *)
(***************************************************************************)
EXTENDS Net, Freeid

CONSTANTS NeedVerify,     \* gate_verify
          LoginTimeout,   \* the 10 s of a CONNECTED client, in timer periods
          LiveTime,       \* gate_clientlive
          LogoutTimeout,  \* the 5 s of a LOGOUTED client
          WorldUp,        \* the world's node has connected
          StepMax,        \* messages _read handles before it returns (10)
          MsgSize         \* bytes of a message; fewer are less than its header

ASSUME GateAssumption ==
    /\ Services = {"gate", "node"}
    /\ HashCap = MaxSocket      \* both are sc_connmax
    /\ MaxSocket > 1            \* the listening socket and the node link
    /\ NeedVerify \in BOOLEAN /\ WorldUp \in BOOLEAN
    /\ {LoginTimeout, LiveTime, LogoutTimeout, StepMax} \subseteq Nat
    /\ MsgSize \in 1 .. RBufferMax

VARIABLES gate,   \* struct gate of sc_gate.c, and the assert that failed
          rd,     \* the locals of the read loop that is running; c = -1 on the node link
          due,    \* gate_time: the next client to look at, Cap when it is not running
          gone    \* history: connections whose client was freed since the last poll

vars == <<netvars, gate, rd, due, gone>>

ListenId == 0
LinkId == 1
Clients == Ids
ClientStatus == {"FREE", "CONNECTED", "LOGINED", "LOGOUTED"}

MaxAge == 1 + CHOOSE t \in {LoginTimeout, LiveTime, LogoutTimeout} :
                  \A u \in {LoginTimeout, LiveTime, LogoutTimeout} : u <= t

\* now - c->active_time in timer periods, capped once every timeout is over.
Ages == 0 .. MaxAge
ClientType == [connid : Sockets, status : ClientStatus, age : Ages]
Asserts == {"none", "read", "sockerr", "wridoneclose", "accept", "disconn", "space"}
GateType == [fi : FreeidType, p : [Clients -> ClientType], used : Int,
             abort : Asserts, culprit : Sockets]
ReadType == [at : {"idle", "read", "handle"}, id : Sockets, c : Clients \cup {-1},
             nread : 0 .. RBufferMax, buf : 0 .. RBufferMax, force : BOOLEAN, step : 0 .. StepMax]

\* The connid of a free client only goes into messages to the world: it is 0 here.
FreeClient == [connid |-> 0, status |-> "FREE", age |-> 0]

Idle == [at |-> "idle", id |-> 0, c |-> -1, nread |-> 0, buf |-> 0, force |-> FALSE, step |-> 0]

-----------------------------------------------------------------------------
\* sc_gate.c.  A call may close sockets too: w is the record of all it changes.

Fail(w, assert, connid) == [w EXCEPT !.gate.abort = assert, !.gate.culprit = connid]

\* Its assert(c->connid == connid) is ConnidMatches below.
sc_gate_getclient(w, connid) == freeid_find(w.gate.fi, connid)

sc_gate_loginclient(w, c) ==
    IF w.gate.p[c].status = "CONNECTED"
    THEN [w EXCEPT !.gate.p[c] = [@ EXCEPT !.status = "LOGINED", !.age = 0]]
    ELSE w

\* Mutant: a connection beyond gate_clientmax is not closed.
AcceptForgetsClose(w, connid) ==
    LET c == AllocId(w.gate.fi, connid) IN
    IF c = -1 THEN w
    ELSE [w EXCEPT !.net = net_subscribe(@, connid, TRUE),
                   !.gate.fi = freeid_alloc(@, connid),
                   !.gate.p[c] = [connid |-> connid, status |-> "CONNECTED", age |-> 0],
                   !.gate.used = @ + 1]

sc_gate_acceptclient(w, connid) ==
    LET c == AllocId(w.gate.fi, connid) IN
    IF c = -1 THEN [w EXCEPT !.net = net_close_socket(@, connid, TRUE)]
    ELSE IF w.gate.p[c].status # "FREE" THEN Fail(w, "accept", connid)
    ELSE [w EXCEPT !.net = net_subscribe(@, connid, TRUE),
                   !.gate.fi = freeid_alloc(@, connid),
                   !.gate.p[c] = [connid |-> connid, status |-> "CONNECTED", age |-> 0],
                   !.gate.used = @ + 1]

\* The client's part of a disconnect that closed the socket.
Freed(w, c, connid) ==
    [w EXCEPT !.gate.fi = freeid_free(@, connid),
              !.gate.p[c] = FreeClient,
              !.gate.used = @ - 1,
              !.gone = @ \cup {connid}]

\* Mutants of a disconnect: the socket is left open, the check of the status is
\* dropped, LOGOUTED is not recorded.
DisconnLeavesSocket(w, c, force) ==
    IF w.gate.p[c].status = "FREE" THEN w ELSE Freed(w, c, w.gate.p[c].connid)
DisconnTwice(w, c, force) ==
    LET connid == w.gate.p[c].connid
        cut == [w EXCEPT !.net = net_close_socket(@, connid, TRUE)]
    IN IF freeid_find(w.gate.fi, connid) # c THEN Fail(cut, "disconn", connid)
       ELSE Freed(cut, c, connid)
DisconnForgetsLogout(w, c, force) ==
    LET connid == w.gate.p[c].connid
        cut == [w EXCEPT !.net = net_close_socket(@, connid, force)]
    IN IF w.gate.p[c].status = "FREE" \/ ~ ClosesNow(w.net, connid, force) THEN cut
       ELSE IF freeid_find(w.gate.fi, connid) # c THEN Fail(cut, "disconn", connid)
       ELSE Freed(cut, c, connid)

sc_gate_disconnclient(w, c, force) ==
    LET connid == w.gate.p[c].connid
        closed == ClosesNow(w.net, connid, force)
        cut == [w EXCEPT !.net = net_close_socket(@, connid, force)]
    IN IF w.gate.p[c].status = "FREE" THEN w
       ELSE IF ~ closed
       THEN IF w.gate.p[c].status = "LOGOUTED" THEN cut
            ELSE [cut EXCEPT !.gate.p[c] = [@ EXCEPT !.status = "LOGOUTED", !.age = 0]]
       ELSE IF freeid_find(w.gate.fi, connid) # c THEN Fail(cut, "disconn", connid)
       ELSE Freed(cut, c, connid)

-----------------------------------------------------------------------------
\* service_forward.c, the handler.  What it sends to the world is left out.

forward_net(w, c) == sc_gate_disconnclient(w, c, TRUE)

\* gate_net on a SOCKERR and on a WRIDONECLOSE
OnSockerr(w, connid) ==
    LET c == sc_gate_getclient(w, connid)
        told == IF w.gate.p[c].status = "LOGINED" THEN forward_net(w, c) ELSE w
    IN IF c = -1 THEN Fail(w, "sockerr", connid) ELSE sc_gate_disconnclient(told, c, TRUE)

OnWridoneclose(w, connid) ==
    LET c == sc_gate_getclient(w, connid)
    IN IF c = -1 THEN Fail(w, "wridoneclose", connid) ELSE sc_gate_disconnclient(w, c, TRUE)

\* UM_SENDTOCLI of one byte: sc_net_send dispatches a failure to the gate at once.
SendToClient(w, connid, written) ==
    LET sent == [w EXCEPT !.net = net_send(@, connid, 1, written)]
    IN IF SendResult(w.net, connid, 1, written) = "error" THEN OnSockerr(sent, connid) ELSE sent

\* What a message of a client makes the handler do: a login whose account is
\* registered, one whose account is not, an id outside the client's range, or
\* anything else, a heartbeat included (the gate keeps that one to itself).
UserMessages == {"login", "unknown_account", "invalid", "other"}

forward_usermsg(w, c, um, written) ==
    CASE um = "login" /\ w.gate.p[c].status = "CONNECTED" ->
            SendToClient(sc_gate_loginclient(w, c), w.gate.p[c].connid, written)
      [] um = "unknown_account" /\ w.gate.p[c].status = "CONNECTED" ->
            sc_gate_disconnclient(w, c, TRUE)
      [] um = "invalid" -> sc_gate_disconnclient(w, c, TRUE)
      [] OTHER -> w

\* A message of the world for the client with connection cid: sent on, and the
\* client is disconnected when it is a LOGOUT.
forward_nodemsg(w, cid, logout, written) ==
    LET c == sc_gate_getclient(w, cid)
        sent == SendToClient(w, w.gate.p[c].connid, written)
    IN IF c = -1 THEN w
       ELSE IF logout THEN sc_gate_disconnclient(sent, c, FALSE) ELSE sent

\* _handlemsg of service_gate.c
handlemsg(w, c, um, written) ==
    forward_usermsg(IF w.gate.p[c].status = "LOGINED" THEN [w EXCEPT !.gate.p[c].age = 0] ELSE w,
                    c, um, written)

-----------------------------------------------------------------------------
\* The event loop.

Here == [net |-> net, gate |-> gate, gone |-> gone]
Becomes(w) == net' = w.net /\ gate' = w.gate /\ gone' = w.gone
Running == gate.abort = "none"

Init ==
    /\ net = LET made == create_socket(net_create, "LISTENING", "gate")
                 listening == subscribe(made, ListenId, {"R"})
             IN IF WorldUp
                THEN subscribe(create_socket(listening, "CONNECTED", "node"), LinkId, {"R"})
                ELSE listening
    /\ backlog = 0
    /\ loop = [pc |-> "poll", ev |-> <<>>, ne |-> <<>>]
    /\ mishaps = {}
    /\ gate = [fi |-> freeid_init, used |-> 0,
               abort |-> "none", culprit |-> 0,
               p |-> [c \in Clients |-> FreeClient]]
    /\ rd = Idle
    /\ due = Cap
    /\ gone = {}

\* A client gets older while it is not free.
Older(client) == IF client.status # "FREE" /\ client.age < MaxAge
                 THEN [client EXCEPT !.age = client.age + 1] ELSE client

\* The clock is read once per turn of the loop: time passes in epoll_wait.
GatePoll(tick) ==
    /\ Poll
    /\ gone' = {}
    /\ due' = IF tick THEN 0 ELSE due
    /\ gate' = IF tick
               THEN [gate EXCEPT !.p = [c \in Clients |-> Older(gate.p[c])]]
               ELSE gate
    /\ UNCHANGED rd

\* A gate node opens no connection, so no socket is CONNECTING.
GateBuild == (BuildAccept \/ BuildStream) /\ UNCHANGED <<gate, rd, due, gone>>

Dispatching(types) == loop.pc = "dispatch" /\ rd.at = "idle" /\ Head(loop.ne).type \in types

\* _dispatch goes on with the next message.
NextEvent == loop' = NextMessage /\ rd' = Idle /\ UNCHANGED <<backlog, mishaps, due>>

DispatchInvalid == Dispatching({"INVALID"}) /\ NextEvent /\ Becomes(Here)

DispatchAccept ==
    /\ Dispatching({"ACCEPT"})
    /\ LET id == Head(loop.ne).id
           w == sc_gate_acceptclient(Here, id)
       IN Becomes(IF ~ NeedVerify /\ w.gate.used > gate.used
                  THEN sc_gate_loginclient(w, sc_gate_getclient(w, id)) ELSE w)
    /\ NextEvent

\* The end of the node link changes nothing of the gate's.
DispatchClosed ==
    /\ Dispatching({"SOCKERR", "WRIDONECLOSE"})
    /\ LET nm == Head(loop.ne)
       IN Becomes(IF nm.ud = "node" THEN Here
                  ELSE IF nm.type = "SOCKERR" THEN OnSockerr(Here, nm.id)
                  ELSE OnWridoneclose(Here, nm.id))
    /\ NextEvent

DispatchRead ==
    /\ Dispatching({"READ"})
    /\ LET nm == Head(loop.ne)
           c == IF nm.ud = "node" THEN -1 ELSE sc_gate_getclient(Here, nm.id)
       IN IF nm.ud = "gate" /\ c = -1
          THEN Becomes(Fail(Here, "read", nm.id)) /\ UNCHANGED rd
          ELSE rd' = [Idle EXCEPT !.at = "read", !.id = nm.id, !.c = c] /\ Becomes(Here)
    /\ UNCHANGED <<backlog, loop, mishaps, due>>

-----------------------------------------------------------------------------
\* The loop of _read and of dispatcher_net, which differ only in what they call
\* for a message and in the number of messages, 10 and 1000, StepMax stands for.

\* mread_throwerr: the service of the socket gets a SOCKERR.
ThrowErr(w) == IF rd.c = -1 THEN w ELSE OnSockerr(w, rd.id)

ReadStep ==
    /\ rd.at = "read"
    /\ LET result == ReadResult(net, rd.id, rd.force)
           w == [Here EXCEPT !.net = net_read(net, rd.id, rd.force)]
           nread == w.net.sock[rd.id].rb
       IN \/ /\ ~ ReadAsserts(net, rd.id, rd.force)
             /\ Becomes(Fail(Here, "space", rd.id))
             /\ UNCHANGED <<backlog, loop, mishaps, rd, due>>
          \/ /\ ReadAsserts(net, rd.id, rd.force)
             /\ result = "data"
             /\ Becomes(w)
             /\ rd' = [rd EXCEPT !.at = "handle", !.nread = nread, !.buf = nread]
             /\ UNCHANGED <<backlog, loop, mishaps, due>>
          \/ /\ ReadAsserts(net, rd.id, rd.force)
             /\ result \in {"none", "error"}
             /\ Becomes(IF result = "error" THEN ThrowErr(w) ELSE w)
             /\ NextEvent

\* The handler's effect of one message.
Handled ==
    IF rd.c = -1
    THEN {forward_nodemsg(Here, cid, logout, written) :
             cid \in Sockets, logout \in BOOLEAN, written \in -1 .. 1}
    ELSE {handlemsg(Here, rd.c, um, written) : um \in UserMessages, written \in -1 .. 1}

HandleMessage ==
    /\ rd.at = "handle" /\ rd.buf >= MsgSize
    /\ \E w \in Handled :
          LET left == rd.buf - MsgSize IN
          IF rd.step < StepMax
          THEN /\ Becomes(w)
               /\ rd' = [rd EXCEPT !.buf = left, !.step = @ + 1]
               /\ UNCHANGED <<backlog, loop, mishaps, due>>
          ELSE /\ Becomes([w EXCEPT !.net = net_dropread(@, rd.id, rd.nread - left)])
               /\ NextEvent

\* A message whose size is out of range: NET_ERR_MSG.
HandleBadMessage ==
    /\ rd.at = "handle" /\ rd.buf >= MsgSize
    /\ Becomes(ThrowErr([Here EXCEPT !.net = net_close_socket(@, rd.id, TRUE)]))
    /\ NextEvent

\* No whole message is left: drop what was used, and ask the kernel if nothing was.
HandleEnd ==
    /\ rd.at = "handle" /\ rd.buf < MsgSize
    /\ LET drop == rd.nread - rd.buf IN
          /\ Becomes([Here EXCEPT !.net = net_dropread(@, rd.id, drop)])
          /\ rd' = [rd EXCEPT !.at = "read", !.nread = 0, !.buf = 0, !.force = (drop = 0)]
    /\ UNCHANGED <<backlog, loop, mishaps, due>>

-----------------------------------------------------------------------------
\* sc_timer_dispatch_timeout, then the next turn of the loop.

\* Mutants: the case of a client that does not log in, or is logged out, is missing.
TimedOutAfterLogin(client) == client.status = "LOGOUTED" /\ client.age > LogoutTimeout
TimedOutBeforeLogout(client) == client.status = "CONNECTED" /\ client.age > LoginTimeout

TimedOut(client) ==
    CASE client.status = "CONNECTED" -> client.age > LoginTimeout
      [] client.status = "LOGINED" -> LiveTime > 0 /\ client.age > LiveTime
      [] client.status = "LOGOUTED" -> client.age > LogoutTimeout
      [] OTHER -> FALSE

\* One turn of the loop in gate_time.
gate_time ==
    /\ loop.pc = "timer" /\ due < Cap
    /\ LET client == gate.p[due]
           told == IF client.status = "LOGINED" THEN forward_net(Here, due) ELSE Here
       IN Becomes(IF TimedOut(client) THEN sc_gate_disconnclient(told, due, TRUE) ELSE Here)
    /\ due' = due + 1
    /\ UNCHANGED <<backlog, loop, mishaps, rd>>

TimerDone ==
    /\ loop.pc = "timer" /\ due = Cap
    /\ loop' = [loop EXCEPT !.pc = "poll"]
    /\ UNCHANGED <<net, backlog, mishaps, gate, rd, due, gone>>

ReadLoop == ReadStep \/ HandleMessage \/ HandleBadMessage \/ HandleEnd

Loop ==
    \/ \E tick \in BOOLEAN : GatePoll(tick)
    \/ GateBuild
    \/ DispatchInvalid \/ DispatchAccept \/ DispatchClosed \/ DispatchRead
    \/ ReadLoop
    \/ gate_time \/ TimerDone

\* What a peer does between two polls is seen at the next poll, or by the next
\* read of its socket: it is enough that peers act there.
Peers ==
    /\ \/ loop.pc = "poll" /\ Environment
       \/ rd.at = "read" /\ (PeerSend(rd.id) \/ PeerClose(rd.id))
    /\ UNCHANGED <<gate, rd, due, gone>>

Aborted == ~ Running /\ UNCHANGED vars

Next ==
    \/ Running /\ Loop
    \/ Running /\ Peers
    \/ Aborted

Spec == Init /\ [][Next]_vars

-----------------------------------------------------------------------------

TypeOK ==
    /\ net \in NetType /\ backlog \in 0 .. MaxBacklog
    /\ loop \in LoopType /\ mishaps \subseteq {"lost", "reused"}
    /\ gate \in GateType /\ rd \in ReadType /\ due \in 0 .. Cap /\ gone \subseteq Sockets

Pending(types, i) == \E k \in DOMAIN loop.ne : loop.ne[k].type \in types /\ loop.ne[k].id = i
Ending(i) == Pending({"SOCKERR", "WRIDONECLOSE"}, i)
Healthy == Running /\ mishaps = {}
Taken == {c \in Clients : gate.p[c].status # "FREE"}

\* Unless a batch lost a message or reused an id, a client and its connection
\* point at each other: the table finds the client by its connid, and the
\* connection is the gate's and open, or the message that ends it is still to
\* be dispatched.
ClientHasConnection ==
    Healthy =>
        \A c \in Taken :
            LET i == gate.p[c].connid IN
            /\ freeid_find(gate.fi, i) = c
            /\ Ending(i) \/ (Open(net, i) /\ net.sock[i].ud = "gate")

\* Unless a batch lost a message or reused an id, no accepted connection is
\* without a client: nobody would ever close it.
ConnectionHasClient ==
    Healthy =>
        \A i \in Sockets :
            Stream(i) /\ net.sock[i].ud = "gate" =>
                \/ Pending({"ACCEPT"}, i)
                \/ freeid_find(gate.fi, i) \in Taken

\* A client is LOGOUTED exactly while its connection is half-closed, so the two
\* state machines cannot disagree on whether it still gets messages.
LogoutIsHalfclose ==
    Healthy =>
        \A c \in Taken :
            LET i == gate.p[c].connid IN
            Ending(i) \/ (gate.p[c].status = "LOGOUTED" <=> net.sock[i].status = "HALFCLOSE")

\* The load the gate reports (G->used) is the number of clients, lost messages,
\* refused connections and repeated disconnects included.
UsedIsExact == gate.used = Cardinality(Taken)

\* sc_gate_acceptclient meets what freeid_alloc needs: the connection it takes
\* an id for holds none.  Else the id it holds would leak.
AcceptIsFresh ==
    Healthy /\ loop.pc = "dispatch" /\ Head(loop.ne).type = "ACCEPT" =>
        freeid_find(gate.fi, Head(loop.ne).id) = -1

\* assert(c->connid == connid) of sc_gate_getclient, in every state the process
\* reaches: the client a connection id leads to is the one that holds it.
ConnidMatches ==
    \A i \in Sockets :
        LET c == freeid_find(gate.fi, i) IN c # -1 => c \in Taken /\ gate.p[c].connid = i

\* The client table, the socket table and the handler agree on who is connected.
TablesAgree ==
    /\ TypeOK /\ ClientHasConnection /\ ConnectionHasClient
    /\ UsedIsExact /\ AcceptIsFresh /\ ConnidMatches

\* The asserts fail in two ways only: a message arrives for a client that was
\* freed earlier in the same batch, or, after a batch lost a message or reused
\* an id, a client times out whose connection id belongs to another by then.
AbortCause ==
    \/ Running
    \/ gate.abort \in {"read", "sockerr", "wridoneclose"} /\ gate.culprit \in gone
    \/ gate.abort = "disconn" /\ mishaps # {}

-----------------------------------------------------------------------------
\* The thread goes on, and time passes.
LoopFairness == WF_vars(Running /\ Loop) /\ SF_vars(Running /\ GatePoll(TRUE))

LoopSpec == Spec /\ LoopFairness

\* A peer that has sent a part of a message sends more or closes.  It may do so
\* all the time the loop waits for it; the model lets it at each read.
PeerCompletes == Running /\ Peers /\ rd.at = "read" /\ rd.force

FairSpec == LoopSpec /\ SF_vars(PeerCompletes)

\* A client that does not log in is disconnected or gets on.
LoginEnds ==
    \A c \in Clients :
        gate.p[c].status = "CONNECTED" ~> gate.p[c].status # "CONNECTED" \/ ~ Running

\* A logged out client gives its id back even if its peer never takes the output.
LogoutEnds ==
    \A c \in Clients :
        gate.p[c].status = "LOGOUTED" ~> gate.p[c].status = "FREE" \/ ~ Running
=============================================================================

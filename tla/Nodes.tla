------------------------------- MODULE Nodes -------------------------------
(***************************************************************************)
(* How the processes of a zone find each other: service_node.c in every    *)
(* process, service_centers.c in the center, service_centerc.c elsewhere.  *)
(* A process connects to the center, registers and subscribes to types;    *)
(* the center notifies subscribers of the nodes of these types, and they   *)
(* connect to them and register there.                                     *)
(*                                                                         *)
(* conns[n][c] is connection c of process n: whose process is at the other *)
(* end, which connection it is there, and the messages that have come.  A  *)
(* connection breaks at both ends, and either end is told of it (SOCKERR)  *)
(* when its process gets to it, not at once.                               *)
(***************************************************************************)
EXTENDS NodeTable, SequencesExt

CONSTANTS Zones,       \* sets of ids of nodes, the center among them
          Subs,        \* node_sub: for each node the types it subscribes to, a sequence
          MaxConn,     \* bound: connections of one process
          MaxCrashes   \* bound: for each zone, how often a process of it may stop

Center == FirstId
Processes == UNION Zones
Tids == {Tid(n) : n \in Processes}
Conns == 1 .. MaxConn

\* Nobody subscribes to its own type, to the center, or to its subscribers.
ASSUME NodesAssumption ==
    /\ Zones \subseteq SUBSET (Nat \X Nat) /\ \A z \in Zones : Center \in z
    /\ \A n \in Processes \ {Center} : Tid(n) # Tid(Center)
    /\ Subs \in [Processes -> Seq(Tids \ {Tid(Center)})]
    /\ \A n \in Processes : Tid(n) \notin ToSet(Subs[n])
    /\ \A a, b \in Processes : Tid(b) \in ToSet(Subs[a]) => Tid(a) \notin ToSet(Subs[b])
    /\ MaxConn \in Nat \ {0} /\ MaxCrashes \in [Zones -> Nat]

VARIABLES zone,     \* the nodes there are
          up,       \* those whose processes run
          reg,      \* their registries
          conns,    \* their connections
          subs,     \* the center's: for each type the types of its subscribers
          crashes,  \* how many there were
          mishaps   \* history: what the code does not recover from

vars == <<zone, up, reg, conns, subs, crashes, mishaps>>

Closed == [st |-> "closed", peer |-> NoId, pconn |-> 0, q |-> <<>>]
NewRegistry == sc_node_register_types(Tids)

Init ==
    /\ zone \in Zones
    /\ up = {Center}
    /\ reg = [n \in Processes |-> IF n = Center THEN sc_register_me(NewRegistry, n, ZeroNode)
                                                ELSE NewRegistry]
    /\ conns = [n \in Processes |-> [c \in Conns |-> Closed]]
    /\ subs = [t \in Tids |-> <<>>]
    /\ crashes = 0
    /\ mishaps = {}

State == [up |-> up, reg |-> reg, conns |-> conns, subs |-> subs, mishaps |-> mishaps]
Becomes(w) ==
    /\ up' = w.up
    /\ reg' = w.reg
    /\ conns' = w.conns
    /\ subs' = w.subs
    /\ mishaps' = w.mishaps
    /\ UNCHANGED zone

Note(w, what) == [w EXCEPT !.mishaps = @ \cup {what}]

-----------------------------------------------------------------------------
\* Connections.

FreeConns(w, n) == {c \in Conns : w.conns[n][c].st = "closed"}
NextConn(w, n) == CHOOSE c \in FreeConns(w, n) : \A d \in FreeConns(w, n) : c <= d

\* A message for a connection that is not there, or not any more, is lost.
UM_SEND(w, n, c, msg) ==
    IF c \notin Conns \/ w.conns[n][c].st # "open" THEN w
    ELSE LET peer == w.conns[n][c] IN [w EXCEPT !.conns[peer.peer][peer.pconn].q = Append(@, msg)]

\* The other end of a connection that is closed, or whose process has stopped.
Broken(w, n, c) ==
    LET peer == w.conns[n][c] IN
    IF peer.st # "open" THEN w ELSE [w EXCEPT !.conns[peer.peer][peer.pconn].st = "broken"]

sc_net_close_socket(w, n, c) == [Broken(w, n, c) EXCEPT !.conns[n][c] = Closed]

Linked(w, n, c, target) ==
    LET d == NextConn(w, target) IN
    [w EXCEPT !.conns[n][c] = [st |-> "open", peer |-> target, pconn |-> d, q |-> <<>>],
              !.conns[target][d] = [st |-> "open", peer |-> n, pconn |-> c, q |-> <<>>]]

-----------------------------------------------------------------------------
\* Handlers, from states to states.

\* History: a registration that shrinks what is visible of an array, and one
\* that leaves slots the program has not written.
Registered(w, n, id, c, junk) ==
    LET r == w.reg[n]
        arr == r.arr[Tid(id)]
        shrinks == {s \in {"shrunk"} : Sid(id) + 1 < arr.size}
        leaves == {s \in {"junk"} : Len(arr.p) < Sid(id) /\ junk # _init_node}
    IN [w EXCEPT !.reg[n] = sc_node_register(r, [id |-> id, connid |-> c, load |-> 0], junk),
                 !.mishaps = @ \cup shrinks \cup leaves]

\* History: the node is there with a connection that is broken by now.
Early(w, n, id) ==
    LET c == Slot(w.reg[n], id).connid IN
    IF c \in Conns /\ w.conns[n][c].st = "broken" THEN Note(w, "early") ELSE w

Reg(n) == [type |-> "NODEREG", id |-> n]
RegOk(n) == [type |-> "NODEREGOK", id |-> n]
SubsOf(n) == [type |-> "NODESUBS", id |-> n]
Notify(id) == [type |-> "NODENOTIFY", id |-> id]

\* service_centers.c
_onreg(w, id) ==
    LET ofType(v, tid) ==
            FoldLeft(LAMBDA u, node : UM_SEND(u, Center, node.connid, Notify(id)),
                     v, sc_node_foreach(v.reg[Center], tid))
    IN FoldLeft(ofType, w, w.subs[Tid(id)])

_add_subscribe(s, tid) == IF Contains(s, tid) THEN s ELSE Append(s, tid)

\* Mutant: the nodes that are there already are forgotten.
SubscribeForNew(w, c, id) ==
    FoldLeft(LAMBDA v, tid : [v EXCEPT !.subs[tid] = _add_subscribe(@, Tid(id))], w, Subs[id])

_subscribe(w, c, id) ==
    LET one(v, tid) ==
            FoldLeft(LAMBDA u, node : UM_SEND(u, Center, c, Notify(node.id)),
                     [v EXCEPT !.subs[tid] = _add_subscribe(@, Tid(id))],
                     sc_node_foreach(v.reg[Center], tid))
    IN FoldLeft(one, w, Subs[id])

\* service_node.c.
_reg(w, n, c, id, junk) ==
    IF RegisterFails(w.reg[n], [id |-> id, connid |-> c, load |-> 0], junk)
    THEN sc_net_close_socket(Early(w, n, id), n, c)
    ELSE LET v == UM_SEND(Registered(w, n, id, c, junk), n, c, RegOk(n)) IN
         IF n = Center THEN _onreg(v, id) ELSE v

_regok(w, n, c, id, junk) ==
    IF RegisterFails(w.reg[n], [id |-> id, connid |-> c, load |-> 0], junk)
    THEN sc_net_close_socket(Early(w, n, id), n, c)
    ELSE LET v == Registered(w, n, id, c, junk) IN
         IF n # Center /\ id = Center THEN UM_SEND(v, n, c, SubsOf(n)) ELSE v

\* sc_net_connect without waiting.
_onnotify(w, n, id) ==
    CASE sc_node_is_register(w.reg[n], id) -> Early(w, n, id)
      [] OTHER ->
           IF FreeConns(w, n) = {} THEN Note(w, "full")
           ELSE [w EXCEPT !.conns[n][NextConn(w, n)] =
                            [Closed EXCEPT !.st = "connecting", !.peer = id]]

node_nodemsg(w, n, c, m, junk) ==
    CASE m.type = "NODEREG" -> _reg(w, n, c, m.id, junk)
      [] m.type = "NODEREGOK" -> _regok(w, n, c, m.id, junk)
      [] m.type = "NODENOTIFY" -> _onnotify(w, n, m.id)
      [] m.type = "NODESUBS" -> _subscribe(w, c, m.id)

Receive(n, c, junk) ==
    LET m == Head(conns[n][c].q) IN
    /\ n \in up /\ conns[n][c].q # <<>>
    /\ Becomes(node_nodemsg([State EXCEPT !.conns[n][c].q = Tail(@)], n, c, m, junk))
    /\ UNCHANGED crashes

\* node_net, NETE_CONNECT.
Connected(n, c) ==
    LET target == conns[n][c].peer IN
    /\ n \in up /\ conns[n][c].st = "connecting"
    /\ target \in up /\ FreeConns(State, target) # {}
    /\ Becomes(UM_SEND(Linked(State, n, c, target), n, c, Reg(n)))
    /\ UNCHANGED crashes

\* NETE_CONNERR: nobody listens.  It is only logged.
ConnErr(n, c) ==
    /\ n \in up /\ conns[n][c].st = "connecting"
    /\ conns[n][c].peer \notin up
    /\ Becomes([State EXCEPT !.conns[n][c] = Closed])
    /\ UNCHANGED crashes

\* NETE_SOCKERR.  Messages that came before are handled first, or lost.
SockErr(n, c) ==
    /\ n \in up /\ conns[n][c].st = "broken"
    /\ Becomes([State EXCEPT !.reg[n] = sc_node_disconnect(@, c), !.conns[n][c] = Closed])
    /\ UNCHANGED crashes

\* node_init, then centerc_init, which waits until it is connected and gives up
\* the process if it cannot.
Start(n, junk) ==
    LET w == [State EXCEPT !.up = @ \cup {n}, !.reg[n] = sc_register_me(NewRegistry, n, junk)]
        c == NextConn(w, n)
    IN /\ n \in zone \ up
       /\ FreeConns(State, Center) # {}
       /\ Becomes(UM_SEND(Linked(w, n, c, Center), n, c, Reg(n)))
       /\ UNCHANGED crashes

\* A process stops: its peers are told sooner or later.
Crash(n) ==
    LET w == [State EXCEPT !.up = @ \ {n}, !.reg[n] = NewRegistry]
        broken(v, c) == sc_net_close_socket(v, n, c)
    IN /\ n \in up \ {Center} /\ crashes < MaxCrashes[zone]
       /\ Becomes(FoldLeft(broken, w, [c \in Conns |-> c]))
       /\ crashes' = crashes + 1

Protocol ==
    \E n \in Processes :
        \/ \E junk \in Junk : Start(n, junk)
        \/ \E c \in Conns :
             \/ \E junk \in Junk : Receive(n, c, junk)
             \/ Connected(n, c)
             \/ ConnErr(n, c)
             \/ SockErr(n, c)

Next == Protocol \/ \E n \in Processes : Crash(n)

Spec == Init /\ [][Next]_vars

\* A process goes on as long as there is something for it to do, and one that
\* has stopped is started again.
FairSpec == Spec /\ WF_vars(Protocol)

-----------------------------------------------------------------------------
Messages == [type : {"NODEREG", "NODEREGOK", "NODESUBS", "NODENOTIFY"}, id : Processes]

TypeOK ==
    /\ zone \in Zones /\ up \subseteq zone /\ Center \in up
    /\ \A n \in Processes :
         /\ reg[n].me \in {n, FirstId}
         /\ \A t \in Tids :
              /\ reg[n].arr[t].size \in 0 .. Len(reg[n].arr[t].p)
              /\ \A k \in 1 .. Len(reg[n].arr[t].p) :
                   reg[n].arr[t].p[k] \in [id : Processes \cup {NoId}, connid : {NoConn, 0} \cup Conns,
                                           load : {0}]
         /\ \A c \in Conns :
              /\ conns[n][c].st \in {"closed", "connecting", "open", "broken"}
              /\ conns[n][c].peer \in Processes \cup {NoId} /\ conns[n][c].pconn \in {0} \cup Conns
              /\ \A k \in DOMAIN conns[n][c].q : conns[n][c].q[k] \in Messages
    /\ \A t \in Tids : ToSet(subs[t]) \subseteq Tids
    /\ crashes \in 0 .. MaxCrashes[zone] /\ mishaps \subseteq {"shrunk", "junk", "early", "full"}

\* The other nodes a process finds in its registry.
Known(n) == {id \in VisibleIds(reg[n]) : sc_node_is_register(reg[n], id) /\ id # n}
ConnOf(n, id) == conns[n][Slot(reg[n], id).connid]

\* What sc_node_get returns for a node has a connection to that node: messages
\* go to whom they are for, or are lost, but never to another.  A node hidden by
\* a smaller number misses the end of its connection, and its slot may be seen
\* again when the connection has become another's.
ConnectionIsTheNodes ==
    mishaps \cap {"shrunk", "junk"} = {} =>
        \A n \in up : \A id \in Known(n) :
            /\ Slot(reg[n], id).connid \in Conns
            /\ ConnOf(n, id).peer = id
            /\ ConnOf(n, id).st \in {"open", "broken"}

RegistryOK == TypeOK /\ ConnectionIsTheNodes

\* Two nodes that know each other, with connections that hold, use the same one.
LinkIsShared ==
    mishaps \cap {"shrunk", "junk"} = {} =>
        \A a \in up : \A b \in Known(a) \cap up :
            a \in Known(b) /\ ConnOf(a, b).st = "open" /\ ConnOf(b, a).st = "open" =>
                ConnOf(a, b).pconn = Slot(reg[b], a).connid

Meets(a, b) == b \in Known(a) /\ a \in Known(b) /\ ConnOf(a, b).st = "open"

\* In the end every process is linked with the center and with every node it
\* subscribes to, in whatever order they are started, stop and start again, but
\* for what the code does not recover from.
EverybodyMeets ==
    <>[](mishaps = {} =>
            \A n \in zone \ {Center} :
                /\ Meets(n, Center)
                /\ \A b \in zone : Tid(b) \in ToSet(Subs[n]) => Meets(n, b))
=============================================================================

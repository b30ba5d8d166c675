----------------------------- MODULE NodeTable -----------------------------
(***************************************************************************)
(* The registry of nodes every process keeps: libshaco/sc_node.c.          *)
(*                                                                         *)
(* A node's id is <<tid, sid>>, its type and its number in the type.  A    *)
(* registry is [me, arr], with for each type the array arr[tid] of         *)
(* [size, loaditer, p], whose capacity is Len(p); slot sid is p[sid + 1].  *)
(* Addresses are left out: a process and its address have one id.          *)
(*                                                                         *)
(* When an array grows past more than one slot, _add_node clears the slots *)
(* from the new node's on; those below it keep what realloc() returns,     *)
(* which is the argument junk of the operators.                            *)
(***************************************************************************)
EXTENDS Naturals, Integers, Sequences

NoConn == -1
NoId == <<63, 1023>>              \* (uint16_t)-1
FirstId == <<0, 0>>               \* N->me before sc_register_me

_init_node == [id |-> NoId, connid |-> NoConn, load |-> 0]
ZeroNode == [id |-> FirstId, connid |-> 0, load |-> 0]

\* Memory nobody has written to yet, or that happens to look like a free slot.
Junk == {_init_node, ZeroNode}

EmptyArray == [size |-> 0, loaditer |-> 0, p |-> <<>>]
sc_node_register_types(tids) == [me |-> FirstId, arr |-> [t \in tids |-> EmptyArray]]

Tid(id) == id[1]
Sid(id) == id[2]

Slot(r, id) == r.arr[Tid(id)].p[Sid(id) + 1]

\* _get_node does not look beyond size, whatever there is.
Visible(r, id) == Tid(id) \in DOMAIN r.arr /\ Sid(id) < r.arr[Tid(id)].size
sc_node_is_register(r, id) == Visible(r, id) /\ Slot(r, id).id = id

_isme(r, node) == node.id = r.me
\* Mutant: a node may take the slot of one that is connected.
IsfreeAnyOther(r, node) == ~ _isme(r, node)
_isfree_node(r, node) == ~ _isme(r, node) /\ node.connid = NoConn
_free_node(r, node) == IF _isme(r, node) THEN node ELSE _init_node

\* The capacity after doubling until slot idx is in it.
Doubled(cap, idx) ==
    LET start == IF cap = 0 THEN 1 ELSE cap
        enough == {k \in 0 .. idx + 1 : start * 2 ^ k > idx}
    IN start * 2 ^ (CHOOSE k \in enough : \A j \in enough : k <= j)

Grown(arr, idx, junk) ==
    LET cap == Len(arr.p) IN
    IF idx < cap THEN arr
    ELSE [arr EXCEPT !.p = @ \o [k \in 1 .. Doubled(cap, idx) - cap |->
                                   IF cap + k <= idx THEN junk ELSE _init_node]]

\* _add_node: 0 and the array, or 1 and the array that has grown.  The new
\* node's slot is the last that is visible from then on.
Takes(r, arr, node) == _isfree_node(r, arr.p[Sid(node.id) + 1])

\* Mutant: one slot too many is visible.
AddShowsOneMore(r, arr, node) ==
    IF ~ Takes(r, arr, node) THEN arr
    ELSE [arr EXCEPT !.p[Sid(node.id) + 1] = [node EXCEPT !.load = 0],
                     !.size = Sid(node.id) + 2]

_add_node(r, arr, node) ==
    IF ~ Takes(r, arr, node) THEN arr
    ELSE [arr EXCEPT !.p[Sid(node.id) + 1] = [node EXCEPT !.load = 0],
                     !.size = Sid(node.id) + 1]

_equal_node(a, b) == a.id = b.id /\ a.connid = b.connid

sc_node_register(r, node, junk) ==
    [r EXCEPT !.arr[Tid(node.id)] = _add_node(r, Grown(@, Sid(node.id), junk), node)]

RegisterFails(r, node, junk) ==
    LET c == Grown(r.arr[Tid(node.id)], Sid(node.id), junk).p[Sid(node.id) + 1] IN
    ~ _isfree_node(r, c) /\ ~ _equal_node(node, c)

sc_register_me(r, id, junk) ==
    [sc_node_register(r, [_init_node EXCEPT !.id = id], junk) EXCEPT !.me = id]

\* The visible slots, types in order and numbers in order.
VisibleIds(r) == UNION {{<<t, k>> : k \in 0 .. r.arr[t].size - 1} : t \in DOMAIN r.arr}
Before(a, b) == Tid(a) < Tid(b) \/ (Tid(a) = Tid(b) /\ Sid(a) < Sid(b))

\* Only the first that has the connection.
sc_node_disconnect(r, connid) ==
    LET with == {id \in VisibleIds(r) : Slot(r, id).connid = connid}
        id == CHOOSE i \in with : \A j \in with \ {i} : Before(i, j)
    IN IF with = {} THEN r
       ELSE [r EXCEPT !.arr[Tid(id)].p[Sid(id) + 1] = _free_node(r, @)]

\* The connections sc_node_foreach calls back for, in order.
sc_node_foreach(r, tid) ==
    LET arr == r.arr[tid] IN
    SelectSeq(SubSeq(arr.p, 1, arr.size), LAMBDA node : node.connid # NoConn)

\* The number of the node with the least load, the first after the one chosen
\* last; -1 if there is none.
sc_node_minload(arr) ==
    LET there == {k \in 0 .. arr.size - 1 : arr.p[k + 1].connid # NoConn}
        turn(k) == (k - arr.loaditer) % arr.size
        better(k, j) == \/ arr.p[k + 1].load < arr.p[j + 1].load
                        \/ arr.p[k + 1].load = arr.p[j + 1].load /\ turn(k) < turn(j)
    IN IF there = {} THEN -1 ELSE CHOOSE k \in there : \A j \in there \ {k} : better(k, j)

\* ... and the next search begins after it.
MinloadMoves(arr) ==
    LET sid == sc_node_minload(arr) IN IF sid = -1 THEN arr ELSE [arr EXCEPT !.loaditer = sid + 1]

\* It is asked for by the number alone: the slot may be anybody's.
sc_node_updateload(r, id, value) ==
    IF Visible(r, id) THEN [r EXCEPT !.arr[Tid(id)].p[Sid(id) + 1].load = @ + value] ELSE r
=============================================================================

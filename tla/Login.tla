------------------------------- MODULE Login -------------------------------
(***************************************************************************)
(* How a user gets into the game: service_login.c verifies its password    *)
(* with redis and has the account registered with a gate, through the load *)
(* node (service_load.c); the user is told the gate and a key, and logs in *)
(* there (service_forward.c).                                              *)
(*                                                                         *)
(* On the login node a client and its connection have one id, which is     *)
(* used again.  A LOGOUTED client has output left; messages of it that are *)
(* in the buffer already are still handled when there were more than the   *)
(* gate handles at once (Gate).  The nodes' links deliver in order.  Which *)
(* gate the load node takes is sc_node_minload's choice (NodeTable): here  *)
(* it is any, or none (MINLOADFAIL, which is ignored).                     *)
(***************************************************************************)
EXTENDS Integers, Sequences, FiniteSets

CONSTANTS Users, Account, \* users and the account each logs in to
          Conns, Gates,
          MaxKey,     \* bound: passwords verified
          MaxOpen,    \* bound: connections of users to the login node
          MaxMishaps, \* bound: kinds of mishaps in one behaviour
          None

Accounts == {Account[u] : u \in Users}

ASSUME LoginAssumption ==
    /\ Account \in [Users -> Accounts] /\ None \notin Users \cup Gates \cup Accounts
    /\ MaxKey \in Nat \ {0} /\ MaxOpen \in Nat /\ MaxMishaps \in Nat

VARIABLES knows,   \* the users whose password is right
          client,  \* the login node's gate: FREE, CONNECTED, LOGINED or LOGOUTED, and whose
          player,  \* struct player of each client
          serial,  \* self->key
          queries, \* what redis has been asked, in order
          gate,    \* of each gate: registrations and answers on their way, and regacc
          told,    \* NOTIFYGATE: what each user knows
          guest,   \* each user's connection to a gate
          opened, issued, admitted, refused, abort, mishaps \* history

vars == <<knows, client, player, serial, queries, gate, told, guest,
          opened, issued, admitted, refused, abort, mishaps>>

NoClient == [status |-> "FREE", user |-> None]
nobody == [state |-> "FREE", account |-> None, passwd |-> None, key |-> 0, late |-> FALSE]
NoTicket == [gate |-> None, key |-> 0]
NoAcc == [key |-> 0, ip |-> None]
NoGuest == [gate |-> None, status |-> "FREE"]

Init ==
    /\ knows \in SUBSET Users
    /\ client = [c \in Conns |-> NoClient]
    /\ player = [c \in Conns |-> nobody]
    /\ serial = 0
    /\ queries = <<>>
    /\ gate = [g \in Gates |-> [in |-> <<>>, out |-> <<>>, regacc |-> [a \in Accounts |-> NoAcc]]]
    /\ told = [u \in Users |-> NoTicket]
    /\ guest = [u \in Users |-> NoGuest]
    /\ opened = 0
    /\ issued = <<>>
    /\ admitted = [k \in 1 .. MaxKey |-> 0]
    /\ refused = FALSE
    /\ abort = FALSE
    /\ mishaps = {}

State == [client |-> client, player |-> player, told |-> told, mishaps |-> mishaps, abort |-> abort]
Becomes(w) ==
    /\ ~ abort /\ Cardinality(w.mishaps) <= MaxMishaps
    /\ client' = w.client
    /\ player' = w.player
    /\ told' = w.told
    /\ mishaps' = w.mishaps
    /\ abort' = w.abort
    /\ UNCHANGED <<knows, guest, admitted, refused>>

NoteIf(w, what, cond) == IF cond THEN [w EXCEPT !.mishaps = @ \cup {what}] ELSE w

-----------------------------------------------------------------------------
\* The login node.

\* sc_gate_disconnclient: with force, or with nothing left to send, it is closed.
Disconnected(w, c, closed) ==
    [w EXCEPT !.client[c] = IF closed THEN NoClient ELSE [@ EXCEPT !.status = "LOGOUTED"]]

_logout(w, c, closed) == Disconnected([w EXCEPT !.player[c] = nobody], c, closed)

Accept(c, u) ==
    /\ client[c] = NoClient /\ opened < MaxOpen /\ \A d \in Conns : client[d].user # u
    /\ Becomes([State EXCEPT !.client[c] = [status |-> "CONNECTED", user |-> u]])
    /\ opened' = opened + 1
    /\ UNCHANGED <<serial, queries, gate, issued>>

\* LOGINACCOUNT; db: there is a node for the accounts.  History: it was in the
\* buffer when its client was logged out.
SendLogin(c, db, closed) ==
    LET u == client[c].user
        asked == [nobody EXCEPT !.account = Account[u], !.passwd = u, !.state = "LOGIN"]
        w == NoteIf(State, "leftover", client[c].status = "LOGOUTED")
    IN /\ client[c] # NoClient /\ player[c].state = "FREE"
       /\ Becomes(IF ~ db THEN _logout(w, c, closed)
                  ELSE [w EXCEPT !.player[c] = asked,
                                 !.client[c].status = IF @ = "CONNECTED" THEN "LOGINED" ELSE @])
       /\ queries' = IF db THEN Append(queries, [cid |-> c, account |-> Account[u]]) ELSE queries
       /\ UNCHANGED <<serial, gate, opened, issued>>

\* An answer for an earlier client of the connection is not his, unless that one
\* asked for the same account.
IsHis(q) ==
    /\ client[q.cid] # NoClient /\ player[q.cid].state # "FREE"
    /\ player[q.cid].account = q.account

\* The password in the answer is the client's, whoever the answer was for.
Verified(q) == player[q.cid].passwd \in knows

\* _handle_redis: ok: redis has answered as it should; g: the gate that the load
\* node passes the registration on to.
HandleRedis(ok, g, closed) ==
    LET q == Head(queries)
        c == q.cid
        reg == [cid |-> c, account |-> q.account, key |-> serial + 1, ip |-> client[c].user]
        passed == [State EXCEPT !.player[c].state = "GATELOAD", !.player[c].key = serial + 1]
        verified == IsHis(q) /\ ok /\ Verified(q)
    IN /\ queries # <<>> /\ (verified => serial < MaxKey)
       /\ queries' = Tail(queries)
       /\ Becomes(IF ~ IsHis(q) THEN State
                  ELSE IF verified THEN passed ELSE _logout(State, c, closed))
       /\ serial' = IF verified THEN serial + 1 ELSE serial
       /\ gate' = IF verified /\ g # None THEN [gate EXCEPT ![g].in = Append(@, reg)] ELSE gate
       /\ issued' = IF verified THEN Append(issued, [user |-> player[c].passwd, gate |-> g]) ELSE issued
       /\ UNCHANGED opened

\* Mutant: the key is not compared.
AnswersAny(res) ==
    /\ client[res.cid] # NoClient /\ player[res.cid].state = "GATELOAD"
    /\ player[res.cid].account = res.account

Answers(res) ==
    /\ client[res.cid] # NoClient /\ player[res.cid].state = "GATELOAD"
    /\ player[res.cid].account = res.account /\ player[res.cid].key = res.key

\* _loginres; ok is always 1.
LoginRes(g, closed) ==
    LET res == Head(gate[g].out)
        notified == [State EXCEPT !.told[client[res.cid].user] = [gate |-> g, key |-> res.key]]
    IN /\ gate[g].out # <<>>
       /\ gate' = [gate EXCEPT ![g].out = Tail(@)]
       /\ Becomes(IF Answers(res) THEN _logout(notified, res.cid, closed) ELSE State)
       /\ UNCHANGED <<serial, queries, opened, issued>>

\* Mutant: the login service is told of no end.
LoginNetNever(w, c) == w

\* SOCKERR and TIMEOUT come for a LOGINED client only.
login_net(w, c) == IF w.client[c].status = "LOGINED" THEN _logout(w, c, TRUE) ELSE w

\* The connection breaks, its output is sent (WRIDONECLOSE), or the gate's timer
\* ends it.
Closed(c) ==
    /\ client[c] # NoClient
    /\ Becomes(Disconnected(login_net(State, c), c, TRUE))
    /\ UNCHANGED <<serial, queries, gate, opened, issued>>

\* A login lasts longer than 5 s.
Late(c) ==
    /\ player[c].state # "FREE" /\ ~ player[c].late
    /\ Becomes([State EXCEPT !.player[c].late = TRUE])
    /\ UNCHANGED <<serial, queries, gate, opened, issued>>

\* assert(c): the client of a late login is still there.
login_time ==
    LET late == {c \in Conns : player[c].state # "FREE" /\ player[c].late}
        out == [State EXCEPT !.player = [c \in Conns |-> IF c \in late THEN nobody ELSE player[c]],
                             !.client = [c \in Conns |-> IF c \in late THEN NoClient ELSE client[c]]]
    IN /\ late # {}
       /\ Becomes(IF \E c \in late : client[c] = NoClient THEN [State EXCEPT !.abort = TRUE] ELSE out)
       /\ UNCHANGED <<serial, queries, gate, opened, issued>>

-----------------------------------------------------------------------------
\* The gates.

\* Mutant: an account that is registered already keeps its registration.
FirstCounts(acc, reg) == IF acc # NoAcc THEN acc ELSE [key |-> reg.key, ip |-> reg.ip]

\* Of an account the last registration counts.
LastCounts(acc, reg) == [key |-> reg.key, ip |-> reg.ip]

\* _accountreg
AccountReg(g) ==
    LET reg == Head(gate[g].in) IN
    /\ gate[g].in # <<>> /\ ~ abort
    /\ gate' = [gate EXCEPT ![g] =
                   [in |-> Tail(gate[g].in),
                    out |-> Append(gate[g].out, [cid |-> reg.cid, account |-> reg.account, key |-> reg.key]),
                    regacc |-> [gate[g].regacc EXCEPT
                                  ![reg.account] = LastCounts(gate[g].regacc[reg.account], reg)]]]
    /\ UNCHANGED <<knows, client, player, serial, queries, told, guest, opened, issued,
                   admitted, refused, abort, mishaps>>

\* forward_time, after 20 s.
Expire(g, a) ==
    /\ gate[g].regacc[a] # NoAcc /\ ~ abort
    /\ gate' = [gate EXCEPT ![g].regacc[a] = NoAcc]
    /\ mishaps' = mishaps \cup {"expired"} /\ Cardinality(mishaps') <= MaxMishaps
    /\ UNCHANGED <<knows, client, player, serial, queries, told, guest, opened, issued,
                   admitted, refused, abort>>

GateUnchanged == UNCHANGED <<knows, client, player, serial, queries, told, opened, issued, abort>>

GateAccept(u) ==
    /\ guest[u] = NoGuest /\ told[u] # NoTicket /\ ~ abort
    /\ guest' = [guest EXCEPT ![u] = [gate |-> told[u].gate, status |-> "CONNECTED"]]
    /\ GateUnchanged /\ UNCHANGED <<gate, admitted, refused, mishaps>>

\* idmap_remove, before anything is compared.
RemovesAcc(regacc, a) == [regacc EXCEPT ![a] = NoAcc]

\* forward's _login.  History: a user has come with an older key than that of the
\* registration it has taken, or has come again; one was refused with a key that
\* nobody has used, the last that was registered there for its account.
GateLogin(u) ==
    LET g == guest[u].gate
        key == told[u].key
        a == Account[u]
        acc == gate[g].regacc[a]
        passes == acc.key = key /\ acc.ip = u
        newer == \E k \in key + 1 .. serial : issued[k].gate = g /\ Account[issued[k].user] = a
    IN /\ guest[u].status = "CONNECTED" /\ g = told[u].gate /\ ~ abort
       /\ gate' = [gate EXCEPT ![g].regacc = RemovesAcc(@, a)]
       /\ guest' = [guest EXCEPT ![u] = IF passes THEN [@ EXCEPT !.status = "LOGINED"]
                                        ELSE IF acc = NoAcc THEN NoGuest ELSE @]
       /\ admitted' = IF passes THEN [admitted EXCEPT ![key] = @ + 1] ELSE admitted
       /\ refused' = (refused \/ (~ passes /\ admitted[key] = 0 /\ ~ newer))
       /\ mishaps' = IF acc # NoAcc /\ acc.key > key THEN mishaps \cup {"older"} ELSE mishaps
       /\ Cardinality(mishaps') <= MaxMishaps
       /\ GateUnchanged

\* The gate's timers and the network.
GateClosed(u) ==
    /\ guest[u] # NoGuest /\ ~ abort
    /\ guest' = [guest EXCEPT ![u] = NoGuest]
    /\ GateUnchanged /\ UNCHANGED <<gate, admitted, refused, mishaps>>

Next ==
    \/ \E c \in Conns :
         \/ \E u \in Users : Accept(c, u)
         \/ \E db, closed \in BOOLEAN : SendLogin(c, db, closed)
         \/ Closed(c)
         \/ Late(c)
    \/ \E ok, closed \in BOOLEAN, g \in Gates \cup {None} : HandleRedis(ok, g, closed)
    \/ login_time
    \/ \E g \in Gates :
         \/ \E closed \in BOOLEAN : LoginRes(g, closed)
         \/ AccountReg(g)
         \/ \E a \in Accounts : Expire(g, a)
    \/ \E u \in Users : GateAccept(u) \/ GateLogin(u) \/ GateClosed(u)

Spec == Init /\ [][Next]_vars

-----------------------------------------------------------------------------
Keys == 0 .. MaxKey
Registrations == [cid : Conns, account : Accounts, key : Keys, ip : Users \cup {None}]

TypeOK ==
    /\ knows \subseteq Users
    /\ client \in [Conns -> [status : {"FREE", "CONNECTED", "LOGINED", "LOGOUTED"}, user : Users \cup {None}]]
    /\ player \in [Conns -> [state : {"FREE", "LOGIN", "GATELOAD"}, account : Accounts \cup {None},
                             passwd : Users \cup {None}, key : Keys, late : BOOLEAN]]
    /\ serial = Len(issued) /\ serial \in Keys
    /\ \A k \in DOMAIN queries : queries[k] \in [cid : Conns, account : Accounts]
    /\ \A g \in Gates : \A k \in DOMAIN gate[g].in : gate[g].in[k] \in Registrations
    /\ told \in [Users -> [gate : Gates \cup {None}, key : Keys]]
    /\ guest \in [Users -> [gate : Gates \cup {None}, status : {"FREE", "CONNECTED", "LOGINED"}]]
    /\ mishaps \subseteq {"leftover", "older", "expired"}

\* A player that is logging in has its client, the one that sent the password:
\* so assert(c) of login_time holds.  It has not when its LOGINACCOUNT was handled
\* after it had been logged out, for the login service is not told of the end of
\* a LOGOUTED client.
PlayerHasClient ==
    "leftover" \notin mishaps =>
        /\ ~ abort
        /\ \A c \in Conns : player[c].state # "FREE" =>
             client[c] = [status |-> "LOGINED", user |-> player[c].passwd]

TablesAgree == TypeOK /\ PlayerHasClient

\* Who is told a key has itself given the right password for it, whatever answers
\* to earlier clients of the connection come late; and a key opens a gate once.
KeyIsOwn ==
    /\ \A k \in 1 .. MaxKey : admitted[k] <= 1
    /\ "leftover" \notin mishaps =>
         \A u \in Users : told[u] # NoTicket =>
             u \in knows /\ issued[told[u].key] = [user |-> u, gate |-> told[u].gate]

\* The key that was told last for an account opens its gate, unless 20 s have
\* passed, or a user that still had an older key came first: its login takes the
\* registration away before the keys are compared.  (Or the key is not its own.)
NewestIsAdmitted == refused => mishaps \cap {"expired", "older", "leftover"} # {}
=============================================================================

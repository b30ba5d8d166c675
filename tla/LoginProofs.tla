----------------------------- MODULE LoginProofs -----------------------------
(***************************************************************************)
(* Theorems about the way of a user into the game (module Login), for any  *)
(* users, connections, gates and bounds.                                   *)
(*                                                                         *)
(* The inductive invariant follows a key from HandleRedis, which makes it, *)
(* through the link to its gate, which delivers in order, to the gate's    *)
(* table, where the last registration of an account counts, and back to    *)
(* the user.                                                               *)
(***************************************************************************)
EXTENDS Login, SequenceTheorems, TLAPS

Clients == {NoClient} \cup [status : {"CONNECTED", "LOGINED", "LOGOUTED"}, user : Users]
Players == [state : {"FREE", "LOGIN", "GATELOAD"}, account : Accounts \cup {None},
            passwd : Users \cup {None}, key : Keys, late : BOOLEAN]
Regs == [cid : Conns, account : Accounts, key : 1 .. MaxKey, ip : Users]
Results == [cid : Conns, account : Accounts, key : 1 .. MaxKey]
Accs == {NoAcc} \cup [key : 1 .. MaxKey, ip : Users]

GateType ==
    gate \in [Gates -> [in : Seq(Regs), out : Seq(Results), regacc : [Accounts -> Accs]]]

NodeType ==
    /\ knows \subseteq Users
    /\ client \in [Conns -> Clients]
    /\ player \in [Conns -> Players]
    /\ queries \in Seq([cid : Conns, account : Accounts])

UserType ==
    /\ told \in [Users -> {NoTicket} \cup [gate : Gates, key : 1 .. MaxKey]]
    /\ guest \in [Users -> [gate : Gates \cup {None}, status : {"FREE", "CONNECTED", "LOGINED"}]]
    /\ \A u \in Users : guest[u].status = "CONNECTED" => guest[u].gate \in Gates

HistoryType ==
    /\ serial \in Keys
    /\ issued \in Seq([user : Users, gate : Gates \cup {None}]) /\ Len(issued) = serial
    /\ admitted \in [1 .. MaxKey -> Nat]
    /\ refused \in BOOLEAN /\ abort \in BOOLEAN
    /\ mishaps \subseteq {"leftover", "older", "expired"}

TypeInv == NodeType /\ GateType /\ UserType /\ HistoryType

\* The player that logs in to an account has given a password for it, and one
\* that has a key has given the right password.
PlayerInv ==
    \A c \in Conns : player[c].state # "FREE" =>
        /\ player[c].passwd \in Users /\ player[c].account = Account[player[c].passwd]
        /\ player[c].state = "GATELOAD" =>
             /\ player[c].key \in 1 .. serial /\ player[c].passwd \in knows
             /\ issued[player[c].key].user = player[c].passwd

\* Of the keys issued: whether k is for a gate, and the account it is for.
IssuedFor(iss, k, g) == k \in 1 .. Len(iss) /\ iss[k].gate = g
AccountOf(iss, k) == Account[iss[k].user]

\* Every registration on a link is later than k.
Before(k, link) == \A i \in DOMAIN link : k < link[i].key

\* What arrives at a gate was issued for it, in the order of the keys; and it has
\* not opened the gate yet.
LinkInv ==
    \A g \in Gates :
        /\ \A i, j \in DOMAIN gate[g].in : i < j => gate[g].in[i].key < gate[g].in[j].key
        /\ \A i \in DOMAIN gate[g].in :
             LET reg == gate[g].in[i] IN
             /\ IssuedFor(issued, reg.key, g) /\ reg.account = AccountOf(issued, reg.key)
             /\ admitted[reg.key] = 0
             /\ "leftover" \notin mishaps => reg.ip = issued[reg.key].user
        /\ \A k \in 1 .. serial : IssuedFor(issued, k, g) =>
             Before(k, gate[g].in) \/ \E i \in DOMAIN gate[g].in : gate[g].in[i].key = k

\* So are the registrations there, of which the last that came counts.
RegisteredInv ==
    \A g \in Gates, a \in Accounts :
        LET acc == gate[g].regacc[a] IN
        acc # NoAcc =>
            /\ IssuedFor(issued, acc.key, g) /\ AccountOf(issued, acc.key) = a
            /\ admitted[acc.key] = 0 /\ Before(acc.key, gate[g].in)
            /\ "leftover" \notin mishaps => acc.ip = issued[acc.key].user
            /\ \A k \in 1 .. serial :
                 IssuedFor(issued, k, g) /\ AccountOf(issued, k) = a /\ Before(k, gate[g].in) => k <= acc.key

\* Answers and users have keys that were registered.
ToldInv ==
    /\ \A g \in Gates : \A i \in DOMAIN gate[g].out :
         IssuedFor(issued, gate[g].out[i].key, g) /\ Before(gate[g].out[i].key, gate[g].in)
    /\ \A u \in Users : told[u] # NoTicket =>
         /\ IssuedFor(issued, told[u].key, told[u].gate) /\ Before(told[u].key, gate[told[u].gate].in)
         /\ "leftover" \notin mishaps => u \in knows /\ issued[told[u].key].user = u

AdmittedInv == \A k \in 1 .. MaxKey : admitted[k] <= 1 /\ (k > serial => admitted[k] = 0)

\* Of the keys of an account at a gate, the newest that has arrived is registered
\* or was used.
NewestInv ==
    mishaps = {} =>
        /\ ~ refused
        /\ \A g \in Gates, k \in 1 .. serial :
             IssuedFor(issued, k, g) /\ Before(k, gate[g].in) =>
                 \/ admitted[k] > 0
                 \/ gate[g].regacc[AccountOf(issued, k)].key = k
                 \/ \E n \in k + 1 .. serial : IssuedFor(issued, n, g) /\ AccountOf(issued, n) = AccountOf(issued, k)

KeyInv == LinkInv /\ RegisteredInv /\ ToldInv /\ AdmittedInv /\ NewestInv
IInv == TypeInv /\ PlayerHasClient /\ PlayerInv /\ KeyInv
-----------------------------------------------------------------------------
LEMMA InitKeeps == Init => IInv
<1> SUFFICES ASSUME Init PROVE IInv
  OBVIOUS
<1>1. TypeInv
  <2>1. <<>> \in Seq(Regs) /\ <<>> \in Seq(Results) /\ <<>> \in Seq([cid : Conns, account : Accounts])
        /\ <<>> \in Seq([user : Users, gate : Gates \cup {None}]) /\ Len(<<>>) = 0
    OBVIOUS
  <2>2. NodeType
    BY <2>1, LoginAssumption DEF Init, NodeType, Clients, Players, nobody, Keys
  <2>3. GateType
    BY <2>1 DEF Init, GateType, Accs
  <2>4. UserType
    BY DEF Init, UserType, NoGuest
  <2>5. HistoryType
    <3>1. serial \in Keys /\ admitted \in [1 .. MaxKey -> Nat] /\ mishaps = {}
      BY LoginAssumption DEF Init, Keys
    <3>2. refused \in BOOLEAN /\ abort \in BOOLEAN
      BY DEF Init
    <3> QED
      BY <2>1, <3>1, <3>2 DEF Init, HistoryType
  <2> QED
    BY <2>2, <2>3, <2>4, <2>5 DEF TypeInv
<1>2. PlayerHasClient /\ PlayerInv
  BY DEF Init, PlayerHasClient, PlayerInv, nobody
<1>3. KeyInv
  <2>1. \A g \in Gates : DOMAIN gate[g].in = {} /\ DOMAIN gate[g].out = {}
    BY DEF Init
  <2>2. LinkInv
    BY <2>1 DEF Init, LinkInv
  <2>3. RegisteredInv
    BY DEF Init, RegisteredInv
  <2>4. ToldInv
    BY <2>1 DEF Init, ToldInv
  <2>5. AdmittedInv
    BY DEF Init, AdmittedInv
  <2>6. NewestInv
    BY DEF Init, NewestInv
  <2> QED
    BY <2>2, <2>3, <2>4, <2>5, <2>6 DEF KeyInv
<1> QED
  BY <1>1, <1>2, <1>3 DEF IInv

\* A step that leaves the keys alone.
LEMMA KeysStay ==
    ASSUME KeyInv, mishaps \subseteq mishaps',
           UNCHANGED <<knows, gate, serial, issued, admitted, told, refused>>
    PROVE  KeyInv'
<1>1. LinkInv'
  BY DEF KeyInv, LinkInv, IssuedFor, AccountOf, Before
<1>2. RegisteredInv'
  BY DEF KeyInv, RegisteredInv, IssuedFor, AccountOf, Before
<1>3. ToldInv'
  BY DEF KeyInv, ToldInv, IssuedFor, Before
<1>4. AdmittedInv'
  BY DEF KeyInv, AdmittedInv
<1>5. NewestInv'
  <2> SUFFICES ASSUME mishaps' = {} PROVE NewestInv'
    BY DEF NewestInv
  <2>1. mishaps = {}
    OBVIOUS
  <2> QED
    BY <2>1 DEF KeyInv, NewestInv
<1> QED
  BY <1>1, <1>2, <1>3, <1>4, <1>5 DEF KeyInv

-----------------------------------------------------------------------------
\* The login node's actions on one connection: no key comes into being or moves.
LEMMA AcceptKeeps ==
    ASSUME IInv, NEW c \in Conns, NEW u \in Users, Accept(c, u)
    PROVE  IInv'
<1>1. /\ client[c] = NoClient
      /\ client' = [client EXCEPT ![c] = [status |-> "CONNECTED", user |-> u]]
      /\ UNCHANGED <<knows, player, serial, queries, gate, told, guest, issued, admitted,
                     refused, abort, mishaps>>
  BY DEF Accept, Becomes, State
<1>2. TypeInv'
  <2>1. client' \in [Conns -> Clients]
    BY <1>1 DEF IInv, TypeInv, NodeType, Clients
  <2> QED
    BY <1>1, <2>1 DEF IInv, TypeInv, NodeType, GateType, UserType, HistoryType
<1>3. PlayerHasClient'
  BY <1>1 DEF IInv, TypeInv, NodeType, PlayerHasClient, NoClient
<1>4. PlayerInv'
  BY <1>1 DEF IInv, PlayerInv
<1>5. KeyInv'
  BY <1>1, KeysStay DEF IInv
<1> QED
  BY <1>2, <1>3, <1>4, <1>5 DEF IInv

LEMMA ClosedKeeps ==
    ASSUME IInv, NEW c \in Conns, Closed(c)
    PROVE  IInv'
<1>1. /\ client[c] # NoClient
      /\ client' = [client EXCEPT ![c] = NoClient]
      /\ player' = IF client[c].status = "LOGINED" THEN [player EXCEPT ![c] = nobody] ELSE player
      /\ UNCHANGED <<knows, serial, queries, gate, told, guest, issued, admitted,
                     refused, abort, mishaps>>
  BY DEF Closed, Becomes, State, Disconnected, login_net, _logout, IInv, TypeInv, NodeType
<1>2. TypeInv'
  <2>1. client' \in [Conns -> Clients]
    BY <1>1 DEF IInv, TypeInv, NodeType, Clients
  <2>2. player' \in [Conns -> Players]
    BY <1>1, LoginAssumption DEF IInv, TypeInv, NodeType, Players, nobody, Keys
  <2> QED
    BY <1>1, <2>1, <2>2 DEF IInv, TypeInv, NodeType, GateType, UserType, HistoryType
<1>3. PlayerHasClient'
  BY <1>1 DEF IInv, TypeInv, NodeType, PlayerHasClient, nobody
<1>4. PlayerInv'
  BY <1>1 DEF IInv, TypeInv, NodeType, PlayerInv, nobody
<1>5. KeyInv'
  BY <1>1, KeysStay DEF IInv
<1> QED
  BY <1>2, <1>3, <1>4, <1>5 DEF IInv

LEMMA LateKeeps ==
    ASSUME IInv, NEW c \in Conns, Late(c)
    PROVE  IInv'
<1>1. /\ player' = [player EXCEPT ![c].late = TRUE]
      /\ UNCHANGED <<knows, client, serial, queries, gate, told, guest, issued, admitted,
                     refused, abort, mishaps>>
  BY DEF Late, Becomes, State
<1>2. TypeInv'
  <2>1. player' \in [Conns -> Players]
    BY <1>1 DEF IInv, TypeInv, NodeType, Players
  <2> QED
    BY <1>1, <2>1 DEF IInv, TypeInv, NodeType, GateType, UserType, HistoryType
<1>3. PlayerHasClient'
  BY <1>1 DEF IInv, TypeInv, NodeType, PlayerHasClient
<1>4. PlayerInv'
  BY <1>1 DEF IInv, TypeInv, NodeType, PlayerInv
<1>5. KeyInv'
  BY <1>1, KeysStay DEF IInv
<1> QED
  BY <1>2, <1>3, <1>4, <1>5 DEF IInv

\* LOGINACCOUNT of a client that is still there makes a player of it; nothing is
\* claimed of one that had been logged out.
LEMMA SendLoginKeeps ==
    ASSUME IInv, NEW c \in Conns, NEW db \in BOOLEAN, NEW closed \in BOOLEAN,
           SendLogin(c, db, closed)
    PROVE  IInv'
<1> DEFINE u == client[c].user
<1> DEFINE asked == [nobody EXCEPT !.account = Account[u], !.passwd = u, !.state = "LOGIN"]
<1>1. /\ client[c] # NoClient /\ player[c].state = "FREE"
      /\ UNCHANGED <<knows, serial, gate, told, guest, issued, admitted, refused, abort>>
      /\ mishaps' = IF client[c].status = "LOGOUTED" THEN mishaps \cup {"leftover"} ELSE mishaps
  BY DEF SendLogin, Becomes, State, NoteIf, _logout, Disconnected
<1>2. /\ client[c] \in [status : {"CONNECTED", "LOGINED", "LOGOUTED"}, user : Users]
      /\ u \in Users /\ Account[u] \in Accounts
  BY <1>1 DEF IInv, TypeInv, NodeType, Clients, Accounts
<1>3. CASE ~ db
  <2>1. /\ player' = [player EXCEPT ![c] = nobody] /\ queries' = queries
        /\ client' = [client EXCEPT ![c] = IF closed THEN NoClient
                                           ELSE [@ EXCEPT !.status = "LOGOUTED"]]
    BY <1>3 DEF SendLogin, Becomes, State, NoteIf, _logout, Disconnected
  <2>2. TypeInv'
    <3>1. [client[c] EXCEPT !.status = "LOGOUTED"] \in Clients
      BY <1>2 DEF Clients
    <3>2. client' \in [Conns -> Clients]
      BY <2>1, <3>1 DEF IInv, TypeInv, NodeType, Clients
    <3>3. player' \in [Conns -> Players]
      BY <2>1, LoginAssumption DEF IInv, TypeInv, NodeType, Players, nobody, Keys
    <3> QED
      BY <1>1, <2>1, <3>2, <3>3 DEF IInv, TypeInv, NodeType, GateType, UserType, HistoryType
  <2>3. PlayerHasClient'
    BY <1>1, <2>1 DEF IInv, TypeInv, NodeType, PlayerHasClient, nobody
  <2>4. PlayerInv'
    BY <1>1, <2>1 DEF IInv, TypeInv, NodeType, PlayerInv, nobody
  <2> QED
    BY <1>1, <2>2, <2>3, <2>4, KeysStay DEF IInv
<1>4. CASE db
  <2>1. /\ player' = [player EXCEPT ![c] = asked]
        /\ queries' = Append(queries, [cid |-> c, account |-> Account[u]])
        /\ client' = [client EXCEPT ![c].status = IF @ = "CONNECTED" THEN "LOGINED" ELSE @]
    BY <1>4 DEF SendLogin, Becomes, State, NoteIf
  <2>2. /\ asked \in Players /\ asked.state = "LOGIN"
        /\ asked.account = Account[u] /\ asked.passwd = u
    <3>1. 0 \in Keys
      BY LoginAssumption DEF Keys
    <3>2. nobody \in Players
      BY <3>1 DEF nobody, Players
    <3> QED
      BY <1>2, <3>2 DEF Players
  <2> HIDE DEF asked
  <2>3. TypeInv'
    <3>1. client' \in [Conns -> Clients]
      BY <1>2, <2>1 DEF IInv, TypeInv, NodeType, Clients
    <3>2. player' \in [Conns -> Players]
      BY <2>1, <2>2 DEF IInv, TypeInv, NodeType
    <3>3. queries' \in Seq([cid : Conns, account : Accounts])
      BY <1>2, <2>1 DEF IInv, TypeInv, NodeType
    <3> QED
      BY <1>1, <3>1, <3>2, <3>3 DEF IInv, TypeInv, NodeType, GateType, UserType, HistoryType
  <2>4. PlayerHasClient'
    BY <1>1, <1>2, <2>1, <2>2 DEF IInv, TypeInv, NodeType, Clients, PlayerHasClient
  <2>5. PlayerInv'
    BY <1>1, <1>2, <2>1, <2>2 DEF IInv, TypeInv, NodeType, PlayerInv
  <2> QED
    BY <1>1, <2>3, <2>4, <2>5, KeysStay DEF IInv
<1> QED
  BY <1>3, <1>4

\* The timer ends logins that last too long.  Their clients are there: assert(c).
LEMMA LoginTimeKeeps ==
    ASSUME IInv, login_time
    PROVE  IInv'
<1> DEFINE late == {c \in Conns : player[c].state # "FREE" /\ player[c].late}
<1>1. UNCHANGED <<knows, serial, queries, gate, told, guest, issued, admitted, refused, mishaps>>
  BY DEF login_time, Becomes, State
<1>2. CASE \E c \in late : client[c] = NoClient
  <2>1. UNCHANGED <<client, player>> /\ abort' = TRUE
    BY <1>2 DEF login_time, Becomes, State
  <2>2. "leftover" \in mishaps
    <3>1. PICK c \in Conns : player[c].state # "FREE" /\ client[c] = NoClient
      BY <1>2
    <3>2. client[c].status # "LOGINED"
      BY <3>1 DEF NoClient
    <3>3. "leftover" \notin mishaps => client[c] = [status |-> "LOGINED", user |-> player[c].passwd]
      BY <3>1 DEF IInv, PlayerHasClient
    <3> QED
      BY <3>2, <3>3
  <2>3. TypeInv'
    BY <1>1, <2>1 DEF IInv, TypeInv, NodeType, GateType, UserType, HistoryType
  <2>4. PlayerHasClient' /\ PlayerInv'
    BY <1>1, <2>1, <2>2 DEF IInv, PlayerHasClient, PlayerInv
  <2> QED
    BY <1>1, <2>3, <2>4, KeysStay DEF IInv
<1>3. CASE ~ \E c \in late : client[c] = NoClient
  <2>1. /\ player' = [c \in Conns |-> IF c \in late THEN nobody ELSE player[c]]
        /\ client' = [c \in Conns |-> IF c \in late THEN NoClient ELSE client[c]]
        /\ abort' = abort
    BY <1>3 DEF login_time, Becomes, State
  <2> HIDE DEF late
  <2>2. TypeInv'
    <3>1. client' \in [Conns -> Clients]
      BY <2>1 DEF IInv, TypeInv, NodeType, Clients
    <3>2. nobody \in Players
      BY LoginAssumption DEF Players, nobody, Keys
    <3>3. player' \in [Conns -> Players]
      BY <2>1, <3>2 DEF IInv, TypeInv, NodeType
    <3> QED
      BY <1>1, <2>1, <3>1, <3>3 DEF IInv, TypeInv, NodeType, GateType, UserType, HistoryType
  <2>3. PlayerHasClient' /\ PlayerInv'
    BY <1>1, <2>1 DEF IInv, PlayerHasClient, PlayerInv, nobody
  <2> QED
    BY <1>1, <2>2, <2>3, KeysStay DEF IInv
<1> QED
  BY <1>2, <1>3

-----------------------------------------------------------------------------
\* A key comes into being: the last one issued, and the last on the link to the
\* gate it is sent to, if it is sent to one.
LEMMA IssuedKeepsKeys ==
    ASSUME TypeInv, TypeInv', KeyInv,
           NEW g \in Gates \cup {None}, NEW user \in Users, NEW reg \in Regs,
           reg.key = serial + 1, reg.account = Account[user],
           "leftover" \notin mishaps => reg.ip = user,
           serial' = serial + 1, issued' = Append(issued, [user |-> user, gate |-> g]),
           gate' = IF g # None THEN [gate EXCEPT ![g].in = Append(@, reg)] ELSE gate,
           UNCHANGED <<knows, told, admitted, refused, mishaps>>
    PROVE  KeyInv'
<1> DEFINE n == serial + 1
<1>1. serial \in Nat /\ n \in 1 .. MaxKey /\ 1 .. n = (1 .. serial) \cup {n}
  BY DEF TypeInv, HistoryType, Keys
<1>2. /\ \A k \in 1 .. serial : issued'[k] = issued[k]
      /\ issued'[n].user = user /\ issued'[n].gate = g
      /\ Len(issued) = serial /\ Len(issued') = n
  BY <1>1 DEF TypeInv, HistoryType
<1>3. ASSUME NEW h \in Gates
      PROVE  /\ gate'[h].out = gate[h].out /\ gate'[h].regacc = gate[h].regacc
             /\ h # g => gate'[h].in = gate[h].in
             /\ h = g => gate'[h].in = Append(gate[h].in, reg)
  BY LoginAssumption DEF TypeInv, GateType
<1>4. ASSUME NEW h \in Gates
      PROVE  /\ gate[h].in \in Seq(Regs) /\ DOMAIN gate[h].in = 1 .. Len(gate[h].in)
             /\ Len(gate[h].in) \in Nat
  BY DEF TypeInv, GateType
<1>5. ASSUME NEW h \in Gates, h = g
      PROVE  /\ DOMAIN gate'[h].in = (1 .. Len(gate[h].in)) \cup {Len(gate[h].in) + 1}
             /\ \A i \in 1 .. Len(gate[h].in) : gate'[h].in[i] = gate[h].in[i]
             /\ gate'[h].in[Len(gate[h].in) + 1] = reg
  BY <1>3, <1>4, <1>5
<1>6. ASSUME NEW h \in Gates, NEW k
      PROVE  IssuedFor(issued', k, h) <=> IssuedFor(issued, k, h) \/ (k = n /\ h = g)
  BY <1>1, <1>2 DEF IssuedFor
<1>7. /\ \A k \in 1 .. serial : AccountOf(issued', k) = AccountOf(issued, k)
      /\ AccountOf(issued', n) = Account[user]
  BY <1>1, <1>2 DEF AccountOf
<1>8. ASSUME NEW h \in Gates, NEW k \in 1 .. serial
      PROVE  Before(k, gate'[h].in) <=> Before(k, gate[h].in)
  <2>1. CASE h # g
    BY <1>3, <2>1 DEF Before
  <2>2. CASE h = g
    <3>1. /\ DOMAIN gate'[h].in = DOMAIN gate[h].in \cup {Len(gate[h].in) + 1}
          /\ \A i \in DOMAIN gate[h].in : gate'[h].in[i] = gate[h].in[i]
          /\ gate'[h].in[Len(gate[h].in) + 1] = reg
      BY <1>4, <1>5, <2>2, Zenon
    <3>2. k < reg.key
      BY <1>1
    <3> QED
      BY <3>1, <3>2, Zenon DEF Before
  <2> QED
    BY <2>1, <2>2
<1>9. ASSUME NEW h \in Gates, h = g
      PROVE  ~ Before(n, gate'[h].in)
  <2>1. Len(gate[h].in) + 1 \in DOMAIN gate'[h].in /\ gate'[h].in[Len(gate[h].in) + 1] = reg
    BY <1>5, <1>9, Zenon
  <2>2. reg.key = n /\ ~ (n < n)
    BY <1>1
  <2> QED
    BY <2>1, <2>2, Zenon DEF Before
<1>10. \A h \in Gates : \A k : IssuedFor(issued, k, h) => k \in 1 .. serial
  BY <1>2 DEF IssuedFor
<1>11. admitted[n] = 0
  <2>1. AdmittedInv
    BY Zenon DEF KeyInv
  <2>2. n > serial
    <3>1. serial \in Nat
      BY <1>1, Zenon
    <3> QED
      BY <3>1
  <2> QED
    BY <1>1, <2>1, <2>2, Zenon DEF AdmittedInv
<1> HIDE DEF n
<1>12. LinkInv'
  <2> SUFFICES ASSUME NEW h \in Gates
               PROVE  /\ \A i, j \in DOMAIN gate'[h].in : i < j => gate'[h].in[i].key < gate'[h].in[j].key
                      /\ \A i \in DOMAIN gate'[h].in :
                           /\ IssuedFor(issued', gate'[h].in[i].key, h)
                           /\ gate'[h].in[i].account = AccountOf(issued', gate'[h].in[i].key)
                           /\ admitted[gate'[h].in[i].key] = 0
                           /\ "leftover" \notin mishaps =>
                                gate'[h].in[i].ip = issued'[gate'[h].in[i].key].user
                      /\ \A k \in 1 .. n : IssuedFor(issued', k, h) =>
                           Before(k, gate'[h].in) \/ \E i \in DOMAIN gate'[h].in : gate'[h].in[i].key = k
    BY ZenonT(40) DEF LinkInv, n
  <2>1. /\ \A i, j \in DOMAIN gate[h].in : i < j => gate[h].in[i].key < gate[h].in[j].key
        /\ \A i \in DOMAIN gate[h].in :
             /\ gate[h].in[i].key \in 1 .. serial /\ IssuedFor(issued, gate[h].in[i].key, h)
             /\ gate[h].in[i].account = AccountOf(issued, gate[h].in[i].key)
             /\ admitted[gate[h].in[i].key] = 0
             /\ "leftover" \notin mishaps => gate[h].in[i].ip = issued[gate[h].in[i].key].user
        /\ \A k \in 1 .. serial : IssuedFor(issued, k, h) =>
             Before(k, gate[h].in) \/ \E i \in DOMAIN gate[h].in : gate[h].in[i].key = k
    BY <1>10 DEF KeyInv, LinkInv
  <2>4. ASSUME NEW i \in DOMAIN gate[h].in
        PROVE  /\ IssuedFor(issued', gate[h].in[i].key, h)
               /\ gate[h].in[i].account = AccountOf(issued', gate[h].in[i].key)
               /\ admitted[gate[h].in[i].key] = 0
               /\ "leftover" \notin mishaps => gate[h].in[i].ip = issued'[gate[h].in[i].key].user
    <3> DEFINE key == gate[h].in[i].key
    <3>1. /\ key \in 1 .. serial /\ IssuedFor(issued, key, h) /\ admitted[key] = 0
          /\ gate[h].in[i].account = AccountOf(issued, key)
          /\ "leftover" \notin mishaps => gate[h].in[i].ip = issued[key].user
      BY ONLY <2>1, i \in DOMAIN gate[h].in, Zenon
    <3>2. issued'[key] = issued[key] /\ AccountOf(issued', key) = AccountOf(issued, key)
      BY <1>2, <1>7, <3>1, Zenon
    <3>3. IssuedFor(issued', key, h)
      BY <1>6, <3>1, Zenon
    <3> QED
      BY <3>1, <3>2, <3>3, Zenon
  <2>2. CASE h # g
    <3>1. gate'[h].in = gate[h].in
      BY <1>3, <2>2, Zenon
    <3>2. \A k \in 1 .. n : IssuedFor(issued', k, h) => k \in 1 .. serial /\ IssuedFor(issued, k, h)
      BY <1>6, <1>10, <2>2
    <3>3. \A i, j \in DOMAIN gate'[h].in : i < j => gate'[h].in[i].key < gate'[h].in[j].key
      BY ONLY <2>1, <3>1, Zenon
    <3>4. \A k \in 1 .. n : IssuedFor(issued', k, h) =>
            Before(k, gate'[h].in) \/ \E i \in DOMAIN gate'[h].in : gate'[h].in[i].key = k
      BY ONLY <2>1, <3>1, <3>2, Zenon
    <3> QED
      BY ONLY <2>4, <3>1, <3>3, <3>4, Zenon
  <2>3. CASE h = g
    <3>1. \A i, j \in DOMAIN gate'[h].in : i < j => gate'[h].in[i].key < gate'[h].in[j].key
      BY <1>1, <1>4, <1>5, <2>1, <2>3 DEF n
    <3>2. ASSUME NEW i \in DOMAIN gate'[h].in
          PROVE  /\ IssuedFor(issued', gate'[h].in[i].key, h)
                 /\ gate'[h].in[i].account = AccountOf(issued', gate'[h].in[i].key)
                 /\ admitted[gate'[h].in[i].key] = 0
                 /\ "leftover" \notin mishaps =>
                      gate'[h].in[i].ip = issued'[gate'[h].in[i].key].user
      <4>1. CASE i \in 1 .. Len(gate[h].in)
        <5>1. i \in DOMAIN gate[h].in /\ gate'[h].in[i] = gate[h].in[i]
          BY <1>4, <1>5, <2>3, <4>1, Zenon
        <5> QED
          BY <2>4, <5>1, Zenon
      <4>2. CASE i = Len(gate[h].in) + 1
        <5>1. gate'[h].in[i] = reg
          BY <1>5, <2>3, <4>2
        <5> QED
          BY <1>2, <1>6, <1>7, <1>11, <2>3, <5>1 DEF n
      <4> QED
        BY <1>5, <2>3, <3>2, <4>1, <4>2
    <3>3. ASSUME NEW k \in 1 .. n, IssuedFor(issued', k, h)
          PROVE  Before(k, gate'[h].in) \/ \E i \in DOMAIN gate'[h].in : gate'[h].in[i].key = k
      <4>1. CASE k = n
        BY <1>5, <2>3, <4>1 DEF n
      <4>2. CASE k # n
        <5>1. k \in 1 .. serial /\ IssuedFor(issued, k, h)
          BY <1>6, <1>10, <3>3, <4>2
        <5>2. CASE Before(k, gate[h].in)
          BY <1>8, <5>1, <5>2
        <5>3. CASE \E i \in DOMAIN gate[h].in : gate[h].in[i].key = k
          BY <1>4, <1>5, <2>3, <5>3, SMTT(40)
        <5> QED
          BY <2>1, <5>1, <5>2, <5>3
      <4> QED
        BY <4>1, <4>2
    <3> QED
      BY <3>1, <3>2, <3>3
  <2> QED
    BY <2>2, <2>3
<1>13. RegisteredInv'
  <2> SUFFICES ASSUME NEW h \in Gates, NEW a \in Accounts, gate'[h].regacc[a] # NoAcc
               PROVE  /\ IssuedFor(issued', gate'[h].regacc[a].key, h) /\ AccountOf(issued', gate'[h].regacc[a].key) = a
                      /\ admitted[gate'[h].regacc[a].key] = 0 /\ Before(gate'[h].regacc[a].key, gate'[h].in)
                      /\ "leftover" \notin mishaps =>
                           gate'[h].regacc[a].ip = issued'[gate'[h].regacc[a].key].user
                      /\ \A k \in 1 .. n : IssuedFor(issued', k, h) /\ AccountOf(issued', k) = a /\ Before(k, gate'[h].in) =>
                           k <= gate'[h].regacc[a].key
    BY DEF RegisteredInv, n
  <2> DEFINE acc == gate[h].regacc[a]
  <2>1. gate'[h].regacc[a] = acc
    BY <1>3
  <2>2. /\ acc.key \in 1 .. serial /\ IssuedFor(issued, acc.key, h) /\ AccountOf(issued, acc.key) = a
        /\ admitted[acc.key] = 0 /\ Before(acc.key, gate[h].in)
        /\ "leftover" \notin mishaps => acc.ip = issued[acc.key].user
        /\ \A k \in 1 .. serial : IssuedFor(issued, k, h) /\ AccountOf(issued, k) = a /\ Before(k, gate[h].in) => k <= acc.key
    BY <1>10, <2>1 DEF KeyInv, RegisteredInv
  <2>3. ASSUME NEW k \in 1 .. n, IssuedFor(issued', k, h), AccountOf(issued', k) = a, Before(k, gate'[h].in)
        PROVE  k <= acc.key
    <3>1. k \in 1 .. serial
      BY <1>6, <1>9, <1>10, <2>3
    <3> QED
      BY <1>6, <1>7, <1>8, <1>10, <2>2, <2>3, <3>1, <1>9
  <2> QED
    BY <1>2, <1>6, <1>7, <1>8, <2>1, <2>2, <2>3
<1>14. ToldInv'
  <2>1. ASSUME NEW h \in Gates, NEW i \in DOMAIN gate'[h].out
        PROVE  IssuedFor(issued', gate'[h].out[i].key, h) /\ Before(gate'[h].out[i].key, gate'[h].in)
    BY <1>3, <1>6, <1>8, <1>10 DEF KeyInv, ToldInv
  <2>2. ASSUME NEW u \in Users, told[u] # NoTicket
        PROVE  /\ IssuedFor(issued', told[u].key, told[u].gate) /\ Before(told[u].key, gate'[told[u].gate].in)
               /\ "leftover" \notin mishaps => u \in knows /\ issued'[told[u].key].user = u
    <3>1. told[u].gate \in Gates /\ IssuedFor(issued, told[u].key, told[u].gate)
      BY <2>2 DEF KeyInv, ToldInv, TypeInv, UserType
    <3> QED
      BY <1>2, <1>6, <1>8, <1>10, <2>2, <3>1 DEF KeyInv, ToldInv
  <2> QED
    BY <2>1, <2>2 DEF ToldInv
<1>15. AdmittedInv'
  BY <1>1 DEF KeyInv, AdmittedInv, TypeInv, HistoryType, Keys
<1>16. NewestInv'
  <2> SUFFICES ASSUME mishaps = {}
               PROVE  /\ ~ refused
                      /\ \A h \in Gates, k \in 1 .. n :
                           IssuedFor(issued', k, h) /\ Before(k, gate'[h].in) =>
                               \/ admitted[k] > 0
                               \/ gate'[h].regacc[AccountOf(issued', k)].key = k
                               \/ \E m \in k + 1 .. n : IssuedFor(issued', m, h) /\ AccountOf(issued', m) = AccountOf(issued', k)
    BY DEF NewestInv, n
  <2>1. ~ refused
    BY DEF KeyInv, NewestInv
  <2>2. ASSUME NEW h \in Gates, NEW k \in 1 .. n, IssuedFor(issued', k, h), Before(k, gate'[h].in)
        PROVE  \/ admitted[k] > 0
               \/ gate'[h].regacc[AccountOf(issued', k)].key = k
               \/ \E m \in k + 1 .. n : IssuedFor(issued', m, h) /\ AccountOf(issued', m) = AccountOf(issued', k)
    <3>1. k \in 1 .. serial /\ IssuedFor(issued, k, h) /\ Before(k, gate[h].in)
      BY <1>6, <1>8, <1>9, <1>10, <2>2
    <3>2. \/ admitted[k] > 0
          \/ gate[h].regacc[AccountOf(issued, k)].key = k
          \/ \E m \in k + 1 .. serial : IssuedFor(issued, m, h) /\ AccountOf(issued, m) = AccountOf(issued, k)
      BY <3>1 DEF KeyInv, NewestInv
    <3>3. ASSUME NEW m \in k + 1 .. serial, IssuedFor(issued, m, h), AccountOf(issued, m) = AccountOf(issued, k)
          PROVE  m \in k + 1 .. n /\ IssuedFor(issued', m, h) /\ AccountOf(issued', m) = AccountOf(issued', k)
      BY <1>1, <1>6, <1>7, <1>10, <3>1, <3>3 DEF n
    <3> QED
      BY <1>3, <1>7, <3>1, <3>2, <3>3
  <2> QED
    BY <2>1, <2>2
<1> QED
  BY <1>12, <1>13, <1>14, <1>15, <1>16 DEF KeyInv

\* An answer that is not the client's, or is not the right password, changes no
\* key; one that is issues the next.
LEMMA HandleRedisKeeps ==
    ASSUME IInv, NEW ok \in BOOLEAN, NEW g \in Gates \cup {None}, NEW closed \in BOOLEAN,
           HandleRedis(ok, g, closed)
    PROVE  IInv'
<1> DEFINE q == Head(queries)
<1> DEFINE c == q.cid
<1> DEFINE n == serial + 1
<1>1. /\ queries # <<>> /\ queries' = Tail(queries)
      /\ UNCHANGED <<knows, told, guest, admitted, refused, abort, mishaps>>
  BY DEF HandleRedis, Becomes, State, _logout, Disconnected
<1>2. /\ c \in Conns /\ q.account \in Accounts
      /\ queries' \in Seq([cid : Conns, account : Accounts])
  <2>1. queries \in Seq([cid : Conns, account : Accounts])
    BY DEF IInv, TypeInv, NodeType
  <2>2. q \in [cid : Conns, account : Accounts]
    BY <1>1, <2>1, HeadTailProperties
  <2> QED
    BY <1>1, <2>1, <2>2, HeadTailProperties
<1>3. CASE ~ (IsHis(q) /\ ok /\ Verified(q))
  <2>1. UNCHANGED <<serial, gate, issued>>
    BY <1>3 DEF HandleRedis
  <2>2. \/ UNCHANGED <<client, player>>
        \/ /\ client[c] # NoClient
           /\ player' = [player EXCEPT ![c] = nobody]
           /\ client' = [client EXCEPT ![c] = IF closed THEN NoClient
                                             ELSE [@ EXCEPT !.status = "LOGOUTED"]]
    BY <1>3 DEF HandleRedis, Becomes, State, _logout, Disconnected, IsHis
  <2>3. client' \in [Conns -> Clients]
    <3>1. client[c] # NoClient =>
            client[c] \in [status : {"CONNECTED", "LOGINED", "LOGOUTED"}, user : Users]
      BY <1>2 DEF IInv, TypeInv, NodeType, Clients
    <3>2. client[c] # NoClient => [client[c] EXCEPT !.status = "LOGOUTED"] \in Clients
      BY <3>1 DEF Clients
    <3> HIDE DEF c
    <3> QED
      BY <1>2, <2>2, <3>2 DEF IInv, TypeInv, NodeType, Clients
  <2>4. player' \in [Conns -> Players]
    <3>1. nobody \in Players
      BY LoginAssumption DEF Players, nobody, Keys
    <3> QED
      BY <1>2, <2>2, <3>1 DEF IInv, TypeInv, NodeType
  <2>5. TypeInv'
    BY <1>1, <1>2, <2>1, <2>3, <2>4 DEF IInv, TypeInv, NodeType, GateType, UserType, HistoryType
  <2>6. PlayerHasClient'
    BY <1>1, <1>2, <2>2 DEF IInv, TypeInv, NodeType, PlayerHasClient, nobody
  <2>7. PlayerInv'
    <3>1. player \in [Conns -> Players] /\ PlayerInv
      BY Zenon DEF IInv, TypeInv, NodeType
    <3>2. serial' = serial /\ issued' = issued /\ knows' = knows
      BY <1>1, <2>1, Zenon
    <3>3. nobody.state = "FREE"
      BY DEF nobody
    <3>4. player' = player \/ player' = [player EXCEPT ![c] = nobody]
      BY <2>2, Zenon
    <3> HIDE DEF nobody, c
    <3>5. \A d \in Conns : player'[d].state = "FREE" \/ player'[d] = player[d]
      BY <3>1, <3>3, <3>4
    <3> QED
      BY <3>1, <3>2, <3>5, Zenon DEF PlayerInv
  <2> QED
    BY <1>1, <2>1, <2>5, <2>6, <2>7, KeysStay DEF IInv
<1>4. CASE IsHis(q) /\ ok /\ Verified(q)
  <2> DEFINE user == player[c].passwd
  <2> DEFINE reg == [cid |-> c, account |-> q.account, key |-> n, ip |-> client[c].user]
  <2>1. /\ serial < MaxKey /\ serial' = n
        /\ issued' = Append(issued, [user |-> user, gate |-> g])
        /\ gate' = IF g # None THEN [gate EXCEPT ![g].in = Append(@, reg)] ELSE gate
    BY <1>4 DEF HandleRedis
  <2>2. /\ client[c] # NoClient /\ player[c].state # "FREE" /\ player[c].account = q.account
        /\ user \in knows /\ UNCHANGED client
        /\ player' = [player EXCEPT ![c].state = "GATELOAD", ![c].key = n]
    BY <1>4 DEF HandleRedis, Becomes, State, IsHis, Verified
  <2>3. client[c].user \in Users /\ user \in Users /\ q.account = Account[user]
    BY <1>2, <2>2 DEF IInv, TypeInv, NodeType, Clients, PlayerInv
  <2>4. serial \in Nat /\ n \in 1 .. MaxKey /\ n \in Keys /\ Len(issued) = serial
    BY <2>1, LoginAssumption DEF IInv, TypeInv, HistoryType, Keys
  <2>5. reg \in Regs
    BY <1>2, <2>3, <2>4 DEF Regs
  <2>6. /\ \A d \in Conns \ {c} : player'[d] = player[d]
        /\ player'[c] = [player[c] EXCEPT !.state = "GATELOAD", !.key = n]
        /\ player[c] \in Players
    BY <1>2, <2>2 DEF IInv, TypeInv, NodeType
  <2>7. /\ player'[c].state = "GATELOAD" /\ player'[c].key = n
        /\ player'[c].passwd = user /\ player'[c].account = player[c].account
        /\ player'[c] \in Players
    BY <2>4, <2>6 DEF Players
  <2>8. /\ Len(issued') = n /\ \A k \in 1 .. serial : issued'[k] = issued[k]
        /\ issued'[n].user = user
    BY <2>1, <2>4 DEF IInv, TypeInv, HistoryType
  <2> HIDE DEF user, reg, n, c
  <2>9. TypeInv'
    <3>1. NodeType'
      <4>1. player' \in [Conns -> Players]
        BY <1>2, <2>2, <2>7 DEF IInv, TypeInv, NodeType
      <4> QED
        BY <1>1, <1>2, <2>2, <4>1 DEF IInv, TypeInv, NodeType
    <3>2. GateType'
      <4>1. CASE g = None
        BY <2>1, <4>1 DEF IInv, TypeInv, GateType
      <4>2. CASE g # None
        <5>1. g \in Gates /\ Append(gate[g].in, reg) \in Seq(Regs)
          BY <2>5, <4>2 DEF IInv, TypeInv, GateType
        <5> QED
          BY <2>1, <4>2, <5>1 DEF IInv, TypeInv, GateType
      <4> QED
        BY <4>1, <4>2
    <3>3. UserType'
      BY <1>1 DEF IInv, TypeInv, UserType
    <3>4. HistoryType'
      <4>1. issued' \in Seq([user : Users, gate : Gates \cup {None}])
        BY <2>1, <2>3 DEF IInv, TypeInv, HistoryType
      <4> QED
        BY <1>1, <2>1, <2>4, <2>8, <4>1 DEF IInv, TypeInv, HistoryType
    <3> QED
      BY <3>1, <3>2, <3>3, <3>4 DEF TypeInv
  <2>10. PlayerHasClient'
    BY <1>1, <1>2, <2>2, <2>6, <2>7, ZenonT(40) DEF IInv, PlayerHasClient, user
  <2>11. PlayerInv'
    <3> SUFFICES ASSUME NEW d \in Conns, player'[d].state # "FREE"
                 PROVE  /\ player'[d].passwd \in Users /\ player'[d].account = Account[player'[d].passwd]
                        /\ player'[d].state = "GATELOAD" =>
                             /\ player'[d].key \in 1 .. n /\ player'[d].passwd \in knows
                             /\ issued'[player'[d].key].user = player'[d].passwd
      BY <1>1, <2>1 DEF PlayerInv
    <3>1. CASE d = c
      BY <2>2, <2>3, <2>4, <2>7, <2>8, <3>1 DEF n
    <3>2. CASE d # c
      BY <2>4, <2>6, <2>8, <3>2 DEF IInv, PlayerInv, n
    <3> QED
      BY <3>1, <3>2
  <2>12. KeyInv'
    <3>1. reg.key = serial + 1 /\ reg.account = Account[user] /\ serial' = serial + 1
      BY <2>1, <2>3 DEF reg, n
    <3>2. "leftover" \notin mishaps => reg.ip = user
      <4>1. "leftover" \notin mishaps => client[c] = [status |-> "LOGINED", user |-> user]
        BY <1>2, <2>2 DEF IInv, PlayerHasClient, user
      <4> QED
        BY <4>1 DEF reg
    <3> QED
      BY <1>1, <2>1, <2>3, <2>5, <2>9, <3>1, <3>2, IssuedKeepsKeys DEF IInv
  <2> QED
    BY <2>9, <2>10, <2>11, <2>12 DEF IInv
<1> QED
  BY <1>3, <1>4

\* The player is told and forgotten.  What was in the answer came to its gate before.
LEMMA LoginResKeeps ==
    ASSUME IInv, NEW g \in Gates, NEW closed \in BOOLEAN, LoginRes(g, closed)
    PROVE  IInv'
<1> DEFINE res == Head(gate[g].out)
<1> DEFINE c == res.cid
<1>1. /\ gate[g].out # <<>> /\ gate' = [gate EXCEPT ![g].out = Tail(@)]
      /\ UNCHANGED <<knows, serial, queries, issued, guest, admitted, refused, abort, mishaps>>
  BY DEF LoginRes, Becomes, State, _logout, Disconnected
<1>2. /\ gate[g].in \in Seq(Regs) /\ gate[g].regacc \in [Accounts -> Accs]
      /\ gate[g].out \in Seq(Results)
  BY DEF IInv, TypeInv, GateType
<1>3. /\ res \in Results /\ Tail(gate[g].out) \in Seq(Results)
      /\ 1 \in DOMAIN gate[g].out /\ res = gate[g].out[1]
      /\ \A i \in DOMAIN Tail(gate[g].out) :
           i + 1 \in DOMAIN gate[g].out /\ Tail(gate[g].out)[i] = gate[g].out[i + 1]
  BY <1>1, <1>2
<1>4. /\ c \in Conns /\ IssuedFor(issued, res.key, g) /\ Before(res.key, gate[g].in)
  BY <1>3 DEF IInv, KeyInv, ToldInv, Results
<1>5. /\ \A h \in Gates : gate'[h].in = gate[h].in /\ gate'[h].regacc = gate[h].regacc
      /\ \A h \in Gates \ {g} : gate'[h].out = gate[h].out
      /\ gate'[g].out = Tail(gate[g].out)
  <2>1. GateType
    BY Zenon DEF IInv, TypeInv
  <2>2. gate' = [gate EXCEPT ![g].out = Tail(@)]
    BY <1>1, Zenon
  <2> QED
    BY <2>1, <2>2 DEF GateType
<1>6. \/ UNCHANGED <<client, player, told>>
      \/ /\ Answers(res)
         /\ player' = [player EXCEPT ![c] = nobody]
         /\ client' = [client EXCEPT ![c] = IF closed THEN NoClient
                                           ELSE [@ EXCEPT !.status = "LOGOUTED"]]
         /\ told' = [told EXCEPT ![client[c].user] = [gate |-> g, key |-> res.key]]
  BY DEF LoginRes, Becomes, State, _logout, Disconnected
<1>7. Answers(res) =>
        /\ client[c] \in [status : {"CONNECTED", "LOGINED", "LOGOUTED"}, user : Users]
        /\ player[c].state = "GATELOAD" /\ player[c].key = res.key
        /\ player[c].passwd \in knows /\ issued[res.key].user = player[c].passwd
        /\ "leftover" \notin mishaps => client[c].user = player[c].passwd
  <2> HIDE DEF res, c
  <2>1. PlayerInv /\ PlayerHasClient /\ client \in [Conns -> Clients]
    BY Zenon DEF IInv, TypeInv, NodeType
  <2>2. ASSUME Answers(res)
        PROVE  client[c] # NoClient /\ player[c].state = "GATELOAD" /\ player[c].key = res.key
    BY <2>2, Zenon DEF Answers, c
  <2>3. client[c] \in Clients
    BY <1>4, <2>1, Zenon
  <2>4. client[c] # NoClient =>
          client[c] \in [status : {"CONNECTED", "LOGINED", "LOGOUTED"}, user : Users]
    BY ONLY <2>3, Zenon DEF Clients
  <2>5. player[c].state = "GATELOAD" =>
          player[c].passwd \in knows /\ issued[player[c].key].user = player[c].passwd
    BY <1>4, <2>1, Zenon DEF PlayerInv
  <2>6. player[c].state = "GATELOAD" /\ "leftover" \notin mishaps => client[c].user = player[c].passwd
    <3>1. player[c].state = "GATELOAD" /\ "leftover" \notin mishaps =>
            client[c] = [status |-> "LOGINED", user |-> player[c].passwd]
      BY <1>4, <2>1, Zenon DEF PlayerHasClient
    <3> QED
      BY ONLY <3>1
  <2> QED
    BY <2>2, <2>4, <2>5, <2>6, Zenon
<1> HIDE DEF res, c
<1>8. TypeInv'
  <2>1. NodeType'
    <3>1. client' \in [Conns -> Clients]
      <4>1. Answers(res) => [client[c] EXCEPT !.status = "LOGOUTED"] \in Clients
        BY <1>7 DEF Clients
      <4> QED
        BY <1>4, <1>6, <4>1 DEF IInv, TypeInv, NodeType, Clients
    <3>2. nobody \in Players
      BY LoginAssumption DEF Players, nobody, Keys
    <3>3. player' \in [Conns -> Players]
      BY <1>4, <1>6, <3>2 DEF IInv, TypeInv, NodeType
    <3> QED
      BY <1>1, <3>1, <3>3 DEF IInv, TypeInv, NodeType
  <2>2. GateType'
    BY <1>1, <1>3 DEF IInv, TypeInv, GateType
  <2>3. UserType'
    <3>1. res.key \in 1 .. MaxKey
      BY <1>3 DEF Results
    <3> QED
      BY <1>1, <1>6, <1>7, <3>1 DEF IInv, TypeInv, UserType
  <2>4. HistoryType'
    BY <1>1 DEF IInv, TypeInv, HistoryType
  <2> QED
    BY <2>1, <2>2, <2>3, <2>4 DEF TypeInv
<1>9. PlayerHasClient'
  BY <1>1, <1>4, <1>6 DEF IInv, TypeInv, NodeType, PlayerHasClient, nobody
<1>10. PlayerInv'
  BY <1>1, <1>4, <1>6 DEF IInv, TypeInv, NodeType, PlayerInv, nobody
<1>11. LinkInv' /\ RegisteredInv' /\ AdmittedInv' /\ NewestInv'
  <2>1. LinkInv /\ RegisteredInv /\ AdmittedInv /\ NewestInv
    BY Zenon DEF IInv, KeyInv
  <2>2. /\ \A h \in Gates : gate'[h].in = gate[h].in /\ gate'[h].regacc = gate[h].regacc
        /\ UNCHANGED <<serial, issued, admitted, refused, mishaps>>
    BY <1>1, <1>5, Zenon
  <2>3. LinkInv'
    BY ONLY <2>1, <2>2 DEF LinkInv
  <2>4. RegisteredInv'
    BY ONLY <2>1, <2>2, ZenonT(40) DEF RegisteredInv
  <2>5. AdmittedInv'
    BY ONLY <2>1, <2>2, Zenon DEF AdmittedInv
  <2>6. NewestInv'
    BY ONLY <2>1, <2>2 DEF NewestInv
  <2> QED
    BY <2>3, <2>4, <2>5, <2>6, Zenon
<1>12. ToldInv'
  <2>1. ASSUME NEW h \in Gates, NEW i \in DOMAIN gate'[h].out
        PROVE  /\ IssuedFor(issued', gate'[h].out[i].key, h)
               /\ Before(gate'[h].out[i].key, gate'[h].in)
    BY <1>1, <1>3, <1>5, <2>1 DEF IInv, KeyInv, ToldInv
  <2>2. ASSUME NEW u \in Users, told'[u] # NoTicket
        PROVE  /\ IssuedFor(issued', told'[u].key, told'[u].gate)
               /\ Before(told'[u].key, gate'[told'[u].gate].in)
               /\ "leftover" \notin mishaps' => u \in knows' /\ issued'[told'[u].key].user = u
    <3>1. CASE told'[u] = told[u]
      <4>1. told[u].gate \in Gates
        BY <2>2, <3>1 DEF IInv, TypeInv, UserType
      <4> QED
        BY <1>1, <1>5, <2>2, <3>1, <4>1 DEF IInv, KeyInv, ToldInv
    <3>2. CASE told'[u] # told[u]
      <4>1. Answers(res) /\ u = client[c].user /\ told'[u].gate = g /\ told'[u].key = res.key
        BY <1>6, <3>2 DEF IInv, TypeInv, UserType
      <4> QED
        BY <1>1, <1>4, <1>5, <1>7, <4>1
    <3> QED
      BY <3>1, <3>2
  <2> QED
    BY <2>1, <2>2 DEF ToldInv
<1> QED
  BY <1>8, <1>9, <1>10, <1>11, <1>12 DEF IInv, KeyInv

-----------------------------------------------------------------------------
\* The gates' actions.

\* The first registration on a link: the others are later, and what is before the
\* rest of the link was before it or is it.
LEMMA FirstOfLink ==
    ASSUME NEW link \in Seq(Regs), link # <<>>,
           \A i, j \in DOMAIN link : i < j => link[i].key < link[j].key
    PROVE  /\ Head(link) \in Regs /\ 1 \in DOMAIN link /\ Head(link) = link[1]
           /\ Tail(link) \in Seq(Regs)
           /\ \A i, j \in DOMAIN Tail(link) : i < j => Tail(link)[i].key < Tail(link)[j].key
           /\ \A i \in DOMAIN Tail(link) : \E j \in DOMAIN link : Tail(link)[i] = link[j]
           /\ \A j \in DOMAIN link : link[j] = Head(link)
                                      \/ \E i \in DOMAIN Tail(link) : Tail(link)[i] = link[j]
           /\ Before(Head(link).key, Tail(link))
           /\ \A k : Before(k, link) => Before(k, Tail(link)) /\ k < Head(link).key
<1>1. /\ DOMAIN link = 1 .. Len(link) /\ Len(link) \in Nat /\ Len(link) >= 1
      /\ Head(link) \in Regs /\ 1 \in DOMAIN link /\ Head(link) = link[1]
      /\ Tail(link) \in Seq(Regs) /\ DOMAIN Tail(link) = 1 .. Len(link) - 1
      /\ \A i \in 1 .. Len(link) - 1 : Tail(link)[i] = link[i + 1]
  OBVIOUS
<1>2. \A i \in DOMAIN Tail(link) :
        i + 1 \in DOMAIN link /\ 1 < i + 1 /\ Tail(link)[i] = link[i + 1]
  BY <1>1
<1>3. \A i, j \in DOMAIN Tail(link) : i < j => Tail(link)[i].key < Tail(link)[j].key
  BY <1>1, <1>2
<1>4. ASSUME NEW j \in DOMAIN link, j # 1
      PROVE  j - 1 \in DOMAIN Tail(link) /\ Tail(link)[j - 1] = link[j]
  BY <1>1, <1>4
<1>5. Before(Head(link).key, Tail(link))
  BY <1>1, <1>2 DEF Before
<1>6. \A k : Before(k, link) => Before(k, Tail(link)) /\ k < Head(link).key
  BY <1>1, <1>2 DEF Before
<1> QED
  BY <1>1, <1>2, <1>3, <1>4, <1>5, <1>6

LEMMA AccountRegKeeps ==
    ASSUME IInv, NEW g \in Gates, AccountReg(g)
    PROVE  IInv'
<1> DEFINE link == gate[g].in
<1> DEFINE reg == Head(link)
<1> DEFINE res == [cid |-> reg.cid, account |-> reg.account, key |-> reg.key]
<1> DEFINE acc == [key |-> reg.key, ip |-> reg.ip]
<1> DEFINE table == [gate[g].regacc EXCEPT ![reg.account] = acc]
<1>1. /\ link # <<>>
      /\ gate' = [gate EXCEPT ![g] = [in |-> Tail(link), out |-> Append(gate[g].out, res),
                                      regacc |-> table]]
      /\ UNCHANGED <<knows, client, player, serial, queries, told, guest, issued, admitted,
                     refused, abort, mishaps>>
  BY DEF AccountReg, LastCounts
<1>2. /\ link \in Seq(Regs) /\ gate[g].out \in Seq(Results)
      /\ gate[g].regacc \in [Accounts -> Accs]
  BY DEF IInv, TypeInv, GateType
<1>3. \A i, j \in DOMAIN link : i < j => link[i].key < link[j].key
  BY DEF IInv, KeyInv, LinkInv
<1>4. /\ reg \in Regs /\ 1 \in DOMAIN link /\ reg = link[1]
      /\ Tail(link) \in Seq(Regs)
      /\ \A i, j \in DOMAIN Tail(link) : i < j => Tail(link)[i].key < Tail(link)[j].key
      /\ \A i \in DOMAIN Tail(link) : \E j \in DOMAIN link : Tail(link)[i] = link[j]
      /\ \A j \in DOMAIN link : link[j] = reg \/ \E i \in DOMAIN Tail(link) : Tail(link)[i] = link[j]
      /\ Before(reg.key, Tail(link))
      /\ \A k : Before(k, link) => Before(k, Tail(link)) /\ k < reg.key
  BY <1>1, <1>2, <1>3, FirstOfLink
<1>5. /\ reg.account \in Accounts /\ reg.key \in 1 .. MaxKey /\ reg.ip \in Users /\ reg.cid \in Conns
  BY <1>4 DEF Regs
<1>6. /\ IssuedFor(issued, reg.key, g) /\ reg.account = AccountOf(issued, reg.key)
      /\ admitted[reg.key] = 0
      /\ "leftover" \notin mishaps => reg.ip = issued[reg.key].user
  BY <1>4 DEF IInv, KeyInv, LinkInv
<1>7. /\ acc.key = reg.key /\ acc.ip = reg.ip /\ res.key = reg.key
      /\ res \in Results /\ acc \in Accs
  BY <1>5 DEF Results, Accs
<1>8. table \in [Accounts -> Accs] /\ table[reg.account] = acc
      /\ \A a \in Accounts \ {reg.account} : table[a] = gate[g].regacc[a]
  BY <1>2, <1>5, <1>7
<1>9. Len(issued) = serial
  BY DEF IInv, TypeInv, HistoryType
<1> HIDE DEF link, reg, res, acc, table
<1>10. /\ \A h \in Gates \ {g} : gate'[h] = gate[h]
       /\ gate'[g].in = Tail(link) /\ gate'[g].out = Append(gate[g].out, res)
       /\ gate'[g].regacc = table
  BY <1>1 DEF IInv, TypeInv, GateType
<1>11. TypeInv'
  <2>1. GateType'
    <3>1. Append(gate[g].out, res) \in Seq(Results)
      BY <1>2, <1>7
    <3> QED
      BY <1>1, <1>4, <1>8, <3>1 DEF IInv, TypeInv, GateType
  <2> QED
    BY <1>1, <2>1 DEF IInv, TypeInv, NodeType, UserType, HistoryType
<1>12. PlayerHasClient' /\ PlayerInv'
  BY <1>1 DEF IInv, PlayerHasClient, PlayerInv
\* What is before the rest of the link.
<1>13. ASSUME NEW k, IssuedFor(issued, k, g), Before(k, Tail(link))
       PROVE  Before(k, link) \/ k = reg.key
  <2>1. k \in 1 .. serial
    BY <1>9, <1>13 DEF IssuedFor
  <2>2. ASSUME NEW j \in DOMAIN link, link[j].key = k, k # reg.key
        PROVE  FALSE
    <3>1. PICK i \in DOMAIN Tail(link) : Tail(link)[i] = link[j]
      BY <1>4, <2>2
    <3> QED
      BY <1>13, <2>1, <2>2, <3>1 DEF Before
  <2> QED
    BY <1>13, <2>1, <2>2 DEF IInv, KeyInv, LinkInv, link
<1>14. ASSUME NEW h \in Gates, NEW k, Before(k, gate[h].in)
       PROVE  Before(k, gate'[h].in)
  BY <1>4, <1>10, <1>14 DEF link
<1>15. LinkInv'
  <2> SUFFICES ASSUME NEW h \in Gates
               PROVE  /\ \A i, j \in DOMAIN gate'[h].in : i < j => gate'[h].in[i].key < gate'[h].in[j].key
                      /\ \A i \in DOMAIN gate'[h].in :
                           /\ IssuedFor(issued, gate'[h].in[i].key, h)
                           /\ gate'[h].in[i].account = AccountOf(issued, gate'[h].in[i].key)
                           /\ admitted[gate'[h].in[i].key] = 0
                           /\ "leftover" \notin mishaps =>
                                gate'[h].in[i].ip = issued[gate'[h].in[i].key].user
                      /\ \A k \in 1 .. serial : IssuedFor(issued, k, h) =>
                           Before(k, gate'[h].in) \/ \E i \in DOMAIN gate'[h].in : gate'[h].in[i].key = k
    BY <1>1 DEF LinkInv
  <2>1. CASE h # g
    BY <1>10, <2>1 DEF IInv, KeyInv, LinkInv
  <2>2. CASE h = g
    <3>1. ASSUME NEW i \in DOMAIN gate'[h].in
          PROVE  \E j \in DOMAIN gate[h].in : gate'[h].in[i] = gate[h].in[j]
      BY <1>4, <1>10, <2>2, ZenonT(40) DEF link
    <3>2. ASSUME NEW k \in 1 .. serial, IssuedFor(issued, k, h)
          PROVE  Before(k, gate'[h].in) \/ \E i \in DOMAIN gate'[h].in : gate'[h].in[i].key = k
      <4>1. CASE Before(k, gate[h].in)
        BY <1>14, <4>1
      <4>2. CASE \E j \in DOMAIN gate[h].in : gate[h].in[j].key = k
        <5>1. PICK j \in DOMAIN link : link[j].key = k
          BY <2>2, <4>2 DEF link
        <5>2. CASE link[j] = reg
          BY <1>4, <1>10, <2>2, <5>1, <5>2
        <5>3. CASE \E i \in DOMAIN Tail(link) : Tail(link)[i] = link[j]
          BY <1>10, <2>2, <5>1, <5>3
        <5> QED
          BY <1>4, <5>2, <5>3
      <4> QED
        BY <3>2, <4>1, <4>2 DEF IInv, KeyInv, LinkInv
    <3>3. \A i, j \in DOMAIN gate'[h].in : i < j => gate'[h].in[i].key < gate'[h].in[j].key
      BY <1>4, <1>10, <2>2
    <3> QED
      BY <3>1, <3>2, <3>3 DEF IInv, KeyInv, LinkInv
  <2> QED
    BY <2>1, <2>2
<1>16. RegisteredInv'
  <2> SUFFICES ASSUME NEW h \in Gates, NEW a \in Accounts, gate'[h].regacc[a] # NoAcc
               PROVE  LET new == gate'[h].regacc[a] IN
                      /\ IssuedFor(issued, new.key, h) /\ AccountOf(issued, new.key) = a
                      /\ admitted[new.key] = 0 /\ Before(new.key, gate'[h].in)
                      /\ "leftover" \notin mishaps => new.ip = issued[new.key].user
                      /\ \A k \in 1 .. serial :
                           IssuedFor(issued, k, h) /\ AccountOf(issued, k) = a
                             /\ Before(k, gate'[h].in) => k <= new.key
    BY <1>1 DEF RegisteredInv
  <2>1. CASE h = g /\ a = reg.account
    <3>1. gate'[h].regacc[a] = acc
      BY <1>8, <1>10, <2>1
    <3>2. ASSUME NEW k \in 1 .. serial, IssuedFor(issued, k, h), Before(k, gate'[h].in)
          PROVE  k <= reg.key
      <4>1. Before(k, Tail(link)) /\ IssuedFor(issued, k, g)
        BY <1>10, <2>1, <3>2
      <4>2. CASE Before(k, link)
        BY <1>4, <1>5, <4>2
      <4>3. CASE k = reg.key
        BY <4>3
      <4> QED
        BY <1>13, <4>1, <4>2, <4>3
    <3> QED
      BY <1>4, <1>6, <1>7, <1>10, <2>1, <3>1, <3>2
  <2>2. CASE ~ (h = g /\ a = reg.account)
    <3> DEFINE old == gate[h].regacc[a]
    <3>1. gate'[h].regacc[a] = old
      BY <1>8, <1>10, <2>2
    <3>2. /\ IssuedFor(issued, old.key, h) /\ AccountOf(issued, old.key) = a
          /\ admitted[old.key] = 0 /\ Before(old.key, gate[h].in)
          /\ "leftover" \notin mishaps => old.ip = issued[old.key].user
          /\ \A k \in 1 .. serial : IssuedFor(issued, k, h) /\ AccountOf(issued, k) = a
                                      /\ Before(k, gate[h].in) => k <= old.key
      BY <3>1 DEF IInv, KeyInv, RegisteredInv
    <3>3. ASSUME NEW k \in 1 .. serial, IssuedFor(issued, k, h), AccountOf(issued, k) = a,
                 Before(k, gate'[h].in)
          PROVE  Before(k, gate[h].in)
      BY <1>6, <1>10, <1>13, <2>2, <3>3 DEF link
    <3> QED
      BY <1>14, <3>1, <3>2, <3>3
  <2> QED
    BY <2>1, <2>2
<1>17. ToldInv'
  <2>1. ASSUME NEW h \in Gates, NEW i \in DOMAIN gate'[h].out
        PROVE  /\ IssuedFor(issued', gate'[h].out[i].key, h)
               /\ Before(gate'[h].out[i].key, gate'[h].in)
    <3>1. CASE h = g
      <4>1. gate'[h].out[i] = res \/ (i \in DOMAIN gate[h].out /\ gate'[h].out[i] = gate[h].out[i])
        BY <1>2, <1>7, <1>10, <2>1, <3>1, SMTT(40)
      <4>2. CASE gate'[h].out[i] = res
        BY <1>1, <1>4, <1>6, <1>7, <1>10, <3>1, <4>2
      <4>3. CASE i \in DOMAIN gate[h].out /\ gate'[h].out[i] = gate[h].out[i]
        BY <1>1, <1>14, <4>3 DEF IInv, KeyInv, ToldInv
      <4> QED
        BY <4>1, <4>2, <4>3
    <3>2. CASE h # g
      BY <1>1, <1>10, <2>1, <3>2 DEF IInv, KeyInv, ToldInv
    <3> QED
      BY <3>1, <3>2
  <2>2. ASSUME NEW u \in Users, told[u] # NoTicket
        PROVE  Before(told[u].key, gate'[told[u].gate].in)
    <3>1. told[u].gate \in Gates
      BY <2>2 DEF IInv, TypeInv, UserType
    <3> QED
      BY <1>14, <2>2, <3>1 DEF IInv, KeyInv, ToldInv
  <2> QED
    BY <1>1, <2>1, <2>2 DEF IInv, KeyInv, ToldInv
<1>18. AdmittedInv'
  BY <1>1 DEF IInv, KeyInv, AdmittedInv
<1>19. NewestInv'
  <2> SUFFICES ASSUME mishaps = {}, NEW h \in Gates, NEW k \in 1 .. serial,
                      IssuedFor(issued, k, h), Before(k, gate'[h].in)
               PROVE  \/ admitted[k] > 0
                      \/ gate'[h].regacc[AccountOf(issued, k)].key = k
                      \/ \E n \in k + 1 .. serial :
                           IssuedFor(issued, n, h) /\ AccountOf(issued, n) = AccountOf(issued, k)
    BY <1>1 DEF IInv, KeyInv, NewestInv
  <2>1. Before(k, gate[h].in) =>
          \/ admitted[k] > 0
          \/ gate[h].regacc[AccountOf(issued, k)].key = k
          \/ \E n \in k + 1 .. serial :
               IssuedFor(issued, n, h) /\ AccountOf(issued, n) = AccountOf(issued, k)
    BY DEF IInv, KeyInv, NewestInv
  <2>2. CASE h # g
    BY <1>10, <2>1, <2>2
  <2>3. CASE h = g /\ k = reg.key
    BY <1>6, <1>7, <1>8, <1>10, <2>3
  <2>4. CASE h = g /\ k # reg.key
    <3>1. Before(k, gate[h].in)
      <4>1. IssuedFor(issued, k, g) /\ Before(k, Tail(link))
        BY <1>10, <2>4
      <4> QED
        BY <1>13, <2>4, <4>1 DEF link
    <3>2. CASE AccountOf(issued, k) = reg.account
      <4>1. k < reg.key /\ reg.key \in 1 .. serial
        BY <1>4, <1>6, <1>9, <2>4, <3>1 DEF link, IssuedFor
      <4>2. reg.key \in k + 1 .. serial
        BY <4>1
      <4> QED
        BY <1>6, <2>4, <3>2, <4>2
    <3>3. CASE AccountOf(issued, k) # reg.account
      <4>1. AccountOf(issued, k) \in Accounts
        <5>1. issued \in Seq([user : Users, gate : Gates \cup {None}]) /\ k \in 1 .. Len(issued)
          BY <1>9 DEF IInv, TypeInv, HistoryType
        <5>2. issued[k] \in [user : Users, gate : Gates \cup {None}]
          BY <5>1, ElementOfSeq
        <5> QED
          BY <5>2 DEF AccountOf, Accounts
      <4> QED
        BY <1>8, <1>10, <2>1, <2>4, <3>1, <3>3, <4>1
    <3> QED
      BY <3>2, <3>3
  <2> QED
    BY <2>2, <2>3, <2>4
<1> QED
  BY <1>11, <1>12, <1>15, <1>16, <1>17, <1>18, <1>19 DEF IInv, KeyInv

\* A registration expires: NewestInv makes no claim any more.
LEMMA ExpireKeeps ==
    ASSUME IInv, NEW g \in Gates, NEW a \in Accounts, Expire(g, a)
    PROVE  IInv'
<1>1. /\ gate' = [gate EXCEPT ![g].regacc[a] = NoAcc]
      /\ mishaps' = mishaps \cup {"expired"}
      /\ UNCHANGED <<knows, client, player, serial, queries, told, guest, issued, admitted,
                     refused, abort>>
  BY DEF Expire
<1>2. /\ \A h \in Gates : gate'[h].in = gate[h].in /\ gate'[h].out = gate[h].out
      /\ \A h \in Gates, b \in Accounts :
           gate'[h].regacc[b] = IF h = g /\ b = a THEN NoAcc ELSE gate[h].regacc[b]
  BY <1>1 DEF IInv, TypeInv, GateType
<1>3. TypeInv'
  <2>1. GateType'
    BY <1>1 DEF IInv, TypeInv, GateType, Accs
  <2> QED
    BY <1>1, <2>1 DEF IInv, TypeInv, NodeType, UserType, HistoryType
<1>4. PlayerHasClient' /\ PlayerInv'
  BY <1>1 DEF IInv, PlayerHasClient, PlayerInv
<1>5. LinkInv'
  BY <1>1, <1>2 DEF IInv, KeyInv, LinkInv
<1>6. RegisteredInv'
  BY <1>1, <1>2 DEF IInv, KeyInv, RegisteredInv
<1>7. ToldInv'
  <2>1. \A u \in Users : told[u] # NoTicket => told[u].gate \in Gates
    BY DEF IInv, TypeInv, UserType
  <2> QED
    BY <1>1, <1>2, <2>1 DEF IInv, KeyInv, ToldInv
<1>8. AdmittedInv' /\ NewestInv'
  BY <1>1 DEF IInv, KeyInv, AdmittedInv, NewestInv
<1> QED
  BY <1>3, <1>4, <1>5, <1>6, <1>7, <1>8 DEF IInv, KeyInv

LEMMA GateAcceptKeeps ==
    ASSUME IInv, NEW u \in Users, GateAccept(u)
    PROVE  IInv'
<1>1. /\ told[u] # NoTicket
      /\ guest' = [guest EXCEPT ![u] = [gate |-> told[u].gate, status |-> "CONNECTED"]]
      /\ UNCHANGED <<knows, client, player, serial, queries, gate, told, issued, admitted,
                     refused, abort, mishaps>>
  BY DEF GateAccept, GateUnchanged
<1>2. UserType'
  BY <1>1 DEF IInv, TypeInv, UserType
<1>3. TypeInv'
  BY <1>1, <1>2 DEF IInv, TypeInv, NodeType, GateType, HistoryType
<1> QED
  BY <1>1, <1>3, KeysStay DEF IInv, PlayerHasClient, PlayerInv

LEMMA GateClosedKeeps ==
    ASSUME IInv, NEW u \in Users, GateClosed(u)
    PROVE  IInv'
<1>1. /\ guest' = [guest EXCEPT ![u] = NoGuest]
      /\ UNCHANGED <<knows, client, player, serial, queries, gate, told, issued, admitted,
                     refused, abort, mishaps>>
  BY DEF GateClosed, GateUnchanged
<1>2. UserType'
  BY <1>1 DEF IInv, TypeInv, UserType, NoGuest
<1>3. TypeInv'
  <2>1. NodeType'
    BY <1>1 DEF IInv, TypeInv, NodeType
  <2>2. GateType'
    BY <1>1 DEF IInv, TypeInv, GateType
  <2>3. HistoryType'
    <3>1. HistoryType
      BY Zenon DEF IInv, TypeInv
    <3>2. /\ serial' = serial /\ issued' = issued /\ admitted' = admitted /\ refused' = refused
          /\ abort' = abort /\ mishaps' = mishaps
      BY <1>1
    <3> QED
      BY <3>1, <3>2, Zenon DEF HistoryType
  <2> QED
    BY <1>2, <2>1, <2>2, <2>3 DEF TypeInv
<1> QED
  BY <1>1, <1>3, KeysStay DEF IInv, PlayerHasClient, PlayerInv

\* A user shows its key.  Whether it passes or not, the account's registration is
\* gone; but nothing is lost by a key that is neither the registered one nor older.
LEMMA GateLoginKeeps ==
    ASSUME IInv, NEW u \in Users, GateLogin(u)
    PROVE  IInv'
<1> DEFINE g == guest[u].gate
<1> DEFINE key == told[u].key
<1> DEFINE a == Account[u]
<1> DEFINE acc == gate[g].regacc[a]
<1> DEFINE passes == acc.key = key /\ acc.ip = u
<1> DEFINE newer == \E k \in key + 1 .. serial : issued[k].gate = g /\ Account[issued[k].user] = a
<1>1. /\ guest[u].status = "CONNECTED" /\ g = told[u].gate
      /\ gate' = [gate EXCEPT ![g].regacc = [@ EXCEPT ![a] = NoAcc]]
      /\ guest' = [guest EXCEPT ![u] = IF passes THEN [@ EXCEPT !.status = "LOGINED"]
                                       ELSE IF acc = NoAcc THEN NoGuest ELSE @]
      /\ admitted' = IF passes THEN [admitted EXCEPT ![key] = @ + 1] ELSE admitted
      /\ refused' = (refused \/ (~ passes /\ admitted[key] = 0 /\ ~ newer))
      /\ mishaps' = IF acc # NoAcc /\ acc.key > key THEN mishaps \cup {"older"} ELSE mishaps
      /\ UNCHANGED <<knows, client, player, serial, queries, told, issued, abort>>
  BY DEF GateLogin, GateUnchanged, RemovesAcc
<1>2. /\ g \in Gates /\ a \in Accounts /\ told[u] # NoTicket /\ key \in 1 .. MaxKey
      /\ guest[u] \in [gate : Gates \cup {None}, status : {"FREE", "CONNECTED", "LOGINED"}]
  <2>1. UserType
    BY Zenon DEF IInv, TypeInv
  <2>2. guest[u].status = "CONNECTED" /\ g = told[u].gate
    BY <1>1, Zenon
  <2>3. g \in Gates
    BY <2>1, <2>2, Zenon DEF UserType
  <2>4. guest[u] \in [gate : Gates \cup {None}, status : {"FREE", "CONNECTED", "LOGINED"}]
    BY <2>1, Zenon DEF UserType
  <2>5. told[u] \in {NoTicket} \cup [gate : Gates, key : 1 .. MaxKey]
    BY <2>1, Zenon DEF UserType
  <2>6. a \in Accounts
    BY Zenon DEF Accounts
  <2>7. told[u] # NoTicket
    <3>1. told[u].gate \in Gates
      BY <2>2, <2>3, Zenon
    <3>2. None \notin Gates
      BY LoginAssumption, Zenon
    <3>3. NoTicket.gate = None
      BY DEF NoTicket
    <3> QED
      BY <3>1, <3>2, <3>3, Zenon
  <2>8. told[u] \in [gate : Gates, key : 1 .. MaxKey]
    BY <2>5, <2>7, Zenon
  <2>9. key \in 1 .. MaxKey
    BY <2>8, ZenonT(40)
  <2> QED
    BY <2>3, <2>4, <2>6, <2>7, <2>9, Zenon
<1>3. /\ IssuedFor(issued, key, g) /\ Before(key, gate[g].in)
      /\ "leftover" \notin mishaps => issued[key].user = u
  BY <1>1, <1>2 DEF IInv, KeyInv, ToldInv
<1>4. /\ acc \in Accs /\ Len(issued) = serial /\ serial \in Nat /\ key \in 1 .. serial
  <2>1. GateType /\ HistoryType
    BY Zenon DEF IInv, TypeInv
  <2>2. serial \in 0 .. MaxKey /\ Len(issued) = serial
    BY <2>1, Zenon DEF HistoryType, Keys
  <2>3. serial \in Nat
    BY <2>2
  <2>4. acc \in Accs
    <3>1. g \in Gates /\ a \in Accounts
      BY <1>2, Zenon
    <3> HIDE DEF g, a
    <3> QED
      BY <2>1, <3>1, Zenon DEF GateType
  <2>5. key \in 1 .. serial
    <3>1. IssuedFor(issued, key, g)
      BY <1>3, Zenon
    <3> QED
      BY <2>2, <3>1, Zenon DEF IssuedFor
  <2> QED
    BY <2>2, <2>3, <2>4, <2>5, Zenon
<1>5. acc # NoAcc =>
        /\ acc.key \in 1 .. serial /\ AccountOf(issued, acc.key) = a /\ admitted[acc.key] = 0
        /\ Before(acc.key, gate[g].in)
        /\ "leftover" \notin mishaps => acc.ip = issued[acc.key].user
        /\ \A k \in 1 .. serial : IssuedFor(issued, k, g) /\ AccountOf(issued, k) = a
                                    /\ Before(k, gate[g].in) => k <= acc.key
  <2>1. RegisteredInv
    BY Zenon DEF IInv, KeyInv
  <2>2. g \in Gates /\ a \in Accounts /\ Len(issued) = serial
    BY <1>2, <1>4, Zenon
  <2> HIDE DEF g, a
  <2>3. acc # NoAcc =>
          /\ IssuedFor(issued, acc.key, g) /\ AccountOf(issued, acc.key) = a /\ admitted[acc.key] = 0
          /\ Before(acc.key, gate[g].in)
          /\ "leftover" \notin mishaps => acc.ip = issued[acc.key].user
          /\ \A k \in 1 .. serial : IssuedFor(issued, k, g) /\ AccountOf(issued, k) = a
                                      /\ Before(k, gate[g].in) => k <= acc.key
    BY <2>1, <2>2, Zenon DEF RegisteredInv
  <2> HIDE DEF acc
  <2>4. acc # NoAcc => acc.key \in 1 .. serial
    BY <2>2, <2>3, Zenon DEF IssuedFor
  <2> QED
    BY <2>3, <2>4, Zenon
<1>6. passes => acc # NoAcc
  <2>1. key # 0
    <3>1. key \in 1 .. serial /\ serial \in Nat
      BY <1>4, Zenon
    <3> HIDE DEF key
    <3> QED
      BY <3>1
  <2>2. NoAcc.key = 0
    BY DEF NoAcc
  <2>3. passes => acc.key = key
    BY Zenon
  <2> QED
    BY <2>1, <2>2, <2>3, Zenon
<1>7. /\ \A h \in Gates : gate'[h].in = gate[h].in /\ gate'[h].out = gate[h].out
      /\ \A h \in Gates, b \in Accounts :
           gate'[h].regacc[b] = IF h = g /\ b = a THEN NoAcc ELSE gate[h].regacc[b]
  BY <1>1, <1>2 DEF IInv, TypeInv, GateType
<1>8. /\ admitted \in [1 .. MaxKey -> Nat] /\ admitted' \in [1 .. MaxKey -> Nat]
      /\ \A k \in 1 .. MaxKey : k # key \/ ~ passes => admitted'[k] = admitted[k]
      /\ passes => admitted[key] = 0 /\ admitted'[key] = 1
  <2>1. admitted \in [1 .. MaxKey -> Nat]
    BY DEF IInv, TypeInv, HistoryType
  <2>2. passes => admitted[key] = 0
    BY <1>5, <1>6
  <2> HIDE DEF g, key, a, acc, passes, newer
  <2>3. CASE passes
    <3>1. admitted' = [admitted EXCEPT ![key] = @ + 1]
      BY <1>1, <2>3
    <3> QED
      BY <1>2, <2>1, <2>2, <2>3, <3>1
  <2>4. CASE ~ passes
    BY <1>1, <2>1, <2>4
  <2> QED
    BY <2>3, <2>4
<1> HIDE DEF g, key, a, acc, passes, newer
<1>9. 1 .. serial \subseteq 1 .. MaxKey /\ mishaps \subseteq mishaps'
  <2>1. serial \in 0 .. MaxKey
    BY DEF IInv, TypeInv, HistoryType, Keys
  <2>2. 1 .. serial \subseteq 1 .. MaxKey
    BY <2>1, LoginAssumption
  <2>3. mishaps \subseteq mishaps'
    BY <1>1
  <2> QED
    BY <2>2, <2>3
<1>10. TypeInv'
  <2>1. GateType'
    BY <1>1, <1>2, ZenonT(40) DEF IInv, TypeInv, GateType, Accs
  <2>2. UserType'
    <3>1. [guest[u] EXCEPT !.status = "LOGINED"] \in
            [gate : Gates \cup {None}, status : {"FREE", "CONNECTED", "LOGINED"}]
      BY <1>2
    <3>2. NoGuest \in [gate : Gates \cup {None}, status : {"FREE", "CONNECTED", "LOGINED"}]
      BY DEF NoGuest
    <3>3. guest' \in [Users -> [gate : Gates \cup {None}, status : {"FREE", "CONNECTED", "LOGINED"}]]
      BY <1>1, <1>2, <3>1, <3>2 DEF IInv, TypeInv, UserType
    <3>4. guest'[u].status = "CONNECTED" => guest'[u].gate \in Gates
      BY <1>1, <1>2, <3>1, <3>2 DEF IInv, TypeInv, UserType, NoGuest
    <3> QED
      BY <1>1, <3>3, <3>4 DEF IInv, TypeInv, UserType
  <2>3. HistoryType'
    <3>1. refused' \in BOOLEAN
      BY <1>1 DEF IInv, TypeInv, HistoryType
    <3> QED
      BY <1>1, <1>8, <3>1 DEF IInv, TypeInv, HistoryType
  <2> QED
    BY <1>1, <2>1, <2>2, <2>3 DEF IInv, TypeInv, NodeType
<1>11. PlayerHasClient' /\ PlayerInv'
  <2>1. PlayerHasClient /\ PlayerInv
    BY Zenon DEF IInv
  <2>2. /\ player' = player /\ client' = client /\ knows' = knows /\ serial' = serial /\ queries' = queries
        /\ issued' = issued /\ abort' = abort
    BY <1>1, Zenon
  <2>3. "leftover" \notin mishaps' => "leftover" \notin mishaps
    BY <1>9, Zenon
  <2> QED
    BY <2>1, <2>2, <2>3, Zenon DEF PlayerHasClient, PlayerInv
<1>12. LinkInv'
  <2>1. ASSUME NEW h \in Gates, NEW i \in DOMAIN gate[h].in
        PROVE  admitted'[gate[h].in[i].key] = 0
    <3>1. IssuedFor(issued, gate[h].in[i].key, h) /\ admitted[gate[h].in[i].key] = 0
      BY DEF IInv, KeyInv, LinkInv
    <3>2. gate[h].in[i].key \in 1 .. MaxKey
      BY <1>4, <1>9, <3>1 DEF IssuedFor
    <3>3. gate[h].in[i].key # key
      <4>1. CASE h = g
        BY <1>3, <1>4, <4>1 DEF Before
      <4>2. CASE h # g
        BY <1>3, <3>1, <4>2, Zenon DEF IssuedFor
      <4> QED
        BY <4>1, <4>2
    <3> QED
      BY <1>8, <3>1, <3>2, <3>3
  <2>2. serial' = serial /\ issued' = issued
    BY <1>1
  <2>3. "leftover" \notin mishaps' => "leftover" \notin mishaps
    BY <1>9
  <2>4. LinkInv
    BY DEF IInv, KeyInv
  <2> QED
    BY <1>7, <2>1, <2>2, <2>3, <2>4 DEF LinkInv
<1>13. RegisteredInv'
  <2>1. ASSUME NEW h \in Gates, NEW b \in Accounts, gate'[h].regacc[b] # NoAcc
        PROVE  /\ gate'[h].regacc[b] = gate[h].regacc[b]
               /\ admitted'[gate[h].regacc[b].key] = 0
    <3>1. ~ (h = g /\ b = a) /\ gate'[h].regacc[b] = gate[h].regacc[b]
      BY <1>7, <2>1
    <3>2. /\ IssuedFor(issued, gate[h].regacc[b].key, h)
          /\ AccountOf(issued, gate[h].regacc[b].key) = b
          /\ admitted[gate[h].regacc[b].key] = 0
      BY <2>1, <3>1 DEF IInv, KeyInv, RegisteredInv
    <3>3. gate[h].regacc[b].key \in 1 .. MaxKey
      BY <1>4, <1>9, <3>2 DEF IssuedFor
    <3>4. passes => gate[h].regacc[b].key # key
      BY <1>3, <1>5, <1>6, <3>1, <3>2 DEF IssuedFor, passes
    <3> QED
      BY <1>8, <3>1, <3>2, <3>3, <3>4
  <2> QED
    <3>1. RegisteredInv /\ serial' = serial /\ issued' = issued
      BY <1>1, Zenon DEF IInv, KeyInv
    <3>2. "leftover" \notin mishaps' => "leftover" \notin mishaps
      BY <1>9, Zenon
    <3>3. \A h \in Gates : gate'[h].in = gate[h].in
      BY <1>7, Zenon
    <3> QED
      BY ONLY <2>1, <3>1, <3>2, <3>3 DEF RegisteredInv
<1>14. ToldInv'
  <2>1. \A v \in Users : told[v] # NoTicket => told[v].gate \in Gates
    BY DEF IInv, TypeInv, UserType
  <2> QED
    BY <1>1, <1>7, <1>9, <2>1 DEF IInv, KeyInv, ToldInv
<1>15. AdmittedInv'
  BY <1>1, <1>4, <1>8, <1>9 DEF IInv, KeyInv, AdmittedInv
<1>16. NewestInv'
  <2> SUFFICES ASSUME mishaps' = {}
               PROVE  /\ ~ refused'
                      /\ \A h \in Gates, k \in 1 .. serial :
                           IssuedFor(issued, k, h) /\ Before(k, gate[h].in) =>
                               \/ admitted'[k] > 0
                               \/ gate'[h].regacc[AccountOf(issued, k)].key = k
                               \/ \E n \in k + 1 .. serial :
                                    IssuedFor(issued, n, h) /\ AccountOf(issued, n) = AccountOf(issued, k)
    BY <1>1, <1>7 DEF NewestInv
  <2>1. mishaps = {} /\ ~ (acc # NoAcc /\ acc.key > key)
    BY <1>1
  <2>2. issued[key].user = u /\ AccountOf(issued, key) = a
    BY <1>3, <2>1 DEF AccountOf, a
  <2>3. acc # NoAcc => passes
    <3>1. SUFFICES ASSUME acc # NoAcc PROVE passes
      OBVIOUS
    <3>2. key <= acc.key
      BY <1>3, <1>4, <1>5, <2>2, <3>1
    <3>3. acc.key = key
      BY <1>4, <1>5, <2>1, <3>1, <3>2
    <3> QED
      BY <1>5, <2>1, <2>2, <3>1, <3>3 DEF passes
  <2>4. ~ refused /\ \A h \in Gates, k \in 1 .. serial :
          IssuedFor(issued, k, h) /\ Before(k, gate[h].in) =>
              \/ admitted[k] > 0
              \/ gate[h].regacc[AccountOf(issued, k)].key = k
              \/ \E n \in k + 1 .. serial :
                   IssuedFor(issued, n, h) /\ AccountOf(issued, n) = AccountOf(issued, k)
    BY <2>1 DEF IInv, KeyInv, NewestInv
  <2>5. ~ refused'
    <3>1. \/ admitted[key] > 0
          \/ acc.key = key
          \/ newer
      <4>1. ASSUME NEW n \in key + 1 .. serial, IssuedFor(issued, n, g), AccountOf(issued, n) = a
            PROVE  newer
        BY <4>1 DEF newer, IssuedFor, AccountOf
      <4> QED
        BY <1>2, <1>3, <1>4, <2>2, <2>4, <4>1 DEF acc
    <3>2. acc.key = key => passes
      BY <1>2, <2>3 DEF NoAcc
    <3>3. admitted[key] > 0 => admitted[key] # 0
      OBVIOUS
    <3>4. refused' => refused \/ (~ passes /\ admitted[key] = 0 /\ ~ newer)
      BY <1>1
    <3> QED
      BY <2>4, <3>1, <3>2, <3>3, <3>4
  <2>6. ASSUME NEW h \in Gates, NEW k \in 1 .. serial, IssuedFor(issued, k, h), Before(k, gate[h].in)
        PROVE  \/ admitted'[k] > 0
               \/ gate'[h].regacc[AccountOf(issued, k)].key = k
               \/ \E n \in k + 1 .. serial :
                    IssuedFor(issued, n, h) /\ AccountOf(issued, n) = AccountOf(issued, k)
    <3>1. k \in 1 .. MaxKey /\ admitted[k] > 0 => admitted'[k] > 0
      BY <1>8
    <3>2. CASE admitted[k] > 0
      BY <1>9, <3>1, <3>2
    <3>3. CASE gate[h].regacc[AccountOf(issued, k)].key = k
      <4>1. AccountOf(issued, k) \in Accounts
        <5>1. issued \in Seq([user : Users, gate : Gates \cup {None}]) /\ k \in 1 .. Len(issued)
          BY <1>4 DEF IInv, TypeInv, HistoryType
        <5>2. issued[k] \in [user : Users, gate : Gates \cup {None}]
          BY <5>1, ElementOfSeq
        <5> QED
          BY <5>2 DEF AccountOf, Accounts
      <4>2. CASE h = g /\ AccountOf(issued, k) = a
        <5>1. acc.key = k /\ acc # NoAcc
          BY <3>3, <4>2 DEF acc, NoAcc
        <5>2. passes /\ k = key
          BY <2>3, <5>1 DEF passes
        <5> QED
          BY <1>8, <5>2
      <4>3. CASE ~ (h = g /\ AccountOf(issued, k) = a)
        BY <1>7, <3>3, <4>1, <4>3
      <4> QED
        BY <4>2, <4>3
    <3> QED
      BY <2>4, <2>6, <3>2, <3>3
  <2> QED
    BY <2>5, <2>6
<1> QED
  BY <1>10, <1>11, <1>12, <1>13, <1>14, <1>15, <1>16, Zenon DEF IInv, KeyInv

-----------------------------------------------------------------------------
LEMMA NextKeeps == IInv /\ [Next]_vars => IInv'
<1> SUFFICES ASSUME IInv, [Next]_vars PROVE IInv'
  OBVIOUS
<1>1. CASE \E c \in Conns : \/ \E u \in Users : Accept(c, u)
                            \/ \E db, closed \in BOOLEAN : SendLogin(c, db, closed)
                            \/ Closed(c)
                            \/ Late(c)
  BY <1>1, AcceptKeeps, SendLoginKeeps, ClosedKeeps, LateKeeps
<1>2. CASE \E ok, closed \in BOOLEAN, g \in Gates \cup {None} : HandleRedis(ok, g, closed)
  BY <1>2, HandleRedisKeeps
<1>3. CASE login_time
  BY <1>3, LoginTimeKeeps
<1>4. CASE \E g \in Gates : \/ \E closed \in BOOLEAN : LoginRes(g, closed)
                            \/ AccountReg(g)
                            \/ \E a \in Accounts : Expire(g, a)
  BY <1>4, LoginResKeeps, AccountRegKeeps, ExpireKeeps
<1>5. CASE \E u \in Users : GateAccept(u) \/ GateLogin(u) \/ GateClosed(u)
  BY <1>5, GateAcceptKeeps, GateLoginKeeps, GateClosedKeeps
<1>6. CASE UNCHANGED vars
  <2>1. TypeInv'
    BY <1>6 DEF vars, IInv, TypeInv, NodeType, GateType, UserType, HistoryType
  <2>2. PlayerHasClient' /\ PlayerInv'
    BY <1>6 DEF vars, IInv, PlayerHasClient, PlayerInv
  <2> QED
    BY <1>6, <2>1, <2>2, KeysStay DEF vars, IInv
<1> QED
  BY <1>1, <1>2, <1>3, <1>4, <1>5, <1>6 DEF Next

LEMMA Invariance == Spec => []IInv
<1> QED
  BY InitKeeps, NextKeeps, PTL DEF Spec

\* A player that is logging in has its client, the one that sent the password, and
\* assert(c) of login_time never fails, unless a LOGINACCOUNT was handled after its
\* client had been logged out.
THEOREM PlayersHaveClients == Spec => []TablesAgree
<1>1. IInv => TablesAgree
  <2> SUFFICES ASSUME IInv PROVE TypeOK
    BY DEF TablesAgree, IInv
  <2>1. /\ knows \subseteq Users
        /\ client \in [Conns -> [status : {"FREE", "CONNECTED", "LOGINED", "LOGOUTED"}, user : Users \cup {None}]]
        /\ player \in [Conns -> [state : {"FREE", "LOGIN", "GATELOAD"}, account : Accounts \cup {None},
                                 passwd : Users \cup {None}, key : Keys, late : BOOLEAN]]
    BY DEF IInv, TypeInv, NodeType, Clients, NoClient, Players
  <2>2. \A k \in DOMAIN queries : queries[k] \in [cid : Conns, account : Accounts]
    <3>1. queries \in Seq([cid : Conns, account : Accounts])
      BY DEF IInv, TypeInv, NodeType
    <3>2. DOMAIN queries = 1 .. Len(queries)
      BY <3>1
    <3> QED
      BY <3>1, <3>2, ElementOfSeq
  <2>3. ASSUME NEW g \in Gates, NEW k \in DOMAIN gate[g].in
        PROVE  gate[g].in[k] \in Registrations
    <3>1. gate[g].in \in Seq(Regs)
      BY DEF IInv, TypeInv, GateType
    <3>2. gate[g].in[k] \in Regs
      BY <3>1
    <3> QED
      BY <3>2, LoginAssumption DEF Regs, Registrations, Keys
  <2>4. told \in [Users -> [gate : Gates \cup {None}, key : Keys]]
    BY LoginAssumption DEF IInv, TypeInv, UserType, NoTicket, Keys
  <2> QED
    BY <2>1, <2>2, <2>3, <2>4 DEF TypeOK, IInv, TypeInv, UserType, HistoryType
<1> QED
  BY <1>1, Invariance, PTL

\* Who is told a key has itself given the right password for it, whatever answers to
\* earlier clients of the connection come late; and a key opens a gate once.
THEOREM KeysAreOwn == Spec => []KeyIsOwn
<1>1. IInv => KeyIsOwn
  <2> SUFFICES ASSUME IInv PROVE KeyIsOwn
    OBVIOUS
  <2>1. \A k \in 1 .. MaxKey : admitted[k] <= 1
    BY DEF IInv, KeyInv, AdmittedInv
  <2>2. ASSUME "leftover" \notin mishaps, NEW u \in Users, told[u] # NoTicket
        PROVE  u \in knows /\ issued[told[u].key] = [user |-> u, gate |-> told[u].gate]
    <3>1. /\ IssuedFor(issued, told[u].key, told[u].gate)
          /\ u \in knows /\ issued[told[u].key].user = u
      BY <2>2 DEF IInv, KeyInv, ToldInv
    <3>2. issued[told[u].key] \in [user : Users, gate : Gates \cup {None}]
      BY <3>1, ElementOfSeq DEF IssuedFor, IInv, TypeInv, HistoryType
    <3> QED
      BY <3>1, <3>2 DEF IssuedFor
  <2> QED
    BY <2>1, <2>2 DEF KeyIsOwn
<1> QED
  BY <1>1, Invariance, PTL

\* The key that was told last for an account opens its gate, unless the registration
\* has expired, or was taken away by a user that came with an older key.
THEOREM NewestKeyOpens == Spec => []NewestIsAdmitted
<1>1. IInv => NewestIsAdmitted
  BY DEF IInv, TypeInv, HistoryType, KeyInv, NewestInv, NewestIsAdmitted
<1> QED
  BY <1>1, Invariance, PTL
=============================================================================

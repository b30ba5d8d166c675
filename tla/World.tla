-------------------------------- MODULE World --------------------------------
(***************************************************************************)
(* The world node: world/player.c (the table of players), service_world.c  *)
(* (login, creation of a character, logout) and service_playerdb.c (the    *)
(* chain of database requests behind them), with the user database.        *)
(*                                                                         *)
(* A connection is gid*hmax+cid.  Requests reach redis and replies come    *)
(* back in order (redisproxy answers in order); a request may find no      *)
(* database node, get lost, be answered with an error, or be executed and  *)
(* its answer lost.  What the world sends to the gates is left out.        *)
(*                                                                         *)
(* Of struct chardata the model keeps ids, name and, for the rest, whose   *)
(* values they are: data is the character they were loaded from or made    *)
(* for, 0 when they are all zero.  A failed assert() ends the process.     *)
(***************************************************************************)
EXTENDS Freeid, Hashid, FiniteSets

CONSTANTS Conns,       \* connections of the gates, also ones beyond hmax
          Accounts,    \* accids
          Names,       \* names players ask for
          OldDatabase, \* there is a character from an earlier run
          CreateTimes, \* creations refused before the player is (20)
          MaxChar,     \* bound: characters redis gives ids to
          MaxWire,     \* bound: requests in flight
          Faults       \* what may become of a request, beside being answered

\* No database node; an error reply; executed, but the reply is lost.  A request
\* that is lost on its way does what one of the first and the last do.
AllFaults == {"nodb", "error", "noreply"}

NoName == "-"        \* a record without a name
OldName == "old"

ASSUME WorldAssumption ==
    /\ LowHeap
    /\ Conns \subseteq Nat /\ 0 \notin Accounts /\ {"", NoName} \cap Names = {}
    /\ CreateTimes \in Nat \ {0} /\ MaxChar \in Nat \ {0} /\ MaxWire \in Nat \ {0}
    /\ OldDatabase \in BOOLEAN /\ Faults \subseteq AllFaults

VARIABLES ph,      \* PH: the tables and the players, and the assert that failed
          db,      \* redis: acc:<id>:user, user:<name>:name, user:<id> and user:id
          wire,    \* replies on their way
          spoilt,  \* history: characters whose record was written with other values
          mishaps  \* history: what has happened to the order of requests

vars == <<ph, db, wire, spoilt, mishaps>>

Charids == 1 .. MaxChar
Fates == {"ok"} \cup Faults
Statuses == {"FREE", "WAITCREATECHAR", "SAVECHARNAME", "CHARUNIQUEID", "CREATECHAR",
             "BINDCHARID", "LOADCHAR", "LOGIN", "GAME"}
PdbTypes == {"QUERY", "CHECKNAME", "SAVENAME", "CHARID", "CREATE", "BINDCHARID", "LOAD", "SAVE"}
NoRecord == [data |-> 0, name |-> NoName]

player == [conn |-> 0, status |-> "FREE", accid |-> 0, charid |-> 0, name |-> "",
           times |-> 0, data |-> 0]

_allocplayers ==
    [fi |-> freeid_init, hi |-> hashid_init(Cap), hi2 |-> hashid_init(Cap),
     p |-> [i \in Ids |-> player], abort |-> "none"]

EmptyDb == [user |-> [a \in Accounts |-> 0], names |-> {}, lastid |-> 0,
            char |-> [c \in {0} \cup Charids |-> NoRecord]]

\* What an earlier run of the world may have left: a character of one account.
OldDb(a) == [EmptyDb EXCEPT !.user[a] = 1, !.names = {OldName}, !.lastid = 1,
                            !.char[1] = [data |-> 1, name |-> OldName]]

Init ==
    /\ ph = _allocplayers
    /\ IF OldDatabase THEN \E a \in Accounts : db = OldDb(a) ELSE db = EmptyDb
    /\ wire = <<>>
    /\ spoilt = {}
    /\ mishaps = {}

Running == ph.abort = "none"

\* Handlers are operators from states to states.
State == [ph |-> ph, db |-> db, wire |-> wire, spoilt |-> spoilt, mishaps |-> mishaps]
Becomes(w) ==
    /\ ph' = w.ph
    /\ db' = w.db
    /\ wire' = w.wire
    /\ spoilt' = w.spoilt
    /\ mishaps' = w.mishaps

Fail(w, assert) == [w EXCEPT !.ph.abort = assert]
Note(w, what) == [w EXCEPT !.mishaps = @ \cup {what}]

-----------------------------------------------------------------------------
\* world/player.c

_getplayer(w, conn) == freeid_find(w.ph.fi, conn)
_getplayerbyaccid(w, accid) == hashid_find(w.ph.hi2, accid)

\* The player it allocates is the one _getplayer finds from then on.
_allocplayer(w, conn) ==
    LET i == AllocId(w.ph.fi, conn)
        p == w.ph.p[i]
    IN CASE i = -1 -> w
         [] i # -1 /\ (p.accid # 0 \/ p.charid # 0 \/ p.name # "") -> Fail(w, "alloc")
         [] OTHER -> [w EXCEPT !.ph.fi = freeid_alloc(@, conn),
                               !.ph.p[i].conn = conn, !.ph.p[i].times = 0]

\* Both refuse a second id; that a table is full never happens.
_hashplayeracc(w, i, accid) ==
    [w EXCEPT !.ph.p[i].accid = accid, !.ph.hi2 = hashid_alloc(@, accid)]
HashaccFails(w, i) == w.ph.p[i].accid # 0 \/ hashid_full(w.ph.hi2)

_hashplayer(w, i, charid) ==
    [w EXCEPT !.ph.p[i].charid = charid, !.ph.hi = hashid_alloc(@, charid)]
HashcharFails(w, i) == w.ph.p[i].charid # 0 \/ hashid_full(w.ph.hi)

Unhashed(hi, id) == IF id # 0 THEN hashid_free(hi, id) ELSE hi

\* Mutants: the character stays in the index, the name in the slot.
FreeKeepsCharid(w, i) ==
    LET p == w.ph.p[i] IN
    IF p.status = "FREE" THEN Fail(w, "status")
    ELSE [w EXCEPT !.ph.fi = freeid_free(@, p.conn), !.ph.hi2 = Unhashed(@, p.accid),
                   !.ph.p[i] = [player EXCEPT !.data = p.data]]
FreeKeepsName(w, i) ==
    LET p == w.ph.p[i] IN
    IF p.status = "FREE" THEN Fail(w, "status")
    ELSE [w EXCEPT !.ph.fi = freeid_free(@, p.conn), !.ph.hi2 = Unhashed(@, p.accid),
                   !.ph.hi = Unhashed(@, p.charid),
                   !.ph.p[i] = [player EXCEPT !.name = p.name, !.data = p.data]]

\* The data stays in the slot.  History: what is on the wire for the connection
\* is of an earlier login from now on.
_freeplayer(w, i) ==
    LET p == w.ph.p[i] IN
    IF p.status = "FREE" THEN Fail(w, "status")
    ELSE IF freeid_find(w.ph.fi, p.conn) # i THEN Fail(w, "id1")
    ELSE [w EXCEPT
            !.ph.fi = freeid_free(@, p.conn),
            !.ph.hi2 = Unhashed(@, p.accid),
            !.ph.hi = Unhashed(@, p.charid),
            !.ph.p[i] = [p EXCEPT !.conn = 0, !.status = "FREE", !.accid = 0,
                                  !.charid = 0, !.name = ""],
            !.wire = [k \in DOMAIN @ |-> IF @[k].conn = p.conn THEN [@[k] EXCEPT !.old = TRUE]
                                                               ELSE @[k]]]

-----------------------------------------------------------------------------
\* redis, and the way there and back.

\* An empty name leaves hmset with a value too few, and no id is the bound's.
Refuses(d, p, type) ==
    \/ type = "CREATE" /\ p.name = ""
    \/ type = "CHARID" /\ d.lastid = MaxChar

Executed(d, p, type) ==
    CASE type = "SAVENAME"   -> [d EXCEPT !.names = @ \cup {p.name}]
      [] type = "CHARID"     -> [d EXCEPT !.lastid = @ + 1]
      [] type = "CREATE"     -> [d EXCEPT !.char[p.charid] = [data |-> p.data, name |-> p.name]]
      [] type = "SAVE"       -> [d EXCEPT !.char[p.charid].data = p.data]
      [] type = "BINDCHARID" -> [d EXCEPT !.user[p.accid] = p.charid]
      [] OTHER -> d

\* The number a reply carries, a name that is there being 1.
Value(d, p, type) ==
    CASE type = "QUERY"     -> d.user[p.accid]
      [] type = "CHECKNAME" -> IF p.name \in d.names THEN 1 ELSE 0
      [] type = "CHARID"    -> d.lastid + 1
      [] OTHER -> 0

\* What the caller sends along to recognise its reply.
Key(p, type) == IF type \in {"QUERY", "CHECKNAME", "SAVENAME", "CHARID"} THEN p.accid ELSE p.charid

Reply(d, p, type, ok) ==
    [type |-> type, conn |-> p.conn, key |-> Key(p, type), ok |-> ok, old |-> FALSE,
     value |-> IF ok THEN Value(d, p, type) ELSE 0,
     record |-> IF ok /\ type = "LOAD" THEN d.char[p.charid] ELSE NoRecord]

\* _db on the values the player has at this moment, and _sendto_db.
Sent(w, i, type, fate) ==
    LET p == w.ph.p[i]
        done == fate \in {"ok", "noreply"} /\ ~ Refuses(w.db, p, type)
        answered == fate \in {"ok", "error"} /\ type # "SAVE"
    IN [w EXCEPT
          !.db = IF done THEN Executed(@, p, type) ELSE @,
          !.wire = IF answered THEN Append(@, Reply(w.db, p, type, done)) ELSE @,
          !.mishaps = IF answered \/ type = "SAVE" THEN @ ELSE @ \cup {"lost"}]

\* PDB_CREATE gives the player its first coins; whatever else an earlier player
\* left in the slot goes into the new character.
_db(w, i, type, fate) ==
    LET p == w.ph.p[i] IN
    CASE type # "CREATE" -> Sent(w, i, type, fate)
      [] type = "CREATE" /\ p.data = 0 ->
           Sent([w EXCEPT !.ph.p[i].data = p.charid], i, type, fate)
      [] type = "CREATE" /\ p.data # 0 ->
           Sent([w EXCEPT !.spoilt = @ \cup {p.charid}], i, type, fate)

\* _db with PDB_SAVE, from a handler that does not ask for the player's status:
\* until PDB_LOAD is answered the values are not the character's.
SaveAnyStatus(w, i, fate) ==
    IF w.ph.p[i].status = "LOADCHAR"
    THEN _db([w EXCEPT !.spoilt = @ \cup {w.ph.p[i].charid}], i, "SAVE", fate)
    ELSE _db(w, i, "SAVE", fate)

-----------------------------------------------------------------------------
\* service_playerdb.c, _handle_redis, and world_service with the result.

world_service(w, i, err) ==
    CASE err = "OK" -> IF w.ph.p[i].status = "LOGIN" THEN [w EXCEPT !.ph.p[i].status = "GAME"] ELSE w
      [] err \in {"NOCHAR", "NAMEEXIST"} -> w
      [] OTHER -> _freeplayer(w, i)

Status(w, i, status) == [w EXCEPT !.ph.p[i].status = status]

\* Another request of the chain.
Goes(w, i, status, type, fate) == _db(Status(w, i, status), i, type, fate)

OnQuery(w, i, r, fate) ==
    IF r.value = 0 THEN world_service(Status(w, i, "WAITCREATECHAR"), i, "NOCHAR")
    ELSE IF HashcharFails(w, i) THEN world_service(w, i, "WORLDFULL")
    ELSE Goes(_hashplayer(w, i, r.value), i, "LOADCHAR", "LOAD", fate)

\* Mutant: a name that is taken.
NeverTaken(w, i, r, fate) == Goes(w, i, "SAVECHARNAME", "SAVENAME", fate)

OnCheckname(w, i, r, fate) ==
    LET refused == [Status(w, i, "WAITCREATECHAR") EXCEPT !.ph.p[i].times = @ + 1] IN
    IF r.value = 0 THEN Goes(w, i, "SAVECHARNAME", "SAVENAME", fate)
    ELSE IF refused.ph.p[i].times >= CreateTimes THEN world_service(refused, i, "CREATECHARMUCHTIMES")
    ELSE world_service(refused, i, "NAMEEXIST")

\* Mutant: the status without the request.
SavenameAsksNothing(w, i, r, fate) == Status(w, i, "CHARUNIQUEID")

OnSavename(w, i, r, fate) == Goes(w, i, "CHARUNIQUEID", "CHARID", fate)

\* Mutant: the account is bound before the character is there.
BindsFirst(w, i, r, fate) ==
    IF HashcharFails(w, i) THEN world_service(w, i, "WORLDFULL")
    ELSE Goes(_hashplayer(w, i, r.value), i, "BINDCHARID", "BINDCHARID", fate)

OnCharid(w, i, r, fate) ==
    IF HashcharFails(w, i) THEN world_service(w, i, "WORLDFULL")
    ELSE Goes(_hashplayer(w, i, r.value), i, "CREATECHAR", "CREATE", fate)

\* Mutant: the last request of the chain is left out.
CreateIsLast(w, i, r, fate) == world_service(Status(w, i, "LOGIN"), i, "OK")

OnCreate(w, i, r, fate) == Goes(w, i, "BINDCHARID", "BINDCHARID", fate)

OnBindcharid(w, i, r, fate) == world_service(Status(w, i, "LOGIN"), i, "OK")

\* Mutant: the values that are in the slot stay.
LoadsName(w, i, record) ==
    IF record.name = NoName THEN w ELSE [w EXCEPT !.ph.p[i].name = record.name]

\* The ids stay, everything else is cleared and then read; a record without a
\* name is no character.
_loadpdb(w, i, record) ==
    IF record.name = NoName
    THEN [w EXCEPT !.ph.p[i].data = 0, !.ph.p[i].name = ""]
    ELSE [w EXCEPT !.ph.p[i].data = record.data, !.ph.p[i].name = record.name]

OnLoad(w, i, r, fate) ==
    LET loaded == _loadpdb(w, i, r.record) IN
    IF r.record.name = NoName THEN world_service(loaded, i, "DBDATAERR")
    ELSE world_service(Status(loaded, i, "LOGIN"), i, "OK")

\* The player the reply is for, -1 if it is gone or another by now.
Addressee(w, r) ==
    LET i == _getplayer(w, r.conn) IN
    IF i # -1 /\ Key(w.ph.p[i], r.type) = r.key THEN i ELSE -1

_handle_redis(w, i, r, fate) ==
    CASE ~ r.ok -> world_service(w, i, "DBERR")
      [] r.ok /\ r.type = "QUERY" -> OnQuery(w, i, r, fate)
      [] r.ok /\ r.type = "CHECKNAME" -> OnCheckname(w, i, r, fate)
      [] r.ok /\ r.type = "SAVENAME" -> OnSavename(w, i, r, fate)
      [] r.ok /\ r.type = "CHARID" -> OnCharid(w, i, r, fate)
      [] r.ok /\ r.type = "CREATE" -> OnCreate(w, i, r, fate)
      [] r.ok /\ r.type = "BINDCHARID" -> OnBindcharid(w, i, r, fate)
      [] r.ok /\ r.type = "LOAD" -> OnLoad(w, i, r, fate)

Taken(w) == [w EXCEPT !.wire = Tail(@)]

DropReply ==
    /\ Running /\ wire # <<>>
    /\ Addressee(State, Head(wire)) = -1
    /\ Becomes(Taken(State))

HandleReply(type, fate) ==
    LET r == Head(wire)
        i == Addressee(State, r)
        w == IF r.old THEN Note(State, "stale") ELSE State
    IN /\ Running /\ wire # <<>> /\ i # -1
       /\ r.type = type
       /\ Becomes(_handle_redis(Taken(w), i, r, fate))

-----------------------------------------------------------------------------
\* service_world.c, _handlegate.  The gate forwards what a client sends, in any
\* order; a gate that restarts uses its connection ids again.

_login(w, conn, accid, fate) ==
    LET i == _getplayer(w, conn)
        a == _allocplayer(w, conn)
        j == _getplayer(a, conn)
        h == _hashplayeracc(a, j, accid)
    IN CASE i # -1 -> _freeplayer(w, i)                                \* SERR_RELOGIN
         [] i = -1 /\ _getplayerbyaccid(w, accid) # -1 -> w            \* SERR_ACCLOGINED
         [] OTHER ->
              IF a.ph.abort # "none" \/ j = -1 THEN a                  \* SERR_WORLDFULL
              ELSE IF HashaccFails(a, j) THEN _freeplayer(h, j)        \* SERR_WORLDFULL
              ELSE IF fate = "nodb" THEN _freeplayer(h, j)             \* SERR_NODB
              ELSE _db(h, j, "QUERY", fate)

Login(conn, accid, fate) ==
    /\ Running /\ Len(wire) < MaxWire
    /\ Becomes(_login(State, conn, accid, fate))

\* History: a name asked for while an answer about it is on the way, for this
\* player or for another.
Asks(w, i, name) ==
    LET pending(c) == \E k \in DOMAIN w.wire : w.wire[k].type = "CHECKNAME" /\ ~ w.wire[k].old
                                               /\ w.wire[k].conn = c
        twice == pending(w.ph.p[i].conn)
        same == \E j \in Ids \ {i} : pending(w.ph.p[j].conn) /\ w.ph.p[j].name = name
    IN IF twice \/ same THEN Note(w, "raced") ELSE w

\* PS_CHECKCHARNAME is never set: the status stays while the name is looked up.
_createchar(w, i, name, fate) ==
    LET n == [Asks(w, i, name) EXCEPT !.ph.p[i].name = name] IN
    IF fate = "nodb" THEN _freeplayer(n, i) ELSE _db(n, i, "CHECKNAME", fate)

\* Mutant: in any status.
CharCreateAnyTime(conn, name, fate) ==
    LET i == _getplayer(State, conn) IN
    /\ Running /\ Len(wire) < MaxWire
    /\ i # -1
    /\ Becomes(_createchar(State, i, name, fate))

CharCreate(conn, name, fate) ==
    LET i == _getplayer(State, conn) IN
    /\ Running /\ Len(wire) < MaxWire
    /\ i # -1
    /\ ph.p[i].status = "WAITCREATECHAR"
    /\ Becomes(_createchar(State, i, name, fate))

_logout(w, i, fate) == _freeplayer(SaveAnyStatus(w, i, fate), i)

Logout(conn, fate) ==
    LET i == _getplayer(State, conn) IN
    /\ Running
    /\ i # -1                                \* else SERR_NOLOGIN
    /\ Becomes(_logout(State, i, fate))

\* The handlers of service_rolelogic.c and service_ringlogic.c that change the
\* data and save it.  They ask for a database and for coins, levels, roles or
\* pages, which zeros do not have, but not for the status.
Change(conn, fate) ==
    LET i == _getplayer(State, conn) IN
    /\ Running /\ fate # "nodb"
    /\ i # -1
    /\ ph.p[i].data # 0
    /\ Becomes(SaveAnyStatus(State, i, fate))

\* The process is stopped, or has failed, and is started again; the replies on
\* their way are lost with it.
Restart ==
    /\ ph' = _allocplayers
    /\ wire' = <<>>
    /\ UNCHANGED <<db, spoilt, mishaps>>

Next ==
    \/ DropReply
    \/ Restart
    \/ \E fate \in Fates :
         \/ \E type \in PdbTypes \ {"SAVE"} : HandleReply(type, fate)
         \/ \E conn \in Conns :
              \/ \E accid \in Accounts : Login(conn, accid, fate)
              \/ \E name \in Names : CharCreate(conn, name, fate)
              \/ Logout(conn, fate)
              \/ Change(conn, fate)

Spec == Init /\ [][Next]_vars

-----------------------------------------------------------------------------
Live == {i \in Ids : \E h \in Hashes : ph.fi.slots[h] = i}

Records == [data : {0} \cup Charids, name : Names \cup {NoName, OldName}]

TypeOK ==
    /\ ph.fi \in FreeidType
    /\ HashidType(ph.hi, Charids, Ids) /\ HashidType(ph.hi2, Accounts, Ids)
    /\ ph.p \in [Ids -> [conn : Conns \cup {0}, status : Statuses \ {"LOGIN"}, accid : Accounts \cup {0},
                         charid : {0} \cup Charids, name : Names \cup {"", OldName},
                         times : 0 .. CreateTimes, data : {0} \cup Charids]]
    /\ ph.abort \in {"none", "alloc", "status", "id1"}
    /\ db.user \in [Accounts -> {0} \cup Charids] /\ db.names \subseteq Names \cup {"", OldName}
    /\ db.lastid \in 0 .. MaxChar /\ db.char \in [{0} \cup Charids -> Records]
    /\ \A k \in DOMAIN wire : wire[k].type \in PdbTypes \ {"SAVE"} /\ wire[k].record \in Records
    /\ spoilt \subseteq Charids /\ mishaps \subseteq {"lost", "stale", "raced"}

\* The two indexes are exactly the accounts and the characters of the players in
\* the table, each once: so no account is in the world twice, and none is locked
\* out (SERR_ACCLOGINED) by a player that is gone.
IndexIsExact ==
    Running =>
        /\ \A i, j \in Live : i # j => ph.p[i].accid # ph.p[j].accid
        /\ UsedIds(ph.hi2) = {ph.p[i].accid : i \in Live} /\ Len(ph.hi2.used) = Cardinality(Live)
        /\ LET withchar == {i \in Live : ph.p[i].charid # 0} IN
           /\ UsedIds(ph.hi) = {ph.p[i].charid : i \in withchar}
           /\ Len(ph.hi.used) = Cardinality(withchar)

TableOK == TypeOK /\ IndexIsExact

\* A player in the game plays the character its account is bound to, and has its
\* name.  It may have another when a name was asked for while an answer was on the
\* way: the player goes on with whatever it asked for last.
GameIsBound ==
    \A i \in Live :
        LET p == ph.p[i] IN
        p.status = "GAME" =>
            /\ db.user[p.accid] = p.charid
            /\ p.name = db.char[p.charid].name \/ mishaps \cap {"raced", "stale"} # {}

\* An account is bound only to a character that can be loaded, and to one no
\* other account has, restarts in the middle of a creation included.
BoundCharLoads ==
    \A a \in Accounts : db.user[a] # 0 =>
        /\ db.char[db.user[a]].name # NoName
        /\ \A b \in Accounts \ {a} : db.user[b] # db.user[a]

\* The values of a character, in its record and in the game, are its own unless
\* it was created in a slot an earlier player had left its values in, or saved
\* before it was loaded, also when an answer to an earlier login has moved the
\* player on before.
RecordIsOwn == "stale" \notin mishaps =>
    /\ \A c \in Charids \ spoilt : db.char[c].name # NoName => db.char[c].data = c
    /\ \A i \in Live : ph.p[i].status = "GAME" /\ ph.p[i].charid \notin spoilt =>
                         ph.p[i].data = ph.p[i].charid

\* No two characters have one name, unless two requests for it, or two requests
\* of one player, or one of an earlier login, were answered at once.
NamesAreUnique ==
    \/ mishaps \cap {"raced", "stale"} # {}
    \/ \A c, d \in Charids : c # d /\ db.char[c].name = db.char[d].name => db.char[c].name = NoName

\* The only assert that fails is that of _freeplayer on the status.
AbortCause == ph.abort \in {"none", "status"}

Awaits == [FREE |-> "QUERY", SAVECHARNAME |-> "SAVENAME", CHARUNIQUEID |-> "CHARID",
           CREATECHAR |-> "CREATE", BINDCHARID |-> "BINDCHARID", LOADCHAR |-> "LOAD"]

\* Nobody waits for an answer that does not come: the reply a player's status
\* calls for is on its way unless a request was lost.
WaitIsAnswered ==
    Running /\ "lost" \notin mishaps =>
        \A i \in Live : ph.p[i].status \in DOMAIN Awaits =>
            \E k \in DOMAIN wire : /\ wire[k].type = Awaits[ph.p[i].status]
                                   /\ wire[k].conn = ph.p[i].conn
                                   /\ wire[k].key = Key(ph.p[i], wire[k].type)

\* A player leaves the game only with its slot, unless more than one answer was on
\* its way to the player.
GameIsFinal ==
    [][\A i \in Ids :
         ph.p[i].status = "GAME" /\ mishaps' \cap {"raced", "stale"} = {} =>
             ph'.p[i].status \in {"GAME", "FREE"}]_vars
=============================================================================

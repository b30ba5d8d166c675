-------------------------------- MODULE Room --------------------------------
(***************************************************************************)
(* The rooms of a game node: service_game.c, with its gate's table of      *)
(* clients (libshaco/sc_gate.c).                                           *)
(*                                                                         *)
(* players[] has for each client the room and character it has logged in   *)
(* to; a room has for each member whether it is online, its connection and *)
(* two maps of items, which are allocated when the room is created, freed  *)
(* when the member leaves, and dereferenced without asking.  A client and  *)
(* its connection have one id here, which is used again when it is free;   *)
(* what a client sends after the gate has closed it is Gate's subject.     *)
(*                                                                         *)
(* Of a member's attributes the model has the oxygen, which ends a game,   *)
(* and quick, which stands for those that have no upper limit; of time,    *)
(* whether a room's status, a delay or a buff has lasted long enough.  A   *)
(* failed assert and a NULL that is dereferenced end the process.  Nobody  *)
(* sends what _handle_destroyroom waits for: the matching's call of it is  *)
(* commented out.                                                          *)
(***************************************************************************)
EXTENDS Gfreeid, FiniteSets, FiniteSetsExt, SequencesExt

CONSTANTS Conns,    \* clients
          Teams,    \* whom rooms are created for: pairs of characters
          Chars,    \* characters that log in
          Oxygen, Quick, \* what a member has to begin with
          Items,    \* what may be used: its effect, at once or later, for good or for a time
          Ticks,    \* of so many calls of game_time one looks at the rooms' status
          Settings  \* bounds: the clients, how many rooms are created, items used, mishaps

ItemType == [target : {"SELF", "ENEMY", "ALL"}, delay : BOOLEAN, time : BOOLEAN,
             type : {"oxygen", "quick"}, value : Int \ {0}]

ASSUME RoomAssumption ==
    /\ Conns \subseteq Nat /\ "-" \notin Chars
    /\ Teams \subseteq Chars \X Chars /\ \A t \in Teams : t[1] # t[2]
    /\ Oxygen \in Nat \ {0} /\ Quick \in Nat /\ Items \subseteq ItemType
    /\ \A item \in Items : item.type = "quick" => item.time
    /\ Settings \subseteq [conns : SUBSET Conns, rooms : Nat \ {0}, uses : Nat,
                              mishaps : Nat]
    /\ Ticks \in Nat \ {0} /\ Settings # {} /\ IsFiniteSet(Settings)

VARIABLES setting,  \* the bounds of this behaviour
          client,   \* the gate's table: FREE, CONNECTED or LOGINED
          players,  \* struct player of each client
          rooms,    \* the rooms
          created,  \* how many there were: the keys are numbers
          overs,    \* how often UM_OVERROOM was sent for a key
          came,     \* history: the keys of the rooms somebody came to
          tick,     \* calls of game_time
          uses,     \* items used
          abort,    \* what ended the process
          mishaps   \* history: what the code does not take into account

vars == <<setting, client, players, rooms, created, overs, came, tick, uses, abort, mishaps>>

MaxRooms == Max({s.rooms : s \in Settings})
Keys == 0 .. MaxRooms - 1
RoomIds == 0 .. MaxRooms - 1
MEMBER_MAX == 2
NoConn == -1

nobody == [login |-> FALSE, roomid |-> 0, charid |-> "-"]
NoMember == [charid |-> "-", login |-> FALSE, online |-> FALSE, loadok |-> FALSE,
             connid |-> NoConn, maps |-> FALSE, attri |-> [oxygen |-> 0, quick |-> 0],
             delays |-> {}, buffs |-> {}]
NoRoom == [key |-> -1, status |-> "CREATE", age |-> 0, p |-> <<NoMember, NoMember>>]

Init ==
    /\ setting \in Settings
    /\ client = [c \in Conns |-> "FREE"]
    /\ players = [c \in Conns |-> nobody]
    /\ rooms = GFREEID_INIT(1, NoRoom)
    /\ created = 0
    /\ overs = [k \in Keys |-> 0]
    /\ came = {}
    /\ tick = 0
    /\ uses = 0
    /\ abort = "none"
    /\ mishaps = {}

State == [client |-> client, players |-> players, rooms |-> rooms, overs |-> overs,
          came |-> came, abort |-> abort, mishaps |-> mishaps]
Becomes(next) == \E w \in {next} :
    /\ abort = "none"
    /\ Cardinality(w.mishaps) <= setting.mishaps
    /\ client' = w.client
    /\ players' = w.players
    /\ rooms' = w.rooms
    /\ overs' = w.overs
    /\ came' = w.came
    /\ abort' = w.abort
    /\ mishaps' = w.mishaps
    /\ UNCHANGED setting

Note(w, what) == [w EXCEPT !.mishaps = @ \cup {what}]
NoteIf(w, what, cond) == IF cond THEN Note(w, what) ELSE w
Fail(w, what) == IF w.abort = "none" THEN [w EXCEPT !.abort = what] ELSE w

-----------------------------------------------------------------------------
\* Rooms, members and players.

HasRoom(w, r) == Holds(w.rooms, r)
Room(w, r) == Data(w.rooms, r)
Member(w, r, k) == Room(w, r).p[k]
SetStatus(w, r, status) ==
    [w EXCEPT !.rooms.p[r + 1].data.status = status, !.rooms.p[r + 1].data.age = 0]

\* _getmember: 0 if there is none.
_getmember(w, r, charid) ==
    LET with == {k \in 1 .. MEMBER_MAX : Member(w, r, k).charid = charid}
    IN IF with = {} THEN 0 ELSE Min(with)

\* Who has ever logged in, not who is there.
_count_onlinemember(w, r) == Cardinality({k \in 1 .. MEMBER_MAX : Member(w, r, k).login})
_count_loadokmember(w, r) == Cardinality({k \in 1 .. MEMBER_MAX : Member(w, r, k).loadok})
Present(w, r) == {k \in 1 .. MEMBER_MAX : Member(w, r, k).online}

_freemember(w, r, k) ==
    [w EXCEPT !.rooms.p[r + 1].data.p[k].maps = FALSE, !.rooms.p[r + 1].data.p[k].delays = {},
              !.rooms.p[r + 1].data.p[k].buffs = {}]

\* sc_gate_disconnclient(c, true)
Disconnected(w, c) == [w EXCEPT !.client[c] = "FREE"]

\* Mutant: the player stays in the table.
LogoutKeepsPlayer(w, c, disconn) ==
    LET p == w.players[c]
        k == _getmember(w, p.roomid, p.charid)
        v == _freemember([w EXCEPT !.rooms.p[p.roomid + 1].data.p[k].online = FALSE], p.roomid, k)
    IN IF ~ p.login \/ ~ HasRoom(w, p.roomid) \/ k = 0 THEN w
       ELSE IF disconn THEN Disconnected(v, c) ELSE v

\* Mutant: the member stays online.
LogoutStaysOnline(w, c, disconn) ==
    LET p == w.players[c]
        out == [w EXCEPT !.players[c] = nobody]
        k == _getmember(out, p.roomid, p.charid)
        v == _freemember(out, p.roomid, k)
    IN IF ~ p.login THEN w
       ELSE IF ~ HasRoom(w, p.roomid) \/ k = 0 THEN out
       ELSE IF disconn THEN Disconnected(v, c) ELSE v

\* A client whose room is not there is not disconnected.
_logout(w, c, disconn) ==
    LET p == w.players[c]
        out == [w EXCEPT !.players[c] = nobody]
        k == _getmember(out, p.roomid, p.charid)
        v == _freemember([out EXCEPT !.rooms.p[p.roomid + 1].data.p[k].online = FALSE],
                         p.roomid, k)
    IN IF ~ p.login THEN w
       ELSE IF ~ HasRoom(w, p.roomid) \/ k = 0 THEN out
       ELSE IF disconn THEN Disconnected(v, c) ELSE v

\* Each member that is online is logged out by its connection, whoever has it.
_destory_room(w, r) ==
    LET out(v, k) ==
            IF ~ Member(v, r, k).online THEN v
            ELSE LET u == _freemember(v, r, k)
                     c == Member(v, r, k).connid
                 IN IF v.client[c] = "FREE" THEN u ELSE _logout(u, c, TRUE)
        empty == FoldLeft(out, w, <<1, 2>>)
    IN [empty EXCEPT !.rooms = GFREEID_FREE(@, r)]

\* Mutant: a room nobody came to is kept.
CheckEnterWaits(w, r) ==
    LET room == Room(w, r) IN
    IF room.status # "CREATE" \/ room.age = 0 \/ _count_loadokmember(w, r) # MEMBER_MAX
    THEN w ELSE SetStatus(w, r, "ENTER")

\* Age 1 is past ENTER_TIMELEAST, age 2 past ENTER_TIMEOUT.
_check_enter_room(w, r) ==
    LET room == Room(w, r) IN
    CASE room.status # "CREATE" \/ room.age = 0 -> w
      [] room.status = "CREATE" /\ room.age > 0 /\ _count_loadokmember(w, r) = MEMBER_MAX ->
           SetStatus(w, r, "ENTER")
      [] OTHER ->
           IF room.age < 2 THEN w
           ELSE IF _count_onlinemember(w, r) > 0 THEN SetStatus(w, r, "ENTER")
           ELSE _destory_room(w, r)

_check_start_room(w, r) == IF Room(w, r).age > 0 THEN SetStatus(w, r, "START") ELSE w

\* Mutant: the room's status stays what it was.
GameoverKeepsStatus(w, r) == [w EXCEPT !.overs[Room(w, r).key] = IF @ < 2 THEN @ + 1 ELSE @]

\* History: a game that is over before it has begun, or again.
_gameover(w, r) ==
    LET v == NoteIf(w, "pressed", Room(w, r).status # "START")
    IN [SetStatus(v, r, "OVER") EXCEPT !.overs[Room(w, r).key] = @ + 1]

_check_over_room(w, r) ==
    CASE _count_onlinemember(w, r) = 0 -> _destory_room(w, r)
      [] OTHER -> IF \E k \in Present(w, r) : Member(w, r, k).attri.oxygen = 0
                  THEN _gameover(w, r) ELSE w

_check_destory_room(w, r) == IF Room(w, r).age > 0 THEN _destory_room(w, r) ELSE w

-----------------------------------------------------------------------------
\* Oxygen and items.

_reduce_oxygen(w, r, k) ==
    [w EXCEPT !.rooms.p[r + 1].data.p[k].attri.oxygen = IF @ > 0 THEN @ - 1 ELSE 0]

\* What an attribute becomes: oxygen is at most what it was to begin with.
_effect(old, type, value) ==
    IF old + value < 0 THEN 0
    ELSE IF type = "oxygen" /\ old + value > Oxygen THEN Oxygen ELSE old + value

_item_effectone(w, r, k, type, value) ==
    [w EXCEPT !.rooms.p[r + 1].data.p[k].attri[type] = _effect(@, type, value)]

\* Mutant: an item that has effect takes effect again.
EffectAgain(w, r, k, item) ==
    LET m == Member(w, r, k)
        diff == _effect(m.attri[item.type], item.type, item.value) - m.attri[item.type]
        buffed == [w EXCEPT !.rooms.p[r + 1].data.p[k].buffs = @ \cup {[item |-> item, diff |-> diff]}]
    IN IF item.time /\ ~ m.maps THEN Fail(w, "null")
       ELSE _item_effectone(IF item.time THEN buffed ELSE w, r, k, item.type, item.value)

\* An item that lasts is kept in the target's buffmap with what it has changed;
\* used again before it has ended, it only lasts longer.
_item_effect_member(w, r, k, item) ==
    LET m == Member(w, r, k)
        diff == _effect(m.attri[item.type], item.type, item.value) - m.attri[item.type]
        buffed == [w EXCEPT !.rooms.p[r + 1].data.p[k].buffs = @ \cup {[item |-> item, diff |-> diff]}]
    IN IF item.time /\ ~ m.maps THEN Fail(w, "null")
       ELSE IF \E b \in m.buffs : b.item = item THEN w
       ELSE _item_effectone(IF item.time THEN buffed ELSE w, r, k, item.type, item.value)

_get_effect_members(w, r, k, target) ==
    CASE target = "SELF" -> {k}
      [] target = "ENEMY" -> Present(w, r) \ {k}
      [] target = "ALL" -> Present(w, r)

_item_effect(w, r, k, item) ==
    FoldSet(LAMBDA j, v : _item_effect_member(v, r, j, item), w,
            _get_effect_members(w, r, k, item.target))

_item_delay(w, r, k, item) ==
    IF ~ Member(w, r, k).maps THEN Fail(w, "null")
    ELSE [w EXCEPT !.rooms.p[r + 1].data.p[k].delays = @ \cup {item}]

_use_item(w, r, k, item) ==
    IF _get_effect_members(w, r, k, item.target) = {} THEN w
    ELSE IF item.delay THEN _item_delay(w, r, k, item) ELSE _item_effect(w, r, k, item)

\* What was used with delay takes effect once its time has come.
_update_delay(w, r, ended) ==
    LET late(v, k) ==
            IF ~ Member(v, r, k).online THEN v
            ELSE IF ~ Member(v, r, k).maps THEN Fail(v, "null")
            ELSE FoldSet(LAMBDA item, u : _item_effect(u, r, k, item),
                         [v EXCEPT !.rooms.p[r + 1].data.p[k].delays = @ \ ended],
                         Member(v, r, k).delays \cap ended)
    IN FoldLeft(late, w, <<1, 2>>)

\* What a buff has changed is taken back when it ends.  History: not all of it can
\* be taken back.
_update_buffcb(w, r, k, b) ==
    LET old == Member(w, r, k).attri[b.item.type]
        cut == _effect(old, b.item.type, - b.diff) # old - b.diff
    IN [_item_effectone(NoteIf(w, "cut", cut), r, k, b.item.type, - b.diff)
            EXCEPT !.rooms.p[r + 1].data.p[k].buffs = @ \ {b}]

_update_room(w, r, ended) ==
    LET one(v, k) ==
            IF ~ Member(v, r, k).online THEN v
            ELSE IF ~ Member(v, r, k).maps THEN Fail(v, "null")
            ELSE FoldSet(LAMBDA b, u : _update_buffcb(u, r, k, b), _reduce_oxygen(v, r, k),
                         {b \in Member(v, r, k).buffs : b.item \in ended})
    IN FoldLeft(one, w, <<1, 2>>)

-----------------------------------------------------------------------------
\* The gate, and what clients send: forward to game_usermsg and game_net.

Accept(c) ==
    /\ client[c] = "FREE"
    /\ Becomes([State EXCEPT !.client[c] = "CONNECTED"])
    /\ UNCHANGED <<created, tick, uses>>

\* NETE_SOCKERR, and NETE_TIMEOUT of a client that is silent.
Closed(c) ==
    /\ client[c] # "FREE"
    /\ Becomes(Disconnected(IF client[c] = "LOGINED" THEN _logout(State, c, FALSE) ELSE State, c))
    /\ UNCHANGED <<created, tick, uses>>

Refused(w, r, key, charid) ==
    \/ ~ HasRoom(w, r)
    \/ Room(w, r).key # key
    \/ _getmember(w, r, charid) = 0
    \/ Room(w, r).status = "OVER"

\* History: a client that has logged in is closed by a login that fails; a member
\* comes back, or comes while it is there.
_login(w, c, r, key, charid) ==
    LET k == _getmember(w, r, charid)
        m == Member(w, r, k)
        noted == NoteIf(NoteIf(w, "back", m.login /\ ~ m.online), "shared", m.online)
        joined == [noted EXCEPT
                     !.client[c] = "LOGINED",
                     !.players[c] = [login |-> TRUE, roomid |-> r, charid |-> charid],
                     !.rooms.p[r + 1].data.p[k] = [m EXCEPT !.login = TRUE, !.online = TRUE,
                                                           !.connid = c],
                     !.came = @ \cup {key}]
    IN CASE Refused(w, r, key, charid) ->
              Disconnected(NoteIf(w, "left", w.players[c].login), c)
         [] ~ Refused(w, r, key, charid) /\ w.players[c].login -> Fail(w, "assert")
         [] OTHER -> _check_enter_room(joined, r)

\* A client knows the key of a room, which may be gone.
Login(c, r, key, charid) ==
    /\ client[c] # "FREE" /\ key < created
    /\ Becomes(_login(State, c, r, key, charid))
    /\ UNCHANGED <<created, tick, uses>>

Logout(c) ==
    /\ client[c] # "FREE" /\ players[c].login
    /\ Becomes(_logout(State, c, TRUE))
    /\ UNCHANGED <<created, tick, uses>>

\* _locate_player
Located(c) ==
    /\ client[c] # "FREE" /\ players[c].login
    /\ HasRoom(State, players[c].roomid)
    /\ _getmember(State, players[c].roomid, players[c].charid) # 0
Where(c) == players[c].roomid
Which(c) == _getmember(State, players[c].roomid, players[c].charid)

Loadok(c) ==
    /\ Located(c) /\ ~ Member(State, Where(c), Which(c)).loadok
    /\ Becomes([State EXCEPT !.rooms.p[Where(c) + 1].data.p[Which(c)].loadok = TRUE])
    /\ UNCHANGED <<created, tick, uses>>

\* _sync with a depth that reaches the ground, in whatever status the room is; a
\* second time is enough.
Sync(c) ==
    /\ Located(c) /\ overs[Room(State, Where(c)).key] < 2
    /\ Becomes(_gameover(State, Where(c)))
    /\ UNCHANGED <<created, tick, uses>>

\* _role_press
Press(c) ==
    LET w == _reduce_oxygen(State, Where(c), Which(c)) IN
    /\ Located(c) /\ overs[Room(State, Where(c)).key] < 2
    /\ Becomes(IF Member(w, Where(c), Which(c)).attri.oxygen = 0 THEN _gameover(w, Where(c)) ELSE w)
    /\ UNCHANGED <<created, tick, uses>>

UseItem(c, item) ==
    /\ Located(c) /\ uses < setting.uses
    /\ Becomes(_use_item(State, Where(c), Which(c), item))
    /\ uses' = uses + 1
    /\ UNCHANGED <<created, tick>>

\* _handle_creategame, with a map there is.
Create(team) ==
    LET member(k) == [NoMember EXCEPT !.charid = team[k], !.maps = TRUE,
                                             !.attri = [oxygen |-> Oxygen, quick |-> Quick]]
        r == NextSlot(rooms)
        gf == GFREEID_ALLOC(rooms, NoRoom)
    IN /\ created < setting.rooms
       /\ Becomes([State EXCEPT !.rooms = [gf EXCEPT !.p[r + 1].data =
                       [NoRoom EXCEPT !.key = created, !.p = <<member(1), member(2)>>]]])
       /\ created' = created + 1
       /\ UNCHANGED <<tick, uses>>

-----------------------------------------------------------------------------
\* Time: a status lasts, and game_time comes, which looks at the rooms' status every
\* tenth time.

MaxAge(status) ==
    CASE status = "CREATE" -> 2 [] status \in {"ENTER", "OVER"} -> 1 [] status = "START" -> 0

Age(r) ==
    /\ HasRoom(State, r) /\ Room(State, r).age < MaxAge(Room(State, r).status)
    /\ Becomes([State EXCEPT !.rooms.p[r + 1].data.age = @ + 1])
    /\ UNCHANGED <<created, tick, uses>>

ByStatus(w, r, ended) ==
    CASE Room(w, r).status = "CREATE" -> _check_enter_room(w, r)
      [] Room(w, r).status = "ENTER" -> _check_start_room(w, r)
      [] Room(w, r).status = "START" -> _check_over_room(_update_room(w, r, ended), r)
      [] Room(w, r).status = "OVER" -> _check_destory_room(w, r)

\* The time of the items in ended has come.  History: nobody is left in a game that
\* has begun.
Time(ended) ==
    LET full == (tick + 1) % Ticks = 0
        one(w, r) ==
            LET v == IF full THEN ByStatus(w, r, ended) ELSE w IN
            IF HasRoom(v, r) /\ Room(v, r).status = "START"
            THEN _update_delay(NoteIf(v, "deserted", Present(v, r) = {}), r, ended)
            ELSE v
    IN /\ Becomes(FoldLeft(one, State, SetToSortSeq(UsedSlots(rooms), <)))
       /\ tick' = (tick + 1) % Ticks
       /\ UNCHANGED <<created, uses>>

InUse == UNION {UNION {Member(State, r, k).delays \cup {b.item : b \in Member(State, r, k).buffs} :
                       k \in 1 .. MEMBER_MAX} : r \in UsedSlots(rooms)}

Next ==
    \/ \E c \in setting.conns :
         \/ Accept(c)
         \/ Closed(c)
         \/ \E r \in UsedSlots(rooms) \cup {0}, key \in Keys, charid \in Chars : Login(c, r, key, charid)
         \/ Logout(c)
         \/ Loadok(c)
         \/ Sync(c)
         \/ Press(c)
         \/ \E item \in Items : UseItem(c, item)
    \/ \E team \in Teams : Create(team)
    \/ \E r \in UsedSlots(rooms) : Age(r)
    \/ \E ended \in SUBSET InUse : Time(ended)

Spec == Init /\ [][Next]_vars

\* The timer comes as long as the process runs, and time passes.
FairSpec ==
    /\ Spec
    /\ <>[](abort # "none") \/ []<><<tick' # tick>>_tick
    /\ \A r \in RoomIds : WF_rooms(r \in UsedSlots(rooms) /\ Age(r))

-----------------------------------------------------------------------------
MemberType == [charid : Chars \cup {"-"}, login : BOOLEAN, online : BOOLEAN, loadok : BOOLEAN,
               connid : Conns \cup {NoConn}, maps : BOOLEAN,
               attri : [oxygen : 0 .. Oxygen, quick : Nat],
               delays : SUBSET Items, buffs : SUBSET [item : Items, diff : Int]]

TypeOK ==
    /\ setting \in Settings /\ client \in [Conns -> {"FREE", "CONNECTED", "LOGINED"}]
    /\ players \in [Conns -> [login : BOOLEAN, roomid : RoomIds, charid : Chars \cup {"-"}]]
    /\ GfreeidType(rooms, [key : -1 .. MaxRooms - 1, status : {"CREATE", "ENTER", "START", "OVER"},
                           age : 0 .. 2, p : MemberType \X MemberType])
    /\ created \in 0 .. MaxRooms /\ overs \in [Keys -> 0 .. 2] /\ came \subseteq Keys
    /\ tick \in 0 .. Ticks - 1 /\ uses \in 0 .. setting.uses /\ abort \in {"none", "assert", "null"}
    /\ mishaps \subseteq {"left", "back", "shared", "pressed", "deserted", "cut"}

Exists(key) == \E r \in UsedSlots(rooms) : Room(State, r).key = key

\* A member is online exactly as long as one client is logged in as it, the one
\* that messages for it are sent to, and nobody is logged in to a room that is
\* gone.
OnlineIsPlayer ==
    mishaps \cap {"left", "shared"} = {} =>
        /\ \A r \in UsedSlots(rooms), k \in 1 .. MEMBER_MAX :
             LET m == Member(State, r, k)
                 as == {c \in Conns : players[c] = [login |-> TRUE, roomid |-> r,
                                                    charid |-> m.charid]}
             IN as = IF m.online THEN {m.connid} ELSE {}
        /\ \A c \in Conns : players[c].login => Located(c) /\ client[c] = "LOGINED"

PlayersAreMembers == TypeOK /\ OnlineIsPlayer

\* A member's quick is what it was to begin with and what its buffs have changed: a
\* buff that has ended leaves nothing behind.  (It does when it ended at the limit.)
BuffsEnd ==
    "cut" \notin mishaps =>
        \A r \in UsedSlots(rooms), k \in 1 .. MEMBER_MAX :
            LET m == Member(State, r, k)
            IN m.maps => m.attri.quick = Quick + MapThenSumSet(LAMBDA b : b.diff,
                                                    {b \in m.buffs : b.item.type = "quick"})

\* Maps that are gone are dereferenced only after a member came back, came twice, or left its login to the
\* next client.
NullCause == abort = "null" => mishaps \cap {"back", "shared", "left"} # {}

\* Every room that somebody came to is reported to the world once before it is
\* gone, and none is reported that is not over.
ReportedOnce ==
    "pressed" \notin mishaps =>
        \A key \in 0 .. created - 1 :
            overs[key] = IF \/ \E r \in UsedSlots(rooms) : Room(State, r).key = key /\ Room(State, r).status = "OVER"
                            \/ key \in came /\ ~ Exists(key)
                         THEN 1 ELSE 0

\* Every room comes to its end, if there is somebody left in it.
RoomEnds == \A key \in Keys : Exists(key) ~> (~ Exists(key) \/ mishaps # {} \/ abort # "none")
=============================================================================

------------------------------- MODULE Match -------------------------------
(***************************************************************************)
(* Matching in the world node: service_gamematch.c on the table of players *)
(* (world/player.c) and the registry of game nodes (sc_node.c), with       *)
(* awardlogic's share of a game that is over.                              *)
(*                                                                         *)
(* Who asks to play waits for another; the two get a room that a game node *)
(* is asked to create, and are told where it is when the node answers.     *)
(* Module World has how players log in, Room what a game node does; here a *)
(* login is three steps, and a game node answers and ends rooms when it    *)
(* likes.  It may stop, and what was on its connection is lost.            *)
(***************************************************************************)
EXTENDS Freeid, Hashid, Gfreeid, NodeTable, FiniteSets

CONSTANTS Chars,     \* characters; nobody is two connections' at once
          Settings,  \* games: the numbers of the game nodes, stops: of those that may
                     \* stop and start again; bounds: logins, and kinds of mishaps
          MaxKey,    \* bound: rooms asked for
          MaxWire    \* bound: messages from a game node

\* A node with a lower number than another does not come back: that hides the
\* other (Nodes).
ASSUME MatchAssumption ==
    /\ LowHeap
    /\ 0 \notin Chars /\ MaxKey \in Nat \ {0} /\ MaxWire \in Nat \ {0}
    /\ Settings \subseteq [games : SUBSET Nat, stops : SUBSET Nat, logins : Nat, mishaps : Nat]
    /\ \A s \in Settings : s.stops \subseteq s.games /\ \A g \in s.stops, h \in s.games : h <= g

VARIABLES setting, \* one of Settings
          ph,      \* the players: fi by connection, hi by character
          gm,      \* struct gamematch: mtag, creating and the next key
          reg,     \* the registry of nodes
          game,    \* the game nodes: whether they run, and the messages both ways
          logins,  \* how many there were
          mishaps, \* history: what the code does not take into account
          wrong    \* history: what went to the wrong player

vars == <<setting, ph, gm, reg, game, logins, mishaps, wrong>>

Games == UNION {s.games : s \in Settings}
NODE_GAME == 5
Node(g) == <<NODE_GAME, g>>
ConnOfGame(g) == g + 1
MEMBER_MAX == 2
RoomIds == 0 .. MaxKey - 1

Statuses == {"FREE", "LOADCHAR", "GAME", "WAITING", "CREATING", "ROOM"}
player == [conn |-> 0, charid |-> 0, status |-> "FREE", loaded |-> FALSE]
NoTag == [conn |-> 0, charid |-> 0]
NoRoom == [key |-> -1, sid |-> 0, mtag |-> <<NoTag, NoTag>>]
Down == [up |-> FALSE, in |-> <<>>, rooms |-> {}, out |-> <<>>]
Up == [Down EXCEPT !.up = TRUE]

Joining(g) == [id |-> Node(g), connid |-> ConnOfGame(g), load |-> 0]
Registered(r, g) == sc_node_register(r, Joining(g), _init_node)

Init ==
    /\ setting \in Settings
    /\ ph = [fi |-> freeid_init, hi |-> hashid_init(Cap), p |-> [i \in Ids |-> player]]
    /\ gm = [mtag |-> NoTag, creating |-> GFREEID_INIT(1, NoRoom), key |-> 0]
    /\ reg = FoldLeft(Registered, sc_node_register_types({NODE_GAME}),
                      SetToSortSeq(setting.games, <))
    /\ game = [g \in Games |-> IF g \in setting.games THEN Up ELSE Down]
    /\ logins = 0
    /\ mishaps = {}
    /\ wrong = {}

State == [ph |-> ph, gm |-> gm, reg |-> reg, game |-> game, mishaps |-> mishaps, wrong |-> wrong]
Becomes(w) ==
    /\ Cardinality(w.mishaps) <= setting.mishaps
    /\ UNCHANGED setting
    /\ ph' = w.ph
    /\ gm' = w.gm
    /\ reg' = w.reg
    /\ game' = w.game
    /\ mishaps' = w.mishaps
    /\ wrong' = w.wrong

Note(w, what) == [w EXCEPT !.mishaps = @ \cup {what}]
NoteIf(w, what, cond) == IF cond THEN Note(w, what) ELSE w
SetStatus(w, i, status) == [w EXCEPT !.ph.p[i].status = status]

-----------------------------------------------------------------------------
\* world/player.c.  A character's player is the one whose slot its hashid has.

_getplayer(w, conn) == freeid_find(w.ph.fi, conn)
_getplayerbycharid(w, charid) == IF charid = 0 THEN -1 ELSE hashid_find(w.ph.hi, charid)

Diverged(w) == \E i \in Ids : w.ph.p[i].charid # 0 /\ _getplayerbycharid(w, w.ph.p[i].charid) # i

_freeplayer(w, i) ==
    LET p == w.ph.p[i] IN
    [w EXCEPT !.ph.fi = freeid_free(@, p.conn), !.ph.hi = hashid_free(@, p.charid),
              !.ph.p[i] = player]

-----------------------------------------------------------------------------
\* service_gamematch.c, rooms that are being created.

Room(w, id) == Data(w.gm.creating, id)
UsedRooms(w) == UsedSlots(w.gm.creating)

_build_matchtag(w, i) == [conn |-> w.ph.p[i].conn, charid |-> w.ph.p[i].charid]

\* The player a tag is of, -1 if it is gone.
_get_tmpmembers(w, tag) ==
    LET i == _getplayer(w, tag.conn) IN
    IF i # -1 /\ w.ph.p[i].charid = tag.charid THEN i ELSE -1

Members(w, room) == {_get_tmpmembers(w, room.mtag[k]) : k \in 1 .. MEMBER_MAX} \ {-1}

\* p->roomid is assigned nowhere.
_del_tmpmember(w, i) ==
    LET cleared(tag) == IF tag.charid = w.ph.p[i].charid THEN NoTag ELSE tag
        tags == Room(w, 0).mtag
    IN IF ~ Holds(w.gm.creating, 0) THEN w
       ELSE [w EXCEPT !.gm.creating.p[1].data.mtag = <<cleared(tags[1]), cleared(tags[2])>>]

_del_waitmember(w, i) ==
    IF w.ph.p[i].charid = w.gm.mtag.charid THEN [w EXCEPT !.gm.mtag = NoTag] ELSE w

_calcload == 2

\* Mutant: an error takes no load back.
DestroyKeepsLoad(w, id, err) ==
    LET room == Room(w, id)
        status == IF err = "OK" THEN "ROOM" ELSE "GAME"
        v == FoldSet(LAMBDA i, u : SetStatus(u, i, status), w, Members(w, room))
    IN [v EXCEPT !.gm.creating = GFREEID_FREE(@, id)]

\* Whom the room's address is sent to are its members, if the node is there.
_destroy_tmproom(w, id, err) ==
    LET room == Room(w, id)
        status == IF err = "OK" THEN "ROOM" ELSE "GAME"
        there == sc_node_is_register(w.reg, Node(room.sid))
        v == FoldSet(LAMBDA i, u : SetStatus(u, i, status), w, Members(w, room))
    IN [v EXCEPT !.gm.creating = GFREEID_FREE(@, id),
                 !.reg = IF there /\ err # "OK"
                         THEN sc_node_updateload(@, Node(room.sid), -_calcload) ELSE @]

\* Rooms are created in the order of their keys: the ones that are too old are
\* those below some key.  What has timed out is no error to _destroy_tmproom.
_timeout_tmproom(w, limit) ==
    FoldLeft(LAMBDA v, id : _destroy_tmproom(v, id, "OK"), w,
             SetToSortSeq({id \in UsedRooms(w) : Room(w, id).key < limit}, <))

\* _match with _create_tmproom, once there is a node.
_match(w, i, j) ==
    LET sid == sc_node_minload(w.reg.arr[NODE_GAME])
        room == [key |-> w.gm.key, sid |-> sid,
                 mtag |-> <<_build_matchtag(w, i), _build_matchtag(w, j)>>]
        id == NextSlot(w.gm.creating)
        create == [id |-> id, key |-> room.key, chars |-> <<w.ph.p[i].charid, w.ph.p[j].charid>>]
        gf == GFREEID_ALLOC(w.gm.creating, NoRoom)
        moved == [w.reg EXCEPT !.arr[NODE_GAME] = MinloadMoves(@)]
    IN [w EXCEPT !.gm.creating = [gf EXCEPT !.p[id + 1].data = room], !.gm.key = @ + 1,
                 !.game[sid].in = Append(@, create),
                 !.reg = sc_node_updateload(moved, Node(sid), _calcload)]

_lookup(w, i) ==
    LET j == _getplayerbycharid(w, w.gm.mtag.charid)
        v == [w EXCEPT !.gm.mtag = NoTag]
    IN CASE j = -1 -> [SetStatus(w, i, "WAITING") EXCEPT !.gm.mtag = _build_matchtag(w, i)]
         [] j # -1 /\ sc_node_minload(w.reg.arr[NODE_GAME]) = -1 ->
              SetStatus(SetStatus(v, i, "GAME"), j, "GAME")
         [] OTHER -> SetStatus(SetStatus(_match(v, i, j), i, "CREATING"), j, "CREATING")

\* Mutant: who waits and leaves is not forgotten.
LogoutKeepsTag(w, i) == IF w.ph.p[i].status = "CREATING" THEN _del_tmpmember(w, i) ELSE w

\* gamematch_usermsg, IDUM_LOGOUT.
_logout(w, i) ==
    CASE w.ph.p[i].status = "WAITING" -> _del_waitmember(w, i)
      [] w.ph.p[i].status = "CREATING" -> _del_tmpmember(w, i)
      [] OTHER -> w

\* Mutant: the slot alone says which room the answer is about.
CreateroomAnyKey(w, g, m) ==
    IF Holds(w.gm.creating, m.id) THEN _destroy_tmproom(w, m.id, m.err) ELSE w

_oncreateroom(w, g, m) ==
    LET ours == /\ Holds(w.gm.creating, m.id)
                /\ Room(w, m.id).key = m.key /\ Room(w, m.id).sid = g
    IN IF ours THEN _destroy_tmproom(w, m.id, m.err)
       ELSE NoteIf(w, "late", m.err # "OK")

\* Mutant: the awards in the reverse order.
AwardedReversed(w, awards) ==
    LET found == SelectSeq([k \in DOMAIN awards |-> _getplayerbycharid(w, awards[k])],
                           LAMBDA i : i # -1)
    IN {<<w.ph.p[found[Len(found) + 1 - k]].charid, awards[k]>> : k \in DOMAIN found}

\* awardlogic_service: the awards in order, the players found in order.
Awarded(w, awards) ==
    LET found == SelectSeq([k \in DOMAIN awards |-> _getplayerbycharid(w, awards[k])],
                           LAMBDA i : i # -1)
    IN {<<w.ph.p[found[k]].charid, awards[k]>> : k \in DOMAIN found}

_onoverroom(w, g, m) ==
    LET v == [w EXCEPT !.reg = sc_node_updateload(@, Node(g), -_calcload)]
        gone == \E k \in DOMAIN m.awards : _getplayerbycharid(w, m.awards[k]) = -1
        astray == \E pair \in Awarded(w, m.awards) : pair[1] # pair[2]
    IN [NoteIf(v, "gone", gone) EXCEPT !.wrong = IF astray THEN @ \cup {"award"} ELSE @]

-----------------------------------------------------------------------------
\* Actions.  What comes from the gates.

Running(i) == ph.fi.slots[ph.p[i].conn] = i

\* History: a member left and is loading again on the same connection, or a tag
\* that is cleared looks like the player who has logged in on the first one.
Mistakable(w) ==
    LET tags == UNION {ToSet(Room(w, id).mtag) : id \in UsedRooms(w)}
        loading == {i \in Ids : _getplayer(w, w.ph.p[i].conn) = i /\ ~ w.ph.p[i].loaded}
    IN NoteIf(w, "returned", \E i \in loading : _build_matchtag(w, i) \in tags)

\* _login of service_world.c.
Login(conn) ==
    LET i == AllocId(ph.fi, conn) IN
    /\ logins < setting.logins /\ i # -1 /\ _getplayer(State, conn) = -1
    /\ Becomes(Mistakable([State EXCEPT !.ph.fi = freeid_alloc(@, conn), !.ph.p[i].conn = conn]))
    /\ logins' = logins + 1

\* PDB_QUERY is answered.
Found(i, charid) ==
    LET w == [State EXCEPT !.ph.hi = hashid_alloc(@, charid), !.ph.p[i].charid = charid,
                           !.ph.p[i].status = "LOADCHAR"]
    IN /\ Running(i) /\ ph.p[i].charid = 0 /\ charid \notin UsedIds(ph.hi)
       /\ Becomes(Mistakable(NoteIf(w, "diverged", Diverged(w))))
       /\ UNCHANGED logins

\* PDB_LOAD is answered.
Loaded(i) ==
    /\ Running(i) /\ ph.p[i].charid # 0 /\ ~ ph.p[i].loaded
    /\ Becomes([State EXCEPT !.ph.p[i].status = "GAME", !.ph.p[i].loaded = TRUE])
    /\ UNCHANGED logins

\* _playreq.  Nobody asks for the player's status: it may not be loaded, or be
\* waiting already.  After a game it is ROOM for good.
Play(i) ==
    LET early == NoteIf(State, "early", ~ ph.p[i].loaded)
        w == NoteIf(early, "again", ph.p[i].status \in {"WAITING", "CREATING"})
    IN /\ Running(i) /\ gm.key < MaxKey
       /\ Becomes(_lookup(w, i))
       /\ UNCHANGED logins

Logout(i) ==
    /\ Running(i) /\ ph.p[i].status # "FREE"
    /\ Becomes(Mistakable(_freeplayer(_logout(State, i), i)))
    /\ UNCHANGED logins

\* UM_LOGIN on a connection that has a player: matching is not told.
Relogin(i) ==
    /\ Running(i) /\ ph.p[i].status # "FREE"
    /\ Becomes(_freeplayer(Note(State, "relogin"), i))
    /\ UNCHANGED logins

\* gamematch_time.
Timer(limit) ==
    /\ \E id \in UsedRooms(State) : Room(State, id).key < limit
    /\ Becomes(_timeout_tmproom(State, limit))
    /\ UNCHANGED logins

\* gamematch_nodemsg.  History: players are sent to a room that is not theirs.
FromGame(g) ==
    LET m == Head(game[g].out)
        w == [State EXCEPT !.game[g].out = Tail(@)]
        v == _oncreateroom(w, g, m)
        freed == UsedRooms(w) \ UsedRooms(v)
        sent == UNION {{w.ph.p[i].charid : i \in Members(w, Room(w, id))} : id \in freed}
    IN /\ game[g].out # <<>>
       /\ Becomes(IF m.type = "OVER" THEN _onoverroom(w, g, m)
                  ELSE [v EXCEPT !.wrong = IF sent \subseteq ToSet(m.chars) THEN @
                                           ELSE @ \cup {"room"}])
       /\ UNCHANGED logins

-----------------------------------------------------------------------------
\* The game nodes: _handle_creategame, _gameover, rooms that go without it.

GameCreates(g, roomid, err) ==
    LET m == Head(game[g].in)
        room == [roomid |-> roomid, chars |-> m.chars]
        res == [type |-> "RES", id |-> m.id, key |-> m.key, err |-> err, chars |-> m.chars]
    IN /\ game[g].in # <<>> /\ Len(game[g].out) < MaxWire
       /\ \A r \in game[g].rooms : r.roomid # roomid
       /\ Becomes([State EXCEPT !.game[g].in = Tail(@), !.game[g].out = Append(@, res),
                                !.game[g].rooms = IF err = "OK" THEN @ \cup {room} ELSE @])
       /\ UNCHANGED logins

\* Awards are in the order of the ranks.  The message may come twice (Room), once
\* being enough.
GameOver(g, room, awards, again) ==
    /\ again => "twice" \notin mishaps
    /\ room \in game[g].rooms /\ Len(game[g].out) < MaxWire
    /\ Becomes([NoteIf(State, "twice", again) EXCEPT
                  !.game[g].rooms = IF again THEN @ ELSE @ \ {room},
                  !.game[g].out = Append(@, [type |-> "OVER", awards |-> awards])])
    /\ UNCHANGED logins

GameDrops(g, room) ==
    /\ room \in game[g].rooms
    /\ Becomes([Note(State, "dropped") EXCEPT !.game[g].rooms = @ \ {room}])
    /\ UNCHANGED logins

GameStops(g) ==
    /\ g \in setting.stops /\ game[g].up
    /\ Becomes([State EXCEPT !.game[g] = Down, !.reg = sc_node_disconnect(@, ConnOfGame(g))])
    /\ UNCHANGED logins

GameStarts(g) ==
    /\ g \in setting.games /\ ~ game[g].up
    /\ Becomes([State EXCEPT !.game[g] = Up, !.reg = Registered(@, g)])
    /\ UNCHANGED logins

Next ==
    \/ \E conn \in Hashes : Login(conn)
    \/ \E i \in Ids :
         \/ \E charid \in Chars : Found(i, charid)
         \/ Loaded(i)
         \/ Play(i)
         \/ Logout(i)
         \/ Relogin(i)
    \/ \E limit \in 1 .. MaxKey : Timer(limit)
    \/ \E g \in Games :
         \/ FromGame(g)
         \/ \E roomid \in RoomIds : \E err \in {"OK", "CRENOMAP"} : GameCreates(g, roomid, err)
         \/ \E room \in game[g].rooms :
              \/ \E awards \in {room.chars, Reverse(room.chars)}, again \in BOOLEAN :
                   GameOver(g, room, awards, again)
              \/ GameDrops(g, room)
         \/ GameStops(g)
         \/ GameStarts(g)

Spec == Init /\ [][Next]_vars
-----------------------------------------------------------------------------
Tags == [conn : Hashes, charid : {0} \cup Chars]

TypeOK ==
    /\ ph.fi \in FreeidType /\ HashidType(ph.hi, Chars, Ids)
    /\ ph.p \in [Ids -> [conn : Hashes, charid : {0} \cup Chars, status : Statuses,
                         loaded : BOOLEAN]]
    /\ gm.mtag \in Tags /\ gm.key \in 0 .. MaxKey
    /\ GfreeidType(gm.creating, [key : -1 .. MaxKey, sid : {0} \cup Games, mtag : Tags \X Tags])
    /\ \A id \in UsedRooms(State) : Room(State, id).key < gm.key
    /\ \A g \in setting.games : Slot(reg, Node(g)).load \in Int /\ (game[g].up \/ game[g] = Down)
    /\ mishaps \subseteq {"early", "again", "diverged", "relogin", "returned", "late", "gone", "twice",
                          "dropped"}

Clean == mishaps \cap {"early", "again", "diverged", "relogin", "returned"} = {}

\* The one that waits is the one whose tag is kept, and nobody else waits: who
\* waits will be matched.
WaitingIsTag ==
    Clean => \A i \in Ids :
        ph.p[i].status = "WAITING" <=> gm.mtag # NoTag /\ gm.mtag = _build_matchtag(State, i)

\* Players are shown a room being created exactly as long as there is one of
\* theirs, it is one, and it is two players'.
CreatingHasRoom ==
    Clean => \A i \in Ids :
        LET of == {id \in UsedRooms(State) : i \in Members(State, Room(State, id))} IN
        /\ ph.p[i].status = "CREATING" <=> of # {}
        /\ \A id \in of : of = {id} /\ Room(State, id).mtag[1] # Room(State, id).mtag[2]

\* Matching changes the status of players in the game only: not of one that is
\* still loading.
StatusIsOfLoaded ==
    Clean =>
        \A i \in Ids : ph.p[i].status \notin {"FREE", "LOADCHAR"} => ph.p[i].loaded

\* The statuses of the players and what matching has of them agree.
StatusIsExact == TypeOK /\ WaitingIsTag /\ CreatingHasRoom /\ StatusIsOfLoaded

\* Who is sent to a room that was created is a member of it there.
RoomIsTheirs == "room" \in wrong => mishaps \cap {"early", "diverged", "returned"} # {}

\* An award is given to the character it is for.
AwardIsOwn == "award" \in wrong => mishaps \cap {"gone", "diverged"} # {}

\* The load matching knows of a node is two for every room it has or is asked
\* for: rooms are spread over the nodes by what they have.
LoadIsRooms ==
    mishaps \cap {"late", "twice", "dropped"} = {} =>
        \A g \in Games : game[g].up =>
            LET ends(m) == m.type = "OVER" \/ m.err # "OK"
            IN Slot(reg, Node(g)).load =
                 _calcload * (Len(game[g].in) + Cardinality(game[g].rooms)
                                + Len(SelectSeq(game[g].out, ends)))
=============================================================================

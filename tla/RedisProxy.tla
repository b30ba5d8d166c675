----------------------------- MODULE RedisProxy -----------------------------
(***************************************************************************)
(* service/service_redisproxy.c on the parser of redis/redis.c: a queue of *)
(* callers against the replies of a pipelined link that can break.         *)
(*                                                                         *)
(* Commands are numbered as they reach the proxy; the reply to command q   *)
(* is two pieces, so that a read can end inside a reply, and buffer sizes  *)
(* count pieces.  A failed assert() ends the process: abort names it.      *)
(***************************************************************************)
EXTENDS Integers, Sequences, SequencesExt

CONSTANTS Conns,      \* the sockets the table has left for links to redis
          Cap,        \* bufcap of redis_initreply
          MaxQuery,   \* bound: commands sent to the proxy
          MaxCommand, \* bound: commands of one UM_REDISQUERY
          MaxBatch    \* bound: messages of one poll that concern the proxy

ASSUME ProxyAssumption ==
    /\ Conns \subseteq Nat /\ Conns # {}
    /\ Cap \in Nat /\ Cap >= 2          \* a reply fits into the buffer
    /\ MaxQuery \in Nat /\ MaxCommand \in Nat \ {0} /\ MaxBatch \in Nat \ {0}

NONE == -1       \* connid while the proxy has no link

VARIABLES proxy,    \* struct redisproxy: connid and queryq, and the assert that failed
          reader,   \* reply.reader; sz is Len(buf)
          link,     \* the sockets, with the kernel's and redis' side of them
          loop,     \* where the event loop stands, and the messages left of the batch
          nquery,   \* commands numbered so far
          answer,   \* history: the last UM_REDISREPLY, to whom and with which reply
          mishaps   \* history: what has happened to the order of replies

vars == <<proxy, reader, link, loop, nquery, answer, mishaps>>

Queries == 1 .. MaxQuery
Piece == [q : Queries, last : BOOLEAN]
ReplyTo(q) == <<[q |-> q, last |-> FALSE], [q |-> q, last |-> TRUE]>>
RepliesTo(qs) == [j \in 1 .. 2 * Len(qs) |-> ReplyTo(qs[(j + 1) \div 2])[2 - (j % 2)]]

querylink == [q : Queries, needreply : BOOLEAN]
Asserts == {"none", "pos_last", "connid", "ql"}

FreeLink == [status |-> "INVALID", todo |-> <<>>, pipe |-> <<>>, eof |-> FALSE]
NewLink(status) == [FreeLink EXCEPT !.status = status]

EmptyReader == [buf |-> <<>>, pos |-> 0, pos_last |-> 0]

Message(type, id) == [type |-> type, id |-> id]

\* redisproxy_init connects before the loop starts, or fails to start.
Init ==
    /\ \E c \in Conns :
         /\ proxy = [connid |-> c, queryq |-> <<>>, abort |-> "none"]
         /\ link = [d \in Conns |-> IF d = c THEN NewLink("CONNECTED") ELSE FreeLink]
    /\ reader = EmptyReader
    /\ loop = [pc |-> "poll", ne |-> <<>>]
    /\ nquery = 0
    /\ answer = [to |-> 0, reply |-> 0]
    /\ mishaps = {}

Running == proxy.abort = "none"

Abort(assert) ==
    /\ proxy' = [proxy EXCEPT !.abort = assert]
    /\ loop' = [pc |-> "abort", ne |-> <<>>]

-----------------------------------------------------------------------------
\* The poll.  net_poll builds every message of a batch before the first one
\* is dispatched.

\* A connection attempt ends; a stream is read when there is something to read
\* or it broke, and is closed at once when a queued write fails.
LinkEvents ==
    UNION { {Message(t, c) :
                t \in IF link[c].status = "CONNECTING" THEN {"CONNECT", "CONNERR"}
                      ELSE {e \in {"READ", "SOCKERR"} :
                               link[c].eof \/ (e = "READ" /\ link[c].pipe # <<>>)}} :
            c \in Conns }

\* UM_REDISQUERY messages of n commands come in on the links of other nodes.
NodeEvents == {Message("QUERY", n) : n \in 1 .. MaxCommand}

Batches ==
    {b \in SeqOf(LinkEvents \cup NodeEvents, MaxBatch) :
        /\ b # <<>>
        /\ \A i, j \in DOMAIN b : i # j /\ b[i].type # "QUERY" /\ b[j].type # "QUERY" =>
             b[i].id # b[j].id}

Built(batch, c) ==
    LET Has(type) == \E i \in DOMAIN batch : batch[i] = Message(type, c) IN
    IF Has("CONNECT") THEN NewLink("CONNECTED")
    ELSE IF Has("CONNERR") \/ Has("SOCKERR") THEN FreeLink
    ELSE link[c]

Poll ==
    /\ loop.pc = "poll"
    /\ \E batch \in Batches :
         /\ link' = [c \in Conns |-> Built(batch, c)]
         /\ loop' = [pc |-> "dispatch", ne |-> batch]
    /\ UNCHANGED <<proxy, reader, nquery, answer, mishaps>>

\* The handler of the head of the batch returns.
Return == loop' = [pc |-> IF Len(loop.ne) = 1 THEN "poll" ELSE "dispatch", ne |-> Tail(loop.ne)]

Dispatching(type) == loop.pc = "dispatch" /\ Head(loop.ne).type = type

-----------------------------------------------------------------------------
\* redisproxy_net

\* Mutant: only the callers are given up.
DownKeepsConnid == [proxy EXCEPT !.queryq = <<>>]

\* NETE_CONNERR and NETE_SOCKERR, of whichever link.
Down == [proxy EXCEPT !.connid = NONE, !.queryq = <<>>]

\* NETE_CONNECT does not look at what was queued or buffered while the proxy
\* had no link, nor at a link it already has.
Up(c) == [proxy EXCEPT !.connid = c]
CarriedOver == (IF proxy.queryq # <<>> THEN {"queued"} ELSE {})
               \cup (IF reader.buf # <<>> THEN {"leftover"} ELSE {})

DispatchConnect ==
    /\ Dispatching("CONNECT")
    /\ proxy' = Up(Head(loop.ne).id)
    /\ mishaps' = mishaps \cup CarriedOver
    /\ Return
    /\ UNCHANGED <<reader, link, nquery, answer>>

DispatchDown ==
    /\ Dispatching("CONNERR") \/ Dispatching("SOCKERR")
    /\ proxy' = Down
    /\ Return
    /\ UNCHANGED <<reader, link, nquery, answer, mishaps>>

\* _read runs assert(nm->connid == self->connid).
DispatchRead ==
    /\ Dispatching("READ")
    /\ IF Head(loop.ne).id = proxy.connid
       THEN loop' = [loop EXCEPT !.pc = "read"] /\ UNCHANGED proxy
       ELSE Abort("connid")
    /\ UNCHANGED <<reader, link, nquery, answer, mishaps>>

-----------------------------------------------------------------------------
\* redisproxy_nodemsg

\* Mutant: one querylink for the message instead of one for each command.
PushOne(n, needreply) == <<[q |-> nquery + 1, needreply |-> needreply]>>

Pushed(n, needreply) ==
    [i \in 1 .. n |-> [q |-> nquery + i, needreply |-> needreply]]

\* _query: every command is queued, link or not; only then is the message sent.
\* A send may find the socket closed by this poll already, or may fail, and
\* then the SOCKERR is dispatched inside it.  A query that is not well formed
\* changes nothing and is left out.
DispatchQuery ==
    /\ Dispatching("QUERY")
    /\ LET n == Head(loop.ne).id
           c == proxy.connid
       IN IF nquery + n > MaxQuery
          THEN UNCHANGED <<proxy, link, nquery, mishaps>>     \* the bound
          ELSE /\ nquery' = nquery + n
               /\ \E needreply \in BOOLEAN :
                    LET queued == [proxy EXCEPT !.queryq = @ \o Pushed(n, needreply)] IN
                    \/ /\ proxy' = queued /\ UNCHANGED mishaps
                       /\ link' = IF c # NONE /\ link[c].status = "CONNECTED" /\ ~ link[c].eof
                                  THEN [link EXCEPT ![c].todo =
                                          @ \o RepliesTo([i \in 1 .. n |-> nquery + i])]
                                  ELSE link
                    \/ /\ c # NONE /\ link[c].eof
                       /\ proxy' = Down
                       /\ link' = [link EXCEPT ![c] = FreeLink]
                       /\ mishaps' = mishaps \cup
                            (IF Contains(Tail(loop.ne), Message("READ", c)) THEN {"senderr"} ELSE {})
    /\ Return
    /\ UNCHANGED <<reader, answer>>

-----------------------------------------------------------------------------
\* _read: one action for each sc_net_readto and for each redis_getreply, since
\* redis goes on sending between two reads.

Space == Cap - Len(reader.buf)

\* errout with an error: the socket is closed and the SOCKERR handled at once.
ErrOut(c) ==
    /\ link' = [link EXCEPT ![c] = FreeLink]
    /\ proxy' = Down
    /\ Return

ReadStep ==
    /\ loop.pc = "read"
    /\ LET c == Head(loop.ne).id
           l == link[c]
           nread == IF Len(l.pipe) < Space THEN Len(l.pipe) ELSE Space
       IN \/ /\ Space > 0 /\ l.pipe # <<>>
             /\ reader' = [reader EXCEPT !.buf = @ \o SubSeq(l.pipe, 1, nread)]
             /\ link' = [link EXCEPT ![c].pipe = SubSeq(@, nread + 1, Len(@))]
             /\ loop' = [loop EXCEPT !.pc = IF nread = Space THEN "parse_full" ELSE "parse"]
             /\ UNCHANGED proxy
          \/ /\ Space <= 0 \/ (l.pipe = <<>> /\ l.eof)
             /\ ErrOut(c)
             /\ UNCHANGED reader
          \/ /\ Space > 0 /\ l.pipe = <<>> /\ ~ l.eof
             /\ Return
             /\ UNCHANGED <<reader, link, proxy>>
    /\ UNCHANGED <<nquery, answer, mishaps>>

\* What redis_getreply makes of the pieces from pos on: its result and how many
\* pieces it passes.  It does not see whose pieces they are: bytes that do not
\* belong together can look like anything, a whole reply included, such as a
\* bulk string that takes its bytes from the header of the reply that follows.
Unread == SubSeq(reader.buf, reader.pos + 1, Len(reader.buf))

redis_getreply ==
    IF Unread = <<>> THEN {<<"NEXTTIME", 0>>}
    ELSE IF Len(Unread) = 1 /\ ~ Unread[1].last THEN {<<"NEXTTIME", 1>>}
    ELSE IF Len(Unread) > 1 /\ SubSeq(Unread, 1, 2) = ReplyTo(Unread[1].q) THEN {<<"SUCCEED", 2>>}
    ELSE {<<"ERROR", 1>>, <<"NEXTTIME", 1>>} \cup {<<"SUCCEED", k>> : k \in 1 .. Len(Unread) \cap 1 .. 2}

\* Mutant: what follows the first reply is dropped with it.
ResetDropsRest(pos) == EmptyReader
\* redis_resetreply after a reply that ends at pos ...
AfterReply(pos) ==
    IF pos >= Len(reader.buf) THEN EmptyReader
    ELSE [reader EXCEPT !.pos = pos, !.pos_last = pos]

\* ... and after a part of one: what was answered is moved out of the buffer.
\* Mutant: it is not.
PartNotMoved == [reader EXCEPT !.pos = 0, !.pos_last = 0]
AfterPart ==
    [buf |-> SubSeq(reader.buf, reader.pos_last + 1, Len(reader.buf)), pos |-> 0, pos_last |-> 0]

Popped == Tail(proxy.queryq)

\* _handlereply pops the caller and sends it the buffer from its start to pos,
\* in which it will find the reply that stands first.
HandleReply(pos) ==
    IF proxy.queryq = <<>>
    THEN Abort("ql") /\ UNCHANGED <<reader, answer, mishaps>>
    ELSE /\ proxy' = [proxy EXCEPT !.queryq = Popped]
         /\ \/ /\ Head(proxy.queryq).needreply
               /\ answer' = [to |-> Head(proxy.queryq).q, reply |-> reader.buf[1].q]
               /\ mishaps' = mishaps \cup (IF reader.pos_last > 0 THEN {"batched"} ELSE {})
            \/ UNCHANGED <<answer, mishaps>>    \* not wanted, or the node is gone
         /\ reader' = AfterReply(pos)
         /\ UNCHANGED loop

ParseStep ==
    /\ loop.pc \in {"parse", "parse_full"}
    /\ \E r \in redis_getreply :
         \/ /\ r[1] = "SUCCEED"
            /\ HandleReply(reader.pos + r[2])
            /\ UNCHANGED link
         \/ /\ r[1] = "ERROR"
            /\ reader' = EmptyReader
            /\ ErrOut(Head(loop.ne).id)
            /\ UNCHANGED <<answer, mishaps>>
         \/ /\ r[1] = "NEXTTIME"
            /\ IF reader.pos + r[2] > 0 /\ reader.pos_last = 0
               THEN Abort("pos_last") /\ UNCHANGED reader
               ELSE /\ reader' = AfterPart
                    /\ IF loop.pc = "parse_full" THEN loop' = [loop EXCEPT !.pc = "read"] ELSE Return
                    /\ UNCHANGED proxy
            /\ UNCHANGED <<link, answer, mishaps>>
    /\ UNCHANGED nquery

-----------------------------------------------------------------------------
\* redisproxy_time.  Without a link it connects again every second, whether or
\* not the last attempt has ended.

\* Mutant: it connects only when somebody waits.
ConnectsForCallers == proxy.connid = NONE /\ proxy.queryq # <<>>
Connects == proxy.connid = NONE

Overlap == IF \E c \in Conns : link[c].status # "INVALID" THEN {"overlap"} ELSE {}

redisproxy_time ==
    /\ loop.pc = "poll"
    /\ Connects
    /\ \/ \E c \in Conns :
            /\ link[c].status = "INVALID"
            /\ \/ /\ link' = [link EXCEPT ![c] = NewLink("CONNECTING")]
                  /\ mishaps' = mishaps \cup Overlap
                  /\ UNCHANGED proxy
               \/ /\ link' = [link EXCEPT ![c] = NewLink("CONNECTED")]
                  /\ mishaps' = mishaps \cup Overlap \cup CarriedOver
                  /\ proxy' = Up(c)
       \/ proxy' = Down /\ UNCHANGED <<link, mishaps>>     \* refused at once
    /\ UNCHANGED <<reader, loop, nquery, answer>>

-----------------------------------------------------------------------------
\* Redis and the network act where the proxy can see it: at the poll and
\* between two reads.

Visible == loop.pc \in {"poll", "read"}

RedisReplies(c) ==
    /\ Visible /\ link[c].todo # <<>>
    /\ link' = [link EXCEPT ![c].todo = Tail(@), ![c].pipe = Append(@, Head(link[c].todo))]
    /\ UNCHANGED <<proxy, reader, loop, nquery, answer, mishaps>>

\* The link ends after what is on its way, or with it.
LinkBreaks(c) ==
    /\ Visible /\ link[c].status = "CONNECTED" /\ ~ link[c].eof
    /\ \E pipe \in {link[c].pipe, <<>>} :
         link' = [link EXCEPT ![c] = [link[c] EXCEPT !.eof = TRUE, !.todo = <<>>, !.pipe = pipe]]
    /\ UNCHANGED <<proxy, reader, loop, nquery, answer, mishaps>>

Aborted == ~ Running /\ UNCHANGED vars

Dispatch == DispatchConnect \/ DispatchDown \/ DispatchRead \/ DispatchQuery
Thread == Dispatch \/ ReadStep \/ ParseStep
Network == \E c \in Conns : RedisReplies(c) \/ LinkBreaks(c)

Next == Poll \/ Thread \/ redisproxy_time \/ Network \/ Aborted

Spec == Init /\ [][Next]_vars

-----------------------------------------------------------------------------
TypeOK ==
    /\ proxy \in [connid : Conns \cup {NONE}, queryq : Seq(querylink), abort : Asserts]
    /\ reader.buf \in Seq(Piece) /\ Len(reader.buf) <= Cap
    /\ reader.pos \in 0 .. Len(reader.buf) /\ reader.pos_last \in 0 .. Len(reader.buf)
    /\ \A c \in Conns :
         /\ link[c].status \in {"INVALID", "CONNECTING", "CONNECTED"}
         /\ link[c].todo \in Seq(Piece) /\ link[c].pipe \in Seq(Piece) /\ link[c].eof \in BOOLEAN
    /\ loop.pc \in {"poll", "dispatch", "read", "parse", "parse_full", "abort"}
    /\ nquery \in 0 .. MaxQuery
    /\ answer \in [to : Queries \cup {0}, reply : Queries \cup {0}]
    /\ mishaps \subseteq {"queued", "leftover", "overlap", "batched", "senderr"}

Shifting == {"queued", "leftover", "overlap"}
Ordered == Running /\ mishaps \cap Shifting = {}

\* What has not been handled of what redis sent or will send on the proxy's link.
Outstanding == Unread \o link[proxy.connid].pipe \o link[proxy.connid].todo

Callers == [i \in DOMAIN proxy.queryq |-> proxy.queryq[i].q]

\* queryq holds nothing but the callers: they are matched with replies by order
\* alone.  Unless something was queued or buffered over a reconnect, or two
\* links overlapped, what redis still has to send is, piece by piece, the replies to
\* the queue in its order; on a link that broke, the first part of them will come.
RepliesMatchCallers ==
    Ordered /\ proxy.connid # NONE /\ link[proxy.connid].status = "CONNECTED" =>
        /\ IsPrefix(Outstanding, RepliesTo(Callers))
        /\ ~ link[proxy.connid].eof => Outstanding = RepliesTo(Callers)

\* A caller gets the reply to its own command, unless the order was lost before
\* or several replies came in one read: then it gets the first of them.
AnswerIsItsReply == answer.to = answer.reply \/ mishaps # {}

\* Each caller gets its own reply, as far as the code can tell.
RepliesReachCallers == RepliesMatchCallers /\ AnswerIsItsReply

\* The NET_ERR_NOBUF branch of _read, which gives up the link and all callers, is
\* never taken: after each parse there is room for another read.
SpaceIsLeft == loop.pc = "read" => Space > 0

BufferOK == TypeOK /\ SpaceIsLeft

\* The asserts of _read and _handlereply fail only after links overlapped, after
\* bytes were left over from an earlier link, or when a failing send closed the
\* link earlier in the batch; that of redis_resetreply also when a read leaves
\* nothing in the buffer but part of a reply.
AbortCause ==
    /\ proxy.abort = "connid" => mishaps \cap {"overlap", "senderr"} # {}
    /\ proxy.abort = "ql" => mishaps \cap {"overlap", "leftover"} # {}
    /\ proxy.abort = "pos_last" =>
         \/ mishaps \cap {"overlap", "leftover"} # {}
         \/ Len(reader.buf) = 1 /\ ~ Head(reader.buf).last

-----------------------------------------------------------------------------
\* The thread goes on, epoll reports every ready socket in the end, timers run,
\* and redis is up: it answers, and connecting to it works now and then.
PollOf(c) == Poll /\ \E i \in DOMAIN loop'.ne : loop'.ne[i] \in LinkEvents /\ loop'.ne[i].id = c
ConnectOf(c) == Poll /\ Contains(loop'.ne, Message("CONNECT", c))

FairSpec ==
    /\ Spec
    /\ WF_vars(Thread)
    /\ SF_vars(redisproxy_time /\ link' # link)
    /\ \A c \in Conns : /\ SF_vars(PollOf(c))
                         /\ SF_vars(ConnectOf(c))
                         /\ SF_vars(RedisReplies(c))

\* A proxy that lost its link, or its attempt to get one, gets another.
Reconnects == proxy.connid = NONE ~> proxy.connid # NONE \/ ~ Running

\* Every caller is taken off the queue, answered or given up with its link.
CallersAreServed ==
    \A q \in Queries :
        Contains(Callers, q) ~> ~ Contains(Callers, q) \/ "queued" \in mishaps \/ ~ Running
=============================================================================

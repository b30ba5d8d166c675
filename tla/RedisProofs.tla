---------------------------- MODULE RedisProofs ----------------------------
(***************************************************************************)
(* Theorems about the redis proxy, for any number of links, any buffer and *)
(* any number of commands: its buffer never fills up, each caller gets its *)
(* own reply unless a named mishap came before, and an assert fails only   *)
(* for the causes AbortCause names.                                        *)
(***************************************************************************)
EXTENDS RedisProxy, SequenceTheorems, TLAPS

\* The n-th piece of all that redis is ever asked for.
PieceNo(n) == [q |-> (n + 1) \div 2, last |-> n % 2 = 0]

LinkType == [status : {"INVALID", "CONNECTING", "CONNECTED"}, todo : Seq(Piece), pipe : Seq(Piece),
             eof : BOOLEAN]
LinkMessages == [type : {"CONNECT", "CONNERR", "READ", "SOCKERR"}, id : Conns]
Messages == LinkMessages \cup [type : {"QUERY"}, id : 1 .. MaxCommand]

Types ==
    /\ proxy \in [connid : Conns \cup {NONE}, queryq : Seq(querylink), abort : Asserts]
    /\ reader \in [buf : Seq(Piece), pos : Nat, pos_last : Nat]
    /\ link \in [Conns -> LinkType]
    /\ loop \in [pc : {"poll", "dispatch", "read", "parse", "parse_full", "abort"}, ne : Seq(Messages)]
    /\ nquery \in 0 .. MaxQuery
    /\ answer \in [to : Queries \cup {0}, reply : Queries \cup {0}]
    /\ mishaps \subseteq {"queued", "leftover", "overlap", "batched", "senderr"}

\* Between two parses the buffer has room, and starts with what was not handled.
ReaderInv ==
    /\ reader.pos_last = reader.pos /\ reader.pos <= Len(reader.buf) /\ Len(reader.buf) <= Cap
    /\ loop.pc \in {"poll", "dispatch", "read"} => reader.pos = 0
    /\ loop.pc \in {"poll", "dispatch", "read", "parse"} => Len(reader.buf) < Cap

\* The callers are the last of those that were numbered, in order.
InOrder(callers, total) ==
    \A i \in 1 .. Len(callers) : callers[i].q = total - Len(callers) + i

QueueInv == InOrder(proxy.queryq, nquery)

LinkInv ==
    \A c \in Conns :
        /\ link[c].status = "INVALID" => link[c] = FreeLink
        /\ link[c].status = "CONNECTING" => link[c] = NewLink("CONNECTING")

LoopInv ==
    /\ loop.pc = "poll" => loop.ne = <<>>
    /\ loop.pc \in {"dispatch", "read", "parse", "parse_full"} => loop.ne # <<>>
    /\ loop.pc \in {"read", "parse", "parse_full"} => Head(loop.ne) = Message("READ", proxy.connid)
    /\ loop.pc = "abort" <=> ~ Running

\* What a message that is still to be dispatched says of the only link.
MsgOK(m) ==
    /\ m.type = "CONNECT" => proxy.connid = NONE /\ link[m.id] = NewLink("CONNECTED")
    /\ m.type \in {"CONNERR", "SOCKERR"} => \A c \in Conns : link[c].status = "INVALID"
    /\ m.type = "READ" => \/ proxy.connid = m.id /\ link[m.id].status = "CONNECTED"
                          \/ proxy.connid = NONE /\ "senderr" \in mishaps

\* As long as attempts to connect did not overlap there is one link at most, and
\* it is the proxy's or will be.
OneLink ==
    /\ \A c, d \in Conns : link[c].status # "INVALID" /\ link[d].status # "INVALID" => c = d
    /\ \A c \in Conns : link[c].status = "CONNECTED" =>
         proxy.connid = c \/ \E i \in 1 .. Len(loop.ne) : loop.ne[i] = Message("CONNECT", c)
    /\ \A c \in Conns : link[c].status = "CONNECTING" => proxy.connid = NONE
    /\ \A i, j \in 1 .. Len(loop.ne) : loop.ne[i].type # "QUERY" /\ loop.ne[j].type # "QUERY" => i = j
    /\ \A i \in 1 .. Len(loop.ne) : MsgOK(loop.ne[i])

\* The stream s, of a link that ended or not, carries the replies to the callers, who
\* sent the last of total commands, but for k of them, queued while there was no link.
Carries(s, ended, total, callers, k) ==
    /\ \A j \in 1 .. Len(s) : s[j] = PieceNo(2 * (total - callers + k) + j)
    /\ Len(s) <= 2 * (callers - k)
    /\ ended \/ Len(s) = 2 * (callers - k)

StreamInv ==
    proxy.connid # NONE /\ link[proxy.connid].status = "CONNECTED" =>
        \E k \in 0 .. Len(proxy.queryq) :
            /\ Carries(Outstanding, link[proxy.connid].eof, nquery, Len(proxy.queryq), k)
            /\ "queued" \in mishaps \/ k = 0

IInv ==
    /\ Types /\ ReaderInv /\ QueueInv /\ LinkInv /\ LoopInv
    /\ Running /\ "overlap" \notin mishaps => OneLink
    /\ Running /\ mishaps \cap {"overlap", "leftover"} = {} => StreamInv
    /\ AnswerIsItsReply /\ AbortCause
-----------------------------------------------------------------------------
\* Sequences, and those of pieces.

LEMMA EmptyIffNone ==
    ASSUME NEW S, NEW s \in Seq(S)
    PROVE  s = <<>> <=> Len(s) = 0
  BY EmptySeq

\* Taking pieces from the head of one part of the stream to the tail of the part
\* before it leaves the stream as it is.
LEMMA MoveHead ==
    ASSUME NEW s \in Seq(Piece), NEW t \in Seq(Piece), t # <<>>
    PROVE  /\ Append(s, Head(t)) \in Seq(Piece) /\ Tail(t) \in Seq(Piece)
           /\ Append(s, Head(t)) \o Tail(t) = s \o t
<1>1. /\ Head(t) \in Piece /\ Tail(t) \in Seq(Piece) /\ Len(Tail(t)) = Len(t) - 1
      /\ \A i \in 1 .. Len(Tail(t)) : Tail(t)[i] = t[i + 1]
  BY HeadTailProperties
<1>2. Head(t) = t[1] /\ Len(s) \in Nat /\ Len(t) \in Nat /\ Len(t) # 0
  BY EmptySeq, LenProperties
<1> DEFINE u == Append(s, Head(t))
<1>3. u \in Seq(Piece) /\ Len(u) = Len(s) + 1
      /\ \A i \in 1 .. Len(s) + 1 : u[i] = IF i <= Len(s) THEN s[i] ELSE t[1]
  BY <1>1, <1>2, AppendProperties
<1>4. /\ s \o t \in Seq(Piece) /\ Len(s \o t) = Len(s) + Len(t)
      /\ \A i \in 1 .. Len(s) + Len(t) : (s \o t)[i] = IF i <= Len(s) THEN s[i] ELSE t[i - Len(s)]
  BY ConcatProperties
<1>5. /\ u \o Tail(t) \in Seq(Piece) /\ Len(u \o Tail(t)) = Len(u) + Len(Tail(t))
      /\ \A i \in 1 .. Len(u) + Len(Tail(t)) :
           (u \o Tail(t))[i] = IF i <= Len(u) THEN u[i] ELSE Tail(t)[i - Len(u)]
  BY <1>1, <1>3, ConcatProperties
<1> HIDE DEF u
<1>6. Len(u \o Tail(t)) = Len(s \o t)
  BY <1>1, <1>2, <1>3, <1>4, <1>5
<1>7. ASSUME NEW i \in 1 .. Len(s) + Len(t) PROVE (u \o Tail(t))[i] = (s \o t)[i]
  <2>1. CASE i <= Len(s)
    BY <2>1, <1>1, <1>2, <1>3, <1>4, <1>5
  <2>2. CASE i = Len(s) + 1
    BY <2>2, <1>1, <1>2, <1>3, <1>4, <1>5
  <2>3. CASE i > Len(s) + 1
    <3>1. i - Len(u) \in 1 .. Len(Tail(t)) /\ i - Len(u) + 1 = i - Len(s)
      BY <2>3, <1>1, <1>2, <1>3
    <3>2. (u \o Tail(t))[i] = Tail(t)[i - Len(u)]
      BY <3>1, <2>3, <1>1, <1>2, <1>3, <1>5
    <3> QED
      BY <3>1, <3>2, <2>3, <1>1, <1>2, <1>4
  <2>4. i <= Len(s) \/ i = Len(s) + 1 \/ i > Len(s) + 1
    BY <1>2
  <2> QED
    BY <2>1, <2>2, <2>3, <2>4
<1>8. u \o Tail(t) = s \o t
  BY <1>4, <1>5, <1>6, <1>7, SeqEqual
<1> QED
  BY <1>1, <1>3, <1>8 DEF u

\* Sequences of pieces can be put together in any grouping.
LEMMA PiecesConcat ==
    ASSUME NEW s \in Seq(Piece), NEW t \in Seq(Piece), NEW u \in Seq(Piece)
    PROVE  (s \o t) \o u = s \o (t \o u)
  BY ConcatAssociative

LEMMA MovePart ==
    ASSUME NEW s \in Seq(Piece), NEW t \in Seq(Piece), NEW n \in 0 .. Len(t)
    PROVE  /\ s \o SubSeq(t, 1, n) \in Seq(Piece) /\ SubSeq(t, n + 1, Len(t)) \in Seq(Piece)
           /\ Len(s \o SubSeq(t, 1, n)) = Len(s) + n
           /\ (s \o SubSeq(t, 1, n)) \o SubSeq(t, n + 1, Len(t)) = s \o t
<1>1. Len(t) \in Nat /\ \A i \in 1 .. Len(t) : t[i] \in Piece
  BY LenProperties, ElementOfSeq
<1>2. SubSeq(t, 1, n) \in Seq(Piece) /\ Len(SubSeq(t, 1, n)) = n
  <2>1. \A i \in 1 .. n : t[i] \in Piece
    BY <1>1
  <2>2. Len(SubSeq(t, 1, n)) = IF 1 <= n THEN n - 1 + 1 ELSE 0
    BY <2>1, SubSeqProperties
  <2>3. SubSeq(t, 1, n) \in Seq(Piece)
    BY <2>1, SubSeqProperties
  <2> QED
    BY <2>2, <2>3
<1>3. SubSeq(t, n + 1, Len(t)) \in Seq(Piece)
  <2>1. \A i \in n + 1 .. Len(t) : t[i] \in Piece
    BY <1>1
  <2>2. n + 1 \in Int /\ Len(t) \in Int
    BY <1>1
  <2> QED
    BY <2>1, <2>2, SubSeqProperties
<1>4. SubSeq(t, 1, n) \o SubSeq(t, n + 1, Len(t)) = t
  <2>1. 1 \in 1 .. Len(t) + 1 /\ n \in 1 - 1 .. Len(t) /\ Len(t) \in n .. Len(t)
    BY <1>1
  <2>2. SubSeq(t, 1, n) \o SubSeq(t, n + 1, Len(t)) = SubSeq(t, 1, Len(t))
    BY <2>1, ConcatAdjacentSubSeq
  <2> QED
    BY <2>2, SubSeqFull
<1>5. s \o SubSeq(t, 1, n) \in Seq(Piece) /\ Len(s \o SubSeq(t, 1, n)) = Len(s) + n
  BY <1>2, ConcatProperties
<1>6. (s \o SubSeq(t, 1, n)) \o SubSeq(t, n + 1, Len(t))
        = s \o (SubSeq(t, 1, n) \o SubSeq(t, n + 1, Len(t)))
  <2> DEFINE u == SubSeq(t, 1, n)
             v == SubSeq(t, n + 1, Len(t))
  <2>1. u \in Seq(Piece) /\ v \in Seq(Piece)
    BY <1>2, <1>3
  <2> HIDE DEF u, v
  <2>2. (s \o u) \o v = s \o (u \o v)
    BY ONLY <2>1, s \in Seq(Piece), PiecesConcat, Zenon
  <2> QED
    BY <2>2 DEF u, v
<1> QED
  BY <1>3, <1>4, <1>5, <1>6

LEMMA RestOf ==
    ASSUME NEW s \in Seq(Piece), NEW n \in 0 .. Len(s)
    PROVE  /\ SubSeq(s, n + 1, Len(s)) \in Seq(Piece)
           /\ Len(SubSeq(s, n + 1, Len(s))) = Len(s) - n
           /\ \A i \in 1 .. Len(s) - n : SubSeq(s, n + 1, Len(s))[i] = s[n + i]
<1>1. Len(s) \in Nat /\ \A i \in n + 1 .. Len(s) : s[i] \in Piece
  BY LenProperties, ElementOfSeq
<1>2. n + 1 \in Int /\ Len(s) \in Int
  BY <1>1
<1>3. SubSeq(s, n + 1, Len(s)) \in Seq(Piece)
  BY <1>1, <1>2, SubSeqProperties
<1>4. Len(SubSeq(s, n + 1, Len(s))) = IF n + 1 <= Len(s) THEN Len(s) - (n + 1) + 1 ELSE 0
  BY <1>1, <1>2, SubSeqProperties
<1>5. \A i \in 1 .. Len(s) - (n + 1) + 1 : SubSeq(s, n + 1, Len(s))[i] = s[n + 1 + i - 1]
  BY <1>1, <1>2, SubSeqProperties
<1>6. Len(SubSeq(s, n + 1, Len(s))) = Len(s) - n
  BY <1>1, <1>4
<1>7. ASSUME NEW i \in 1 .. Len(s) - n PROVE SubSeq(s, n + 1, Len(s))[i] = s[n + i]
  <2>1. i \in 1 .. Len(s) - (n + 1) + 1 /\ n + 1 + i - 1 = n + i
    BY <1>1
  <2> QED
    BY <2>1, <1>5
<1> QED
  BY <1>3, <1>6, <1>7

-----------------------------------------------------------------------------
\* The replies to commands with consecutive numbers.

LEMMA PieceOfReply ==
    ASSUME NEW i \in Int, NEW j \in Int
    PROVE  ReplyTo(i + (j + 1) \div 2)[2 - (j % 2)] = PieceNo(2 * i + j)
<1>1. (2 * i + j + 1) \div 2 = i + (j + 1) \div 2 /\ (2 * i + j) % 2 = j % 2
  OBVIOUS
<1>2. j % 2 = 0 \/ j % 2 = 1
  OBVIOUS
<1>3. PieceNo(2 * i + j) = [q |-> i + (j + 1) \div 2, last |-> j % 2 = 0]
  BY <1>1 DEF PieceNo
<1> DEFINE q == i + (j + 1) \div 2
<1>6. ReplyTo(q)[1] = [q |-> q, last |-> FALSE] /\ ReplyTo(q)[2] = [q |-> q, last |-> TRUE]
  BY DEF ReplyTo
<1>4. CASE j % 2 = 0
  <2>1. 2 - (j % 2) = 2
    BY <1>4
  <2> QED
    BY <2>1, <1>3, <1>4, <1>6
<1>5. CASE j % 2 = 1
  <2>1. 2 - (j % 2) = 1
    BY <1>5
  <2> QED
    BY <2>1, <1>3, <1>5, <1>6
<1> QED
  BY <1>2, <1>4, <1>5

LEMMA RepliesInOrder ==
    ASSUME NEW n \in Nat, NEW b \in Int, NEW qs, Len(qs) = n,
           \A i \in 1 .. n : qs[i] = b + i /\ qs[i] \in Queries
    PROVE  /\ RepliesTo(qs) \in Seq(Piece) /\ Len(RepliesTo(qs)) = 2 * n
           /\ \A j \in 1 .. 2 * n : RepliesTo(qs)[j] = PieceNo(2 * b + j)
<1>1. ASSUME NEW j \in 1 .. 2 * n
      PROVE  /\ ReplyTo(qs[(j + 1) \div 2])[2 - (j % 2)] = PieceNo(2 * b + j)
             /\ PieceNo(2 * b + j) \in Piece
  <2>1. (j + 1) \div 2 \in 1 .. n
    OBVIOUS
  <2>2. qs[(j + 1) \div 2] = b + (j + 1) \div 2 /\ b + (j + 1) \div 2 \in Queries
    BY <2>1
  <2>3. (2 * b + j + 1) \div 2 = b + (j + 1) \div 2
    OBVIOUS
  <2>4. PieceNo(2 * b + j) \in Piece
    BY <2>2, <2>3 DEF PieceNo, Piece
  <2>5. b \in Int /\ j \in Int
    OBVIOUS
  <2>6. ReplyTo(b + (j + 1) \div 2)[2 - (j % 2)] = PieceNo(2 * b + j)
    BY <2>5, PieceOfReply
  <2> QED
    BY <2>2, <2>4, <2>6
<1>2. RepliesTo(qs) = [j \in 1 .. 2 * n |-> ReplyTo(qs[(j + 1) \div 2])[2 - (j % 2)]]
  BY DEF RepliesTo
<1>3. \A j \in 1 .. 2 * n : RepliesTo(qs)[j] = PieceNo(2 * b + j)
  BY <1>1, <1>2
<1>4. RepliesTo(qs) \in [1 .. 2 * n -> Piece]
  BY <1>1, <1>2
<1> QED
  BY <1>3, <1>4
-----------------------------------------------------------------------------
\* The head of the batch, and what is left of it when its handler returns.

LEMMA HeadIs ==
    ASSUME IInv, loop.pc \in {"dispatch", "read", "parse", "parse_full"}
    PROVE  /\ loop.ne \in Seq(Messages) /\ loop.ne # <<>> /\ Len(loop.ne) \in Nat \ {0}
           /\ Head(loop.ne) = loop.ne[1] /\ Head(loop.ne) \in Messages /\ Running
           /\ \A i \in 1 .. Len(loop.ne) : loop.ne[i] \in Messages
<1>1. loop.ne \in Seq(Messages) /\ loop.ne # <<>> /\ Running
  BY DEF IInv, Types, LoopInv
<1>2. Len(loop.ne) \in Nat \ {0} /\ Head(loop.ne) \in Messages
  BY <1>1, EmptySeq, HeadTailProperties
<1>3. Head(loop.ne) = loop.ne[1]
  OBVIOUS
<1>4. \A i \in 1 .. Len(loop.ne) : loop.ne[i] \in Messages
  BY <1>1, ElementOfSeq
<1> QED
  BY <1>1, <1>2, <1>3, <1>4

LEMMA MessageFields ==
    ASSUME NEW m \in Messages
    PROVE  /\ m.type # "QUERY" => m \in LinkMessages /\ m.id \in Conns
           /\ m.type = "QUERY" => m.id \in 1 .. MaxCommand
           /\ m = Message(m.type, m.id)
  BY DEF Messages, LinkMessages, Message

LEMMA ReturnKeeps ==
    ASSUME IInv, loop.pc \in {"dispatch", "read", "parse", "parse_full"}, Return
    PROVE  /\ loop' \in [pc : {"poll", "dispatch"}, ne : Seq(Messages)]
           /\ loop'.pc = "poll" => loop'.ne = <<>>
           /\ loop'.pc = "dispatch" => loop'.ne # <<>>
           /\ Len(loop'.ne) = Len(loop.ne) - 1
           /\ \A i \in 1 .. Len(loop'.ne) : i + 1 \in 1 .. Len(loop.ne) /\ loop'.ne[i] = loop.ne[i + 1]
           /\ loop'.ne = Tail(loop.ne)
<1>1. loop.ne \in Seq(Messages) /\ loop.ne # <<>> /\ Len(loop.ne) \in Nat \ {0}
  BY HeadIs
<1>2. /\ Tail(loop.ne) \in Seq(Messages) /\ Len(Tail(loop.ne)) = Len(loop.ne) - 1
      /\ \A i \in 1 .. Len(Tail(loop.ne)) : Tail(loop.ne)[i] = loop.ne[i + 1]
  BY <1>1, HeadTailProperties
<1>3. /\ loop'.pc = IF Len(loop.ne) = 1 THEN "poll" ELSE "dispatch"
      /\ loop'.ne = Tail(loop.ne) /\ loop' \in [pc : {"poll", "dispatch"}, ne : Seq(Messages)]
  BY <1>2 DEF Return
<1>4. Tail(loop.ne) = <<>> <=> Len(loop.ne) = 1
  <2>1. Tail(loop.ne) = <<>> <=> Len(Tail(loop.ne)) = 0
    BY <1>2, EmptyIffNone
  <2> QED
    BY <2>1, <1>1, <1>2
<1>5. \A i \in 1 .. Len(Tail(loop.ne)) : i + 1 \in 1 .. Len(loop.ne)
  BY <1>1, <1>2
<1> QED
  BY <1>2, <1>3, <1>4, <1>5

\* The loop after a handler that returned.
LEMMA LoopAfterReturn ==
    ASSUME IInv, loop.pc \in {"dispatch", "read", "parse", "parse_full"}, Return,
           proxy'.abort = proxy.abort
    PROVE  LoopInv' /\ Running' /\ loop'.pc \in {"poll", "dispatch"}
<1>1. Running
  BY HeadIs
<1>2. Running'
  BY <1>1 DEF Running
<1>3. loop'.pc \in {"poll", "dispatch"}
  BY ReturnKeeps
<1> QED
  BY <1>2, <1>3, ReturnKeeps DEF LoopInv

LEMMA AbortMeansNot ==
    ASSUME NEW a \in Asserts \ {"none"}, Abort(a), Types
    PROVE  /\ proxy'.abort = a /\ ~ Running' /\ LoopInv'
           /\ proxy' \in [connid : Conns \cup {NONE}, queryq : Seq(querylink), abort : Asserts]
           /\ proxy'.connid = proxy.connid /\ proxy'.queryq = proxy.queryq
           /\ loop' = [pc |-> "abort", ne |-> <<>>]
           /\ loop' \in [pc : {"abort"}, ne : Seq(Messages)]
<1>1. /\ proxy' = [proxy EXCEPT !.abort = a] /\ loop' = [pc |-> "abort", ne |-> <<>>]
      /\ proxy \in [connid : Conns \cup {NONE}, queryq : Seq(querylink), abort : Asserts]
  BY DEF Abort, Types
<1>2. proxy'.abort = a /\ proxy'.connid = proxy.connid /\ proxy'.queryq = proxy.queryq
  BY <1>1
<1>3. <<>> \in Seq(Messages)
  BY EmptySeq
<1>4. ~ Running'
  BY <1>2 DEF Running
<1> QED
  BY <1>1, <1>2, <1>3, <1>4 DEF LoopInv

\* While attempts do not overlap, what is behind a link's message in a batch is
\* for the callers.
LEMMA OnlyQueriesFollow ==
    ASSUME IInv, OneLink, loop.pc \in {"dispatch", "read", "parse", "parse_full"}, Return,
           Head(loop.ne).type # "QUERY"
    PROVE  \A i \in 1 .. Len(loop'.ne) : loop'.ne[i].type = "QUERY"
<1>1. Head(loop.ne) = loop.ne[1] /\ Len(loop.ne) \in Nat \ {0}
  BY HeadIs
<1>2. ASSUME NEW i \in 1 .. Len(loop'.ne), loop'.ne[i].type # "QUERY" PROVE FALSE
  <2>1. i + 1 \in 1 .. Len(loop.ne) /\ loop'.ne[i] = loop.ne[i + 1]
    BY ReturnKeeps
  <2>2. 1 \in 1 .. Len(loop.ne)
    BY <1>1
  <2>3. i + 1 = 1
    BY <1>1, <1>2, <2>1, <2>2 DEF OneLink
  <2> QED
    BY <2>3
<1> QED
  BY <1>2

\* All is well with one link when only queries are left and ...
LEMMA OneLinkLeft ==
    ASSUME \A i \in 1 .. Len(loop'.ne) : loop'.ne[i].type = "QUERY",
           \A c, d \in Conns : link'[c].status # "INVALID" /\ link'[d].status # "INVALID" => c = d,
           \A c \in Conns : link'[c].status = "CONNECTED" => proxy'.connid = c,
           \A c \in Conns : link'[c].status = "CONNECTING" => proxy'.connid = NONE
    PROVE  OneLink'
<1>1. \A i \in 1 .. Len(loop'.ne) : MsgOK(loop.ne[i])'
  BY DEF MsgOK
<1>2. \A i, j \in 1 .. Len(loop'.ne) : loop'.ne[i].type # "QUERY" /\ loop'.ne[j].type # "QUERY" => i = j
  OBVIOUS
<1> QED
  BY <1>1, <1>2 DEF OneLink
\* A state in which the process goes on has met no assert.
LEMMA NoCauseNeeded == Running => AbortCause
  BY DEF Running, AbortCause

LEMMA NoCauseNeededAfter == Running' => AbortCause'
  BY DEF Running, AbortCause

\* A failed assert leaves everything but its cause as it was.
LEMMA AbortKeeps ==
    ASSUME IInv, NEW a \in Asserts \ {"none"}, Abort(a), AbortCause',
           UNCHANGED <<reader, link, nquery, answer, mishaps>>
    PROVE  IInv'
<1>1. Types
  BY DEF IInv
<1>2. /\ ~ Running' /\ LoopInv'
      /\ proxy' \in [connid : Conns \cup {NONE}, queryq : Seq(querylink), abort : Asserts]
      /\ proxy'.queryq = proxy.queryq
      /\ loop'.pc = "abort" /\ loop' \in [pc : {"abort"}, ne : Seq(Messages)]
  BY <1>1, AbortMeansNot
<1>3. Types'
  BY <1>1, <1>2 DEF Types
<1>4. ReaderInv'
  BY <1>2 DEF IInv, ReaderInv
<1>5. QueueInv' /\ LinkInv'
  BY <1>2 DEF IInv, QueueInv, InOrder, LinkInv
<1>6. AnswerIsItsReply'
  BY DEF IInv, AnswerIsItsReply
<1> QED
  BY <1>2, <1>3, <1>4, <1>5, <1>6 DEF IInv

-----------------------------------------------------------------------------
\* redisproxy_net

LEMMA ConnectKeeps == IInv /\ DispatchConnect => IInv'
<1> SUFFICES ASSUME IInv, DispatchConnect PROVE IInv'
  OBVIOUS
<1> DEFINE c == Head(loop.ne).id
<1>1. /\ loop.pc = "dispatch" /\ Head(loop.ne).type = "CONNECT" /\ Return
      /\ proxy' = [proxy EXCEPT !.connid = c] /\ mishaps' = mishaps \cup CarriedOver
      /\ UNCHANGED <<reader, link, nquery, answer>>
  BY DEF DispatchConnect, Dispatching, Up
<1>2. Head(loop.ne) \in Messages /\ Head(loop.ne) = loop.ne[1] /\ Len(loop.ne) \in Nat \ {0} /\ Running
  BY <1>1, HeadIs
<1>3. c \in Conns
  BY <1>1, <1>2, MessageFields
<1>4. /\ proxy \in [connid : Conns \cup {NONE}, queryq : Seq(querylink), abort : Asserts]
      /\ reader \in [buf : Seq(Piece), pos : Nat, pos_last : Nat]
      /\ link \in [Conns -> LinkType] /\ nquery \in 0 .. MaxQuery
      /\ answer \in [to : Queries \cup {0}, reply : Queries \cup {0}]
      /\ mishaps \subseteq {"queued", "leftover", "overlap", "batched", "senderr"}
  BY DEF IInv, Types
<1>5. proxy'.connid = c /\ proxy'.queryq = proxy.queryq /\ proxy'.abort = proxy.abort
      /\ proxy' \in [connid : Conns \cup {NONE}, queryq : Seq(querylink), abort : Asserts]
  BY <1>1, <1>3, <1>4
<1>6. LoopInv' /\ Running' /\ loop'.pc \in {"poll", "dispatch"}
  BY <1>1, <1>5, LoopAfterReturn
<1>7. loop' \in [pc : {"poll", "dispatch", "read", "parse", "parse_full", "abort"}, ne : Seq(Messages)]
  BY <1>1, ReturnKeeps
<1>8. /\ mishaps \subseteq mishaps'
      /\ mishaps' \subseteq {"queued", "leftover", "overlap", "batched", "senderr"}
      /\ "leftover" \notin mishaps' => reader.buf = <<>>
      /\ "queued" \notin mishaps' => proxy.queryq = <<>>
      /\ "overlap" \in mishaps' => "overlap" \in mishaps
  BY <1>1, <1>4 DEF CarriedOver
<1>9. Types'
  BY <1>1, <1>4, <1>5, <1>7, <1>8 DEF Types
<1>10. ReaderInv'
  BY <1>1, <1>6 DEF IInv, ReaderInv
<1>11. QueueInv'
  BY <1>1, <1>5 DEF IInv, QueueInv, InOrder
<1>12. LinkInv'
  BY <1>1 DEF IInv, LinkInv
<1>13. ASSUME "overlap" \notin mishaps'
       PROVE  OneLink' /\ link[c] = NewLink("CONNECTED")
  <2>1. OneLink
    BY <1>2, <1>8, <1>13 DEF IInv
  <2>2. link[c] = NewLink("CONNECTED")
    <3>1. MsgOK(loop.ne[1])
      BY <1>2, <2>1 DEF OneLink
    <3> QED
      BY <3>1, <1>1, <1>2 DEF MsgOK
  <2>3. \A i \in 1 .. Len(loop'.ne) : loop'.ne[i].type = "QUERY"
    BY <1>1, <2>1, OnlyQueriesFollow
  <2>4. link[c].status = "CONNECTED"
    BY <2>2 DEF NewLink, FreeLink
  <2>5. \A d \in Conns : link[d].status # "INVALID" => d = c
    BY <1>3, <2>1, <2>4 DEF OneLink
  <2> HIDE DEF c
  <2>6. /\ \A d, e \in Conns : link'[d].status # "INVALID" /\ link'[e].status # "INVALID" => d = e
        /\ \A d \in Conns : link'[d].status = "CONNECTED" => proxy'.connid = d
        /\ \A d \in Conns : link'[d].status = "CONNECTING" => proxy'.connid = NONE
    BY <1>1, <1>5, <2>4, <2>5
  <2>7. OneLink'
    BY <2>3, <2>6, OneLinkLeft
  <2> QED
    BY <2>2, <2>7
<1>14. ASSUME mishaps' \cap {"overlap", "leftover"} = {} PROVE StreamInv'
  <2>1. link[c] = NewLink("CONNECTED") /\ reader.buf = <<>> /\ reader.pos = 0
    BY <1>1, <1>8, <1>13, <1>14 DEF IInv, ReaderInv
  <2>2. link[c].pipe = <<>> /\ link[c].todo = <<>>
    BY <2>1 DEF NewLink, FreeLink
  <2>3. SubSeq(<<>>, 1, 0) = <<>>
    BY SubSeqEmpty
  <2>4. Outstanding' = <<>>
    <3>1. Unread' = SubSeq(reader.buf, reader.pos + 1, Len(reader.buf))
      BY <1>1, Zenon DEF Unread
    <3>3. reader.pos + 1 = 1 /\ Len(reader.buf) = 0
      BY ONLY <2>1
    <3>4. Unread' = <<>>
      BY ONLY <3>1, <3>3, <2>1, <2>3, Zenon
    <3>2. Outstanding' = Unread' \o link[c].pipe \o link[c].todo
      BY <1>1, <1>5, Zenon DEF Outstanding
    <3> QED
      BY ONLY <2>2, <3>2, <3>4
  <2>5. Len(proxy.queryq) \in Nat /\ (proxy.queryq = <<>> => Len(proxy.queryq) = 0)
    BY <1>4, LenProperties
  <2>6. Carries(Outstanding', link'[c].eof, nquery', Len(proxy.queryq), Len(proxy.queryq))
    BY <2>4, <2>5 DEF Carries
  <2>7. Len(proxy.queryq) \in 0 .. Len(proxy'.queryq) /\ proxy'.connid = c
    BY <2>5, <1>5
  <2>8. "queued" \in mishaps' \/ Len(proxy.queryq) = 0
    BY <1>8, <2>5
  <2> QED
    BY <2>6, <2>7, <2>8, <1>5 DEF StreamInv
<1>15. AnswerIsItsReply'
  BY <1>1, <1>8 DEF IInv, AnswerIsItsReply
<1>16. AbortCause'
  BY <1>6, NoCauseNeededAfter
<1> QED
  BY <1>6, <1>9, <1>10, <1>11, <1>12, <1>13, <1>14, <1>15, <1>16 DEF IInv
LEMMA DownIs ==
    ASSUME Types, proxy' = Down
    PROVE  /\ proxy'.connid = NONE /\ proxy'.queryq = <<>> /\ proxy'.abort = proxy.abort
           /\ proxy' \in [connid : Conns \cup {NONE}, queryq : Seq(querylink), abort : Asserts]
           /\ QueueInv' /\ StreamInv'
<1>1. proxy \in [connid : Conns \cup {NONE}, queryq : Seq(querylink), abort : Asserts]
  BY DEF Types
<1>2. <<>> \in Seq(querylink) /\ Len(<<>>) = 0
  BY EmptySeq
<1>3. proxy'.connid = NONE /\ proxy'.queryq = <<>> /\ proxy'.abort = proxy.abort
  BY <1>1 DEF Down
<1>4. proxy' \in [connid : Conns \cup {NONE}, queryq : Seq(querylink), abort : Asserts]
  BY <1>1, <1>2 DEF Down
<1>5. QueueInv'
  BY <1>2, <1>3 DEF QueueInv, InOrder
<1>6. StreamInv'
  BY <1>3 DEF StreamInv
<1> QED
  BY <1>3, <1>4, <1>5, <1>6

LEMMA DownKeeps == IInv /\ DispatchDown => IInv'
<1> SUFFICES ASSUME IInv, DispatchDown PROVE IInv'
  OBVIOUS
<1>1. /\ loop.pc = "dispatch" /\ Head(loop.ne).type \in {"CONNERR", "SOCKERR"} /\ Return
      /\ proxy' = Down
      /\ UNCHANGED <<reader, link, nquery, answer, mishaps>>
  BY DEF DispatchDown, Dispatching
<1>2. Head(loop.ne) = loop.ne[1] /\ Len(loop.ne) \in Nat \ {0} /\ Running
  BY <1>1, HeadIs
<1>3. Types
  BY DEF IInv
<1>4. /\ proxy'.connid = NONE /\ proxy'.queryq = <<>> /\ proxy'.abort = proxy.abort
      /\ proxy' \in [connid : Conns \cup {NONE}, queryq : Seq(querylink), abort : Asserts]
      /\ QueueInv' /\ StreamInv'
  BY <1>1, <1>3, DownIs
<1>5. LoopInv' /\ Running' /\ loop'.pc \in {"poll", "dispatch"}
  BY <1>1, <1>4, LoopAfterReturn
<1>6. loop' \in [pc : {"poll", "dispatch", "read", "parse", "parse_full", "abort"}, ne : Seq(Messages)]
  BY <1>1, ReturnKeeps
<1>7. Types'
  BY <1>1, <1>3, <1>4, <1>6 DEF Types
<1>8. ReaderInv'
  BY <1>1, <1>5 DEF IInv, ReaderInv
<1>9. LinkInv'
  BY <1>1 DEF IInv, LinkInv
<1>10. ASSUME "overlap" \notin mishaps' PROVE OneLink'
  <2>1. OneLink
    BY <1>1, <1>2, <1>10 DEF IInv
  <2>2. MsgOK(loop.ne[1])
    BY <1>2, <2>1 DEF OneLink
  <2>3. \A d \in Conns : link[d].status = "INVALID"
    BY <2>2, <1>1, <1>2 DEF MsgOK
  <2>4. \A i \in 1 .. Len(loop'.ne) : loop'.ne[i].type = "QUERY"
    BY <1>1, <2>1, OnlyQueriesFollow
  <2>5. /\ \A d, e \in Conns : link'[d].status # "INVALID" /\ link'[e].status # "INVALID" => d = e
        /\ \A d \in Conns : link'[d].status = "CONNECTED" => proxy'.connid = d
        /\ \A d \in Conns : link'[d].status = "CONNECTING" => proxy'.connid = NONE
    BY <1>1, <2>3
  <2> QED
    BY <2>4, <2>5, OneLinkLeft
<1>11. AnswerIsItsReply'
  BY <1>1 DEF IInv, AnswerIsItsReply
<1>12. AbortCause'
  BY <1>5, NoCauseNeededAfter
<1> QED
  BY <1>4, <1>5, <1>7, <1>8, <1>9, <1>10, <1>11, <1>12 DEF IInv

LEMMA ReadMessageKeeps == IInv /\ DispatchRead => IInv'
<1> SUFFICES ASSUME IInv, DispatchRead PROVE IInv'
  OBVIOUS
<1>1. /\ loop.pc = "dispatch" /\ Head(loop.ne).type = "READ"
      /\ UNCHANGED <<reader, link, nquery, answer, mishaps>>
  BY DEF DispatchRead, Dispatching
<1>2. Head(loop.ne) \in Messages /\ Head(loop.ne) = loop.ne[1] /\ Len(loop.ne) \in Nat \ {0}
      /\ Running /\ loop.ne # <<>>
  BY <1>1, HeadIs
<1>3. Types
  BY DEF IInv
<1>4. CASE Head(loop.ne).id = proxy.connid
  <2>1. loop' = [loop EXCEPT !.pc = "read"] /\ proxy' = proxy
    BY <1>4 DEF DispatchRead
  <2>2. /\ loop'.pc = "read" /\ loop'.ne = loop.ne
        /\ loop' \in [pc : {"poll", "dispatch", "read", "parse", "parse_full", "abort"}, ne : Seq(Messages)]
    BY <2>1, <1>3 DEF Types
  <2>3. Head(loop.ne) = Message("READ", proxy.connid)
    BY <1>1, <1>2, <1>4, MessageFields
  <2>4. Running'
    BY <1>2, <2>1 DEF Running
  <2>5. LoopInv'
    BY <1>2, <2>1, <2>2, <2>3, <2>4 DEF LoopInv
  <2>6. Types'
    BY <1>1, <1>3, <2>1, <2>2 DEF Types
  <2>7. ReaderInv'
    BY <1>1, <2>2 DEF IInv, ReaderInv
  <2>8. QueueInv' /\ LinkInv'
    BY <1>1, <2>1 DEF IInv, QueueInv, InOrder, LinkInv
  <2>9. ASSUME OneLink PROVE OneLink'
    BY <2>9, <1>1, <2>1, <2>2 DEF OneLink, MsgOK
  <2>10. ASSUME StreamInv PROVE StreamInv'
    <3>1. Outstanding' = Outstanding
      BY <1>1, <2>1 DEF Outstanding, Unread
    <3> QED
      BY <2>10, <3>1, <1>1, <2>1 DEF StreamInv
  <2>11. AnswerIsItsReply'
    BY <1>1 DEF IInv, AnswerIsItsReply
  <2>12. AbortCause'
    BY <2>4, NoCauseNeededAfter
  <2> QED
    BY <1>1, <1>2, <2>4, <2>5, <2>6, <2>7, <2>8, <2>9, <2>10, <2>11, <2>12 DEF IInv
<1>5. CASE Head(loop.ne).id # proxy.connid
  <2>1. Abort("connid")
    BY <1>5 DEF DispatchRead
  <2>2. "connid" \in Asserts \ {"none"}
    BY DEF Asserts
  <2>3. proxy'.abort = "connid"
    BY <1>3, <2>1, <2>2, AbortMeansNot
  <2>8. ASSUME "overlap" \notin mishaps PROVE "senderr" \in mishaps
    <3>1. OneLink
      BY <1>2, <2>8 DEF IInv
    <3>2. MsgOK(loop.ne[1])
      BY <1>2, <3>1 DEF OneLink
    <3> QED
      BY <3>2, <1>1, <1>2, <1>5 DEF MsgOK
  <2>9. AbortCause'
    BY <1>1, <2>3, <2>8 DEF AbortCause
  <2> QED
    BY <1>1, <2>1, <2>2, <2>9, AbortKeeps
<1> QED
  BY <1>4, <1>5
-----------------------------------------------------------------------------
\* redisproxy_nodemsg

LEMMA PushedIs ==
    ASSUME Types, NEW n \in 1 .. MaxCommand, nquery + n <= MaxQuery, NEW needreply \in BOOLEAN
    PROVE  /\ Pushed(n, needreply) \in Seq(querylink) /\ Len(Pushed(n, needreply)) = n
           /\ \A i \in 1 .. n : Pushed(n, needreply)[i].q = nquery + i
<1>1. nquery \in Nat /\ n \in Nat /\ MaxQuery \in Nat
  BY ProxyAssumption DEF Types
<1>2. \A i \in 1 .. n : [q |-> nquery + i, needreply |-> needreply] \in querylink
  BY <1>1 DEF querylink, Queries
<1>3. Pushed(n, needreply) \in [1 .. n -> querylink]
  BY <1>2 DEF Pushed
<1>4. \A i \in 1 .. n : Pushed(n, needreply)[i].q = nquery + i
  BY DEF Pushed
<1> QED
  BY <1>1, <1>3, <1>4

\* New callers stand behind the others.
LEMMA QueueGrows ==
    ASSUME Types, QueueInv, NEW n \in 1 .. MaxCommand, nquery + n <= MaxQuery,
           NEW needreply \in BOOLEAN,
           NEW queryq, queryq = proxy.queryq \o Pushed(n, needreply)
    PROVE  /\ queryq \in Seq(querylink) /\ Len(queryq) = Len(proxy.queryq) + n
           /\ InOrder(queryq, nquery + n)
<1> DEFINE s == proxy.queryq
           t == Pushed(n, needreply)
<1>1. s \in Seq(querylink) /\ Len(s) \in Nat /\ n \in Nat /\ nquery \in Nat
  BY ProxyAssumption, LenProperties DEF Types
<1>2. t \in Seq(querylink) /\ Len(t) = n /\ \A i \in 1 .. n : t[i].q = nquery + i
  BY PushedIs
<1>3. \A i \in 1 .. Len(s) : s[i].q = nquery - Len(s) + i
  BY DEF QueueInv, InOrder
<1> HIDE DEF s, t
<1>4. s \o t \in Seq(querylink) /\ Len(s \o t) = Len(s) + Len(t)
      /\ \A i \in 1 .. Len(s) + Len(t) : (s \o t)[i] = IF i <= Len(s) THEN s[i] ELSE t[i - Len(s)]
  BY <1>1, <1>2, ConcatProperties
<1>5. queryq = s \o t
  BY DEF s, t
<1>6. ASSUME NEW i \in 1 .. Len(s) + n PROVE (s \o t)[i].q = nquery + n - (Len(s) + n) + i
  <2>1. CASE i <= Len(s)
    <3>1. (s \o t)[i] = s[i] /\ i \in 1 .. Len(s)
      BY <2>1, <1>1, <1>2, <1>4
    <3> QED
      BY <3>1, <1>1, <1>3
  <2>2. CASE i > Len(s)
    <3>1. (s \o t)[i] = t[i - Len(s)] /\ i - Len(s) \in 1 .. n
      BY <2>2, <1>1, <1>2, <1>4
    <3>2. t[i - Len(s)].q = nquery + (i - Len(s))
      BY <3>1, <1>2
    <3> QED
      BY <3>1, <3>2, <1>1
  <2>3. i <= Len(s) \/ i > Len(s)
    BY <1>1
  <2> QED
    BY <2>1, <2>2, <2>3
<1>7. Len(queryq) = Len(s) + n
  BY <1>2, <1>4, <1>5
<1>8. InOrder(queryq, nquery + n)
  <2>1. ASSUME NEW i \in 1 .. Len(queryq) PROVE queryq[i].q = (nquery + n) - Len(queryq) + i
    <3>1. i \in 1 .. Len(s) + n
      BY <1>7
    <3>2. (s \o t)[i].q = nquery + n - (Len(s) + n) + i
      BY <3>1, <1>6
    <3>3. queryq[i].q = nquery + n - (Len(s) + n) + i
      BY ONLY <3>2, <1>5, Zenon
    <3> QED
      BY <3>3, <1>1, <1>7
  <2> QED
    BY <2>1 DEF InOrder
<1>9. Len(queryq) = Len(proxy.queryq) + n
  BY <1>7 DEF s
<1> QED
  BY <1>4, <1>5, <1>8, <1>9

\* So do their replies on the link, unless it ended.
LEMMA StreamGrows ==
    ASSUME NEW s \in Seq(Piece), NEW t \in Seq(Piece), NEW n \in Nat,
           NEW total \in Nat, NEW callers \in Nat, NEW k \in 0 .. callers,
           Len(t) = 2 * n, \A j \in 1 .. 2 * n : t[j] = PieceNo(2 * total + j),
           Carries(s, FALSE, total, callers, k)
    PROVE  Carries(s \o t, FALSE, total + n, callers + n, k)
<1>1. Len(s) = 2 * (callers - k) /\ \A j \in 1 .. Len(s) : s[j] = PieceNo(2 * (total - callers + k) + j)
  BY DEF Carries
<1>2. Len(s \o t) = Len(s) + Len(t)
      /\ \A i \in 1 .. Len(s) + Len(t) : (s \o t)[i] = IF i <= Len(s) THEN s[i] ELSE t[i - Len(s)]
  BY ConcatProperties
<1>3. Len(s \o t) = 2 * (callers + n - k)
  BY <1>1, <1>2
<1>4. total + n - (callers + n) + k = total - callers + k
  OBVIOUS
<1>5. ASSUME NEW j \in 1 .. Len(s \o t) PROVE (s \o t)[j] = PieceNo(2 * (total - callers + k) + j)
  <2>1. CASE j <= Len(s)
    <3>1. j \in 1 .. Len(s) /\ (s \o t)[j] = s[j]
      BY <2>1, <1>1, <1>2
    <3> QED
      BY <3>1, <1>1
  <2>2. CASE j > Len(s)
    <3>1. j - Len(s) \in 1 .. 2 * n /\ (s \o t)[j] = t[j - Len(s)]
      BY <2>2, <1>1, <1>2
    <3>2. t[j - Len(s)] = PieceNo(2 * total + (j - Len(s)))
      BY <3>1
    <3>3. 2 * total + (j - Len(s)) = 2 * (total - callers + k) + j
      BY <1>1
    <3> QED
      BY <3>1, <3>2, <3>3
  <2> QED
    BY <1>1, <1>2, <2>1, <2>2
<1> QED
  BY <1>3, <1>4, <1>5 DEF Carries

LEMMA CallersJoinEnded ==
    ASSUME NEW s \in Seq(Piece), NEW n \in Nat, NEW total \in Nat, NEW callers \in Nat,
           NEW k \in 0 .. callers, Carries(s, TRUE, total, callers, k)
    PROVE  Carries(s, TRUE, total + n, callers + n, k)
<1>1. total + n - (callers + n) + k = total - callers + k /\ Len(s) \in Nat
  BY LenProperties
<1>2. Len(s) <= 2 * (callers - k) /\ \A j \in 1 .. Len(s) : s[j] = PieceNo(2 * (total - callers + k) + j)
  BY DEF Carries
<1>3. Len(s) <= 2 * (callers + n - k)
  BY <1>1, <1>2
<1> QED
  BY <1>1, <1>2, <1>3 DEF Carries

LEMMA OneLinkStays ==
    ASSUME IInv, OneLink, loop.pc = "dispatch", Head(loop.ne).type = "QUERY", Return,
           proxy'.connid = proxy.connid, \A c \in Conns : link'[c].status = link[c].status,
           proxy.connid = NONE => link' = link, mishaps \subseteq mishaps'
    PROVE  OneLink'
<1>1. Head(loop.ne) = loop.ne[1] /\ Len(loop.ne) \in Nat \ {0}
      /\ \A i \in 1 .. Len(loop.ne) : loop.ne[i] \in Messages
  BY HeadIs
<1>2. /\ Len(loop'.ne) = Len(loop.ne) - 1
      /\ \A i \in 1 .. Len(loop'.ne) : i + 1 \in 1 .. Len(loop.ne) /\ loop'.ne[i] = loop.ne[i + 1]
  BY ReturnKeeps
<1>3. \A c, d \in Conns : link'[c].status # "INVALID" /\ link'[d].status # "INVALID" => c = d
  BY DEF OneLink
<1>4. ASSUME NEW c \in Conns, link'[c].status = "CONNECTED", proxy'.connid # c
      PROVE  \E i \in 1 .. Len(loop'.ne) : loop'.ne[i] = Message("CONNECT", c)
  <2>1. PICK i \in 1 .. Len(loop.ne) : loop.ne[i] = Message("CONNECT", c)
    BY <1>4 DEF OneLink
  <2>2. i # 1
    BY <1>1, <2>1 DEF Message
  <2>3. i - 1 \in 1 .. Len(loop'.ne) /\ (i - 1) + 1 = i
    BY <1>1, <1>2, <2>2
  <2>4. loop'.ne[i - 1] = Message("CONNECT", c)
    BY <1>2, <2>1, <2>3
  <2> QED
    BY <2>3, <2>4
<1>5. \A c \in Conns : link'[c].status = "CONNECTING" => proxy'.connid = NONE
  BY DEF OneLink
<1>6. ASSUME NEW i \in 1 .. Len(loop'.ne), NEW j \in 1 .. Len(loop'.ne),
             loop'.ne[i].type # "QUERY", loop'.ne[j].type # "QUERY"
      PROVE  i = j
  <2>1. i + 1 = j + 1
    BY <1>2, <1>6 DEF OneLink
  <2> QED
    BY <2>1
<1>7. ASSUME NEW i \in 1 .. Len(loop'.ne) PROVE MsgOK(loop.ne[i])'
  <2> DEFINE m == loop.ne[i + 1]
  <2>1. m = loop'.ne[i] /\ m \in Messages /\ MsgOK(m)
    BY <1>1, <1>2 DEF OneLink
  <2>2. m.type # "QUERY" => m.id \in Conns
    BY <2>1, MessageFields
  <2> HIDE DEF m
  <2>3. m.type = "CONNECT" => proxy'.connid = NONE /\ link'[m.id] = NewLink("CONNECTED")
    BY <2>1, <2>2 DEF MsgOK
  <2>4. m.type \in {"CONNERR", "SOCKERR"} => \A c \in Conns : link'[c].status = "INVALID"
    BY <2>1 DEF MsgOK
  <2>5. m.type = "READ" => \/ proxy'.connid = m.id /\ link'[m.id].status = "CONNECTED"
                           \/ proxy'.connid = NONE /\ "senderr" \in mishaps'
    BY <2>1, <2>2 DEF MsgOK
  <2> QED
    BY <2>1, <2>3, <2>4, <2>5 DEF MsgOK
<1> QED
  BY <1>3, <1>4, <1>5, <1>6, <1>7 DEF OneLink
LEMMA UnreadIs ==
    ASSUME Types, reader.pos <= Len(reader.buf)
    PROVE  /\ reader.buf \in Seq(Piece) /\ Len(reader.buf) \in Nat /\ reader.pos \in Nat
           /\ Unread \in Seq(Piece) /\ Len(Unread) = Len(reader.buf) - reader.pos
           /\ \A i \in 1 .. Len(reader.buf) - reader.pos : Unread[i] = reader.buf[reader.pos + i]
           /\ reader.pos = 0 => Unread = reader.buf
<1>1. reader.buf \in Seq(Piece) /\ reader.pos \in Nat /\ Len(reader.buf) \in Nat
  BY LenProperties DEF Types
<1>2. reader.pos \in 0 .. Len(reader.buf)
  BY <1>1
<1>3. /\ Unread \in Seq(Piece) /\ Len(Unread) = Len(reader.buf) - reader.pos
      /\ \A i \in 1 .. Len(reader.buf) - reader.pos : Unread[i] = reader.buf[reader.pos + i]
  BY <1>1, <1>2, RestOf DEF Unread
<1>4. reader.pos = 0 => Unread = reader.buf
  BY <1>1, SubSeqFull DEF Unread
<1> QED
  BY <1>1, <1>3, <1>4

LEMMA OutstandingIs ==
    ASSUME Types, reader.pos <= Len(reader.buf), proxy.connid \in Conns
    PROVE  /\ Unread \in Seq(Piece)
           /\ link[proxy.connid].pipe \in Seq(Piece) /\ link[proxy.connid].todo \in Seq(Piece)
           /\ Outstanding \in Seq(Piece)
           /\ Outstanding = (Unread \o link[proxy.connid].pipe) \o link[proxy.connid].todo
           /\ Outstanding = Unread \o (link[proxy.connid].pipe \o link[proxy.connid].todo)
<1> DEFINE p == link[proxy.connid].pipe
           t == link[proxy.connid].todo
<1>1. Unread \in Seq(Piece)
  BY UnreadIs
<1>2. p \in Seq(Piece) /\ t \in Seq(Piece)
  BY DEF Types, LinkType
<1>3. Outstanding = (Unread \o p) \o t
  BY DEF Outstanding
<1> HIDE DEF p, t
<1>4. (Unread \o p) \o t \in Seq(Piece)
  BY <1>1, <1>2, ConcatProperties
<1>5. (Unread \o p) \o t = Unread \o (p \o t)
  BY <1>1, <1>2, ConcatAssociative
<1> QED
  BY <1>1, <1>2, <1>3, <1>4, <1>5 DEF p, t

\* Callers that find a link send their commands on it.
LEMMA StreamInvGrows ==
    ASSUME IInv, Running, NEW n \in 1 .. MaxCommand, nquery + n <= MaxQuery,
           NEW needreply \in BOOLEAN,
           proxy' = [proxy EXCEPT !.queryq = @ \o Pushed(n, needreply)], nquery' = nquery + n,
           mishaps' = mishaps, reader' = reader, StreamInv,
           link' = IF proxy.connid # NONE /\ link[proxy.connid].status = "CONNECTED"
                      /\ ~ link[proxy.connid].eof
                   THEN [link EXCEPT ![proxy.connid].todo =
                           @ \o RepliesTo([i \in 1 .. n |-> nquery + i])]
                   ELSE link
    PROVE  StreamInv'
<1> DEFINE c == proxy.connid
           N == Len(proxy.queryq)
           r == RepliesTo([i \in 1 .. n |-> nquery + i])
<1>1. /\ proxy \in [connid : Conns \cup {NONE}, queryq : Seq(querylink), abort : Asserts]
      /\ link \in [Conns -> LinkType] /\ nquery \in Nat /\ Types /\ QueueInv
      /\ reader.pos <= Len(reader.buf) /\ n \in Nat
  <2>1. Types /\ QueueInv /\ ReaderInv
    BY Zenon DEF IInv
  <2>2. /\ proxy \in [connid : Conns \cup {NONE}, queryq : Seq(querylink), abort : Asserts]
        /\ link \in [Conns -> LinkType] /\ nquery \in 0 .. MaxQuery
    BY ONLY <2>1, Zenon DEF Types
  <2>3. nquery \in Nat /\ n \in Nat
    BY ONLY <2>2, n \in 1 .. MaxCommand, ProxyAssumption
  <2> QED
    BY <2>1, <2>2, <2>3, Zenon DEF ReaderInv
<1>2. proxy'.connid = c /\ proxy'.queryq = proxy.queryq \o Pushed(n, needreply)
  BY <1>1
<1>3. Len(proxy'.queryq) = N + n /\ N \in Nat
  BY <1>1, <1>2, QueueGrows, LenProperties
<1>4. SUFFICES ASSUME c # NONE, link'[c].status = "CONNECTED"
               PROVE  \E k \in 0 .. N + n :
                        /\ Carries(Outstanding', link'[c].eof, nquery + n, N + n, k)
                        /\ "queued" \in mishaps' \/ k = 0
  BY <1>2, <1>3 DEF StreamInv
<1>5. c \in Conns
  BY <1>1, <1>4
<1>6. link[c].status = "CONNECTED" /\ link'[c].eof = link[c].eof /\ link'[c].pipe = link[c].pipe
      /\ link[c].eof \in BOOLEAN
  BY <1>1, <1>4, <1>5 DEF LinkType
<1>7. PICK k \in 0 .. N : /\ Carries(Outstanding, link[c].eof, nquery, N, k)
                          /\ "queued" \in mishaps \/ k = 0
  BY <1>4, <1>6 DEF StreamInv
<1>8. Outstanding \in Seq(Piece) /\ link[c].todo \in Seq(Piece) /\ link[c].pipe \in Seq(Piece)
      /\ Unread \in Seq(Piece)
      /\ Outstanding = (Unread \o link[c].pipe) \o link[c].todo
  BY <1>1, <1>5, OutstandingIs
<1>9. Outstanding' = (Unread \o link[c].pipe) \o link'[c].todo
  BY <1>2, <1>6 DEF Outstanding, Unread
<1>10. k \in 0 .. N + n
  BY <1>1, <1>3
<1>11. CASE link[c].eof
  <2>1. link' = link
    BY <1>11
  <2>2. Outstanding' = Outstanding
    BY <1>8, <1>9, <2>1, Zenon
  <2>3. Carries(Outstanding, TRUE, nquery, N, k) /\ link[c].eof = TRUE
    BY <1>6, <1>7, <1>11
  <2> HIDE DEF N, c
  <2>4. Carries(Outstanding, TRUE, nquery + n, N + n, k)
    BY <2>3, <1>1, <1>3, <1>8, CallersJoinEnded
  <2> QED
    BY <2>2, <2>3, <2>4, <1>6, <1>7, <1>10, Zenon
<1>12. CASE ~ link[c].eof
  <2>1. link'[c].todo = link[c].todo \o r
    BY <1>1, <1>4, <1>5, <1>6, <1>12 DEF LinkType
  <2>2. r \in Seq(Piece) /\ Len(r) = 2 * n /\ \A j \in 1 .. 2 * n : r[j] = PieceNo(2 * nquery + j)
    <3> DEFINE qs == [i \in 1 .. n |-> nquery + i]
    <3>1. Len(qs) = n
      BY <1>1
    <3>2. \A i \in 1 .. n : qs[i] = nquery + i /\ qs[i] \in Queries
      BY <1>1, ProxyAssumption DEF Queries
    <3> HIDE DEF qs
    <3>4. n \in Nat /\ nquery \in Int
      BY <1>1
    <3>3. /\ RepliesTo(qs) \in Seq(Piece) /\ Len(RepliesTo(qs)) = 2 * n
          /\ \A j \in 1 .. 2 * n : RepliesTo(qs)[j] = PieceNo(2 * nquery + j)
      BY ONLY <3>1, <3>2, <3>4, RepliesInOrder
    <3> QED
      BY <3>3 DEF qs
  <2> HIDE DEF r, c, N
  <2>3. Outstanding' = Outstanding \o r
    <3> DEFINE u == Unread \o link[c].pipe
               v == link[c].todo
    <3>1. u \in Seq(Piece) /\ v \in Seq(Piece) /\ r \in Seq(Piece)
      BY ONLY <1>8, <2>2, ConcatProperties, Zenon
    <3>3. Outstanding = u \o v /\ Outstanding' = u \o (v \o r)
      BY <2>1, <1>8, <1>9
    <3> HIDE DEF u, v
    <3>2. u \o (v \o r) = (u \o v) \o r
      BY ONLY <3>1, PiecesConcat, Zenon
    <3> QED
      BY <3>2, <3>3
  <2>4. Carries(Outstanding, FALSE, nquery, N, k) /\ link[c].eof = FALSE
    BY <1>6, <1>7, <1>12
  <2>5. Carries(Outstanding \o r, FALSE, nquery + n, N + n, k)
    BY <2>2, <2>4, <1>1, <1>3, <1>8, StreamGrows
  <2> QED
    BY <2>3, <2>4, <2>5, <1>6, <1>7, <1>10
<1> QED
  BY <1>11, <1>12
\* The three outcomes of a message with commands.

LEMMA IgnoredKeeps ==
    ASSUME IInv, loop.pc = "dispatch", Head(loop.ne).type = "QUERY", Return,
           UNCHANGED <<proxy, reader, link, nquery, answer, mishaps>>
    PROVE  IInv'
<1>1. Running
  BY HeadIs
<1>2. LoopInv' /\ Running' /\ loop'.pc \in {"poll", "dispatch"}
  BY LoopAfterReturn
<1>3. loop' \in [pc : {"poll", "dispatch", "read", "parse", "parse_full", "abort"}, ne : Seq(Messages)]
  BY ReturnKeeps
<1>4. Types'
  BY <1>3 DEF IInv, Types
<1>5. ReaderInv'
  BY <1>2 DEF IInv, ReaderInv
<1>6. QueueInv' /\ LinkInv'
  BY DEF IInv, QueueInv, InOrder, LinkInv
<1>7. ASSUME OneLink PROVE OneLink'
  BY <1>7, OneLinkStays
<1>8. ASSUME StreamInv PROVE StreamInv'
  <2>1. Outstanding' = Outstanding
    BY DEF Outstanding, Unread
  <2> QED
    BY <1>8, <2>1 DEF StreamInv
<1>9. AnswerIsItsReply'
  BY DEF IInv, AnswerIsItsReply
<1>10. AbortCause'
  BY <1>2, NoCauseNeededAfter
<1> QED
  BY <1>1, <1>2, <1>4, <1>5, <1>6, <1>7, <1>8, <1>9, <1>10 DEF IInv

LEMMA QueuedKeeps ==
    ASSUME IInv, loop.pc = "dispatch", Head(loop.ne).type = "QUERY", Return,
           NEW n \in 1 .. MaxCommand, nquery + n <= MaxQuery, NEW needreply \in BOOLEAN,
           proxy' = [proxy EXCEPT !.queryq = @ \o Pushed(n, needreply)], nquery' = nquery + n,
           UNCHANGED <<reader, answer, mishaps>>,
           link' = IF proxy.connid # NONE /\ link[proxy.connid].status = "CONNECTED"
                      /\ ~ link[proxy.connid].eof
                   THEN [link EXCEPT ![proxy.connid].todo =
                           @ \o RepliesTo([i \in 1 .. n |-> nquery + i])]
                   ELSE link
    PROVE  IInv'
<1>1. /\ proxy \in [connid : Conns \cup {NONE}, queryq : Seq(querylink), abort : Asserts]
      /\ link \in [Conns -> LinkType] /\ nquery \in Nat /\ Types /\ QueueInv /\ n \in Nat
      /\ Running
  <2>1. Running
    BY HeadIs, Zenon
  <2>2. Types /\ QueueInv
    BY Zenon DEF IInv
  <2>3. /\ proxy \in [connid : Conns \cup {NONE}, queryq : Seq(querylink), abort : Asserts]
        /\ link \in [Conns -> LinkType] /\ nquery \in 0 .. MaxQuery
    BY ONLY <2>2, Zenon DEF Types
  <2>4. nquery \in Nat /\ n \in Nat
    BY ONLY <2>3, n \in 1 .. MaxCommand, ProxyAssumption
  <2> QED
    BY <2>1, <2>2, <2>3, <2>4, Zenon
<1>2. proxy'.connid = proxy.connid /\ proxy'.abort = proxy.abort
      /\ proxy'.queryq = proxy.queryq \o Pushed(n, needreply)
  BY <1>1
<1>3. proxy'.queryq \in Seq(querylink) /\ QueueInv'
  <2> DEFINE queryq == proxy'.queryq
  <2>1. queryq = proxy.queryq \o Pushed(n, needreply)
    BY <1>2
  <2> HIDE DEF queryq
  <2>2. Types /\ QueueInv
    BY <1>1
  <2>3. queryq \in Seq(querylink)
    BY <2>1, <2>2, QueueGrows, Zenon
  <2>4. InOrder(queryq, nquery + n)
    BY <2>1, <2>2, QueueGrows, Zenon
  <2>6. QueueInv'
    BY <2>4 DEF QueueInv, queryq
  <2> QED
    BY <2>3, <2>6 DEF queryq
<1>4. proxy' \in [connid : Conns \cup {NONE}, queryq : Seq(querylink), abort : Asserts]
  BY <1>1, <1>2, <1>3
<1>5. LoopInv' /\ Running' /\ loop'.pc \in {"poll", "dispatch"}
  BY <1>2, LoopAfterReturn
<1>6. loop' \in [pc : {"poll", "dispatch", "read", "parse", "parse_full", "abort"}, ne : Seq(Messages)]
  BY ReturnKeeps
<1> DEFINE r == RepliesTo([i \in 1 .. n |-> nquery + i])
<1>7. r \in Seq(Piece)
  <2> DEFINE qs == [i \in 1 .. n |-> nquery + i]
  <2>1. Len(qs) = n
    BY <1>1
  <2>2. \A i \in 1 .. n : qs[i] = nquery + i /\ qs[i] \in Queries
    BY <1>1, ProxyAssumption DEF Queries
  <2> HIDE DEF qs
  <2>3. n \in Nat /\ nquery \in Int
    BY <1>1
  <2>4. RepliesTo(qs) \in Seq(Piece)
    BY ONLY <2>1, <2>2, <2>3, RepliesInOrder
  <2> QED
    BY <2>4 DEF qs
<1>8. ASSUME NEW d \in Conns
      PROVE  /\ link'[d] \in LinkType /\ link'[d].status = link[d].status
             /\ link'[d] # link[d] => link[d].status = "CONNECTED"
  <2>1. link[d] \in LinkType
    BY <1>1
  <2>2. CASE link'[d] = link[d]
    BY <2>1, <2>2
  <2>3. CASE link'[d] # link[d]
    <3>1. d = proxy.connid /\ link[d].status = "CONNECTED" /\ link'[d] = [link[d] EXCEPT !.todo = @ \o r]
      BY <1>1, <2>3
    <3> DEFINE t == link[d].todo \o r
    <3>2. t \in Seq(Piece)
      BY <1>7, <2>1, ConcatProperties DEF LinkType
    <3>3. link'[d] = [link[d] EXCEPT !.todo = t]
      BY <3>1
    <3> HIDE DEF t
    <3>4. link'[d] \in LinkType
      <4> DEFINE x == link'[d]
                 y == link[d]
      <4>1. x = [y EXCEPT !.todo = t] /\ y \in LinkType
        BY <2>1, <3>3
      <4> HIDE DEF x, y
      <4>2. x \in LinkType
        BY <4>1, <3>2 DEF LinkType
      <4> QED
        BY <4>2 DEF x
    <3>5. link'[d].status = link[d].status
      BY <2>1, <3>3 DEF LinkType
    <3> QED
      BY <3>1, <3>4, <3>5
  <2> QED
    BY <2>2, <2>3
<1>9. link' \in [Conns -> LinkType]
  <2>1. DOMAIN link' = Conns /\ link' = [d \in Conns |-> link'[d]]
    BY <1>1
  <2> QED
    BY <1>8, <2>1
<1>10. Types'
  BY <1>1, <1>4, <1>6, <1>9 DEF Types
<1>11. ReaderInv'
  BY <1>5 DEF IInv, ReaderInv
<1>12. LinkInv'
  BY <1>8 DEF IInv, LinkInv
<1>13. ASSUME OneLink PROVE OneLink'
  BY <1>2, <1>8, <1>13, OneLinkStays
<1>14. ASSUME StreamInv PROVE StreamInv'
  BY <1>1, <1>14, StreamInvGrows
<1>15. AnswerIsItsReply'
  BY DEF IInv, AnswerIsItsReply
<1>16. AbortCause'
  BY <1>5, NoCauseNeededAfter
<1> QED
  BY <1>1, <1>3, <1>5, <1>10, <1>11, <1>12, <1>13, <1>14, <1>15, <1>16 DEF IInv

LEMMA LinkFreed ==
    ASSUME IInv, NEW c \in Conns, link' = [link EXCEPT ![c] = FreeLink]
    PROVE  /\ link' \in [Conns -> LinkType] /\ LinkInv'
           /\ link'[c].status = "INVALID"
           /\ \A d \in Conns : d # c => link'[d] = link[d]
<1>1. link \in [Conns -> LinkType] /\ LinkInv
  BY DEF IInv, Types
<1>2. FreeLink \in LinkType /\ FreeLink.status = "INVALID"
  <2>1. <<>> \in Seq(Piece)
    BY EmptySeq
  <2> QED
    BY <2>1 DEF FreeLink, LinkType
<1>3. link'[c] = FreeLink /\ \A d \in Conns : d # c => link'[d] = link[d]
  BY <1>1
<1>4. link' \in [Conns -> LinkType]
  BY <1>1, <1>2
<1>5. LinkInv'
  BY <1>1, <1>2, <1>3 DEF LinkInv
<1> QED
  BY <1>2, <1>3, <1>4, <1>5

LEMMA SendErrKeeps ==
    ASSUME IInv, loop.pc = "dispatch", Head(loop.ne).type = "QUERY", Return,
           proxy.connid # NONE, link[proxy.connid].eof,
           proxy' = Down, link' = [link EXCEPT ![proxy.connid] = FreeLink],
           mishaps' = mishaps \cup
               (IF Contains(Tail(loop.ne), Message("READ", proxy.connid)) THEN {"senderr"} ELSE {}),
           nquery' \in 0 .. MaxQuery, UNCHANGED <<reader, answer>>
    PROVE  IInv'
<1> DEFINE c == proxy.connid
<1>1. Types /\ Running /\ c \in Conns
  BY HeadIs DEF IInv, Types
<1>2. /\ proxy'.connid = NONE /\ proxy'.queryq = <<>> /\ proxy'.abort = proxy.abort
      /\ proxy' \in [connid : Conns \cup {NONE}, queryq : Seq(querylink), abort : Asserts]
      /\ QueueInv' /\ StreamInv'
  BY <1>1, DownIs
<1>3. LoopInv' /\ Running' /\ loop'.pc \in {"poll", "dispatch"}
  BY <1>2, LoopAfterReturn
<1>4. loop' \in [pc : {"poll", "dispatch", "read", "parse", "parse_full", "abort"}, ne : Seq(Messages)]
  BY ReturnKeeps
<1>5. /\ link' \in [Conns -> LinkType] /\ LinkInv' /\ link'[c].status = "INVALID"
      /\ \A d \in Conns : d # c => link'[d] = link[d]
  BY <1>1, LinkFreed
<1>6. mishaps \subseteq mishaps' /\ ("overlap" \in mishaps' => "overlap" \in mishaps)
      /\ mishaps' \subseteq {"queued", "leftover", "overlap", "batched", "senderr"}
  BY <1>1 DEF Types
<1>7. Types'
  BY <1>1, <1>2, <1>4, <1>5, <1>6 DEF Types
<1>8. ReaderInv'
  BY <1>3 DEF IInv, ReaderInv
<1>9. ASSUME "overlap" \notin mishaps' PROVE OneLink'
  <2>1. OneLink
    BY <1>1, <1>6, <1>9 DEF IInv
  <2>2. link[c].status # "INVALID"
    BY <1>1 DEF IInv, LinkInv, FreeLink
  <2>3. \A d \in Conns : link'[d].status = "INVALID"
    BY <1>1, <1>5, <2>1, <2>2 DEF OneLink
  <2>4. Head(loop.ne) = loop.ne[1] /\ Len(loop.ne) \in Nat \ {0}
        /\ \A i \in 1 .. Len(loop.ne) : loop.ne[i] \in Messages
    BY HeadIs
  <2>5. /\ Len(loop'.ne) = Len(loop.ne) - 1 /\ loop'.ne = Tail(loop.ne)
        /\ \A i \in 1 .. Len(loop'.ne) : i + 1 \in 1 .. Len(loop.ne) /\ loop'.ne[i] = loop.ne[i + 1]
    BY ReturnKeeps
  <2>6. ASSUME NEW i \in 1 .. Len(loop'.ne), NEW j \in 1 .. Len(loop'.ne),
               loop'.ne[i].type # "QUERY", loop'.ne[j].type # "QUERY"
        PROVE  i = j
    <3>1. i + 1 = j + 1
      BY <2>1, <2>5, <2>6 DEF OneLink
    <3> QED
      BY <3>1
  <2>7. ASSUME NEW i \in 1 .. Len(loop'.ne) PROVE MsgOK(loop.ne[i])'
    <3> DEFINE m == loop.ne[i + 1]
    <3>1. m = loop'.ne[i] /\ m \in Messages /\ MsgOK(m)
      BY <2>1, <2>4, <2>5 DEF OneLink
    <3> HIDE DEF m
    <3>2. m.type # "CONNECT"
      BY <3>1 DEF MsgOK
    <3>3. ASSUME m.type = "READ" PROVE "senderr" \in mishaps'
      <4>1. m.id = c
        BY <3>1, <3>3 DEF MsgOK
      <4>2. m = Message("READ", c)
        BY <3>1, <3>3, <4>1, MessageFields
      <4>3. Contains(Tail(loop.ne), Message("READ", c))
        BY <2>5, <3>1, <4>2 DEF Contains
      <4> QED
        BY <4>3
    <3> QED
      BY <1>2, <2>3, <3>1, <3>2, <3>3 DEF MsgOK
  <2> QED
    BY <1>2, <2>3, <2>6, <2>7 DEF OneLink
<1>10. AnswerIsItsReply'
  BY <1>6 DEF IInv, AnswerIsItsReply
<1>11. AbortCause'
  BY <1>3, NoCauseNeededAfter
<1> QED
  BY <1>2, <1>3, <1>5, <1>7, <1>8, <1>9, <1>10, <1>11 DEF IInv

LEMMA QueryKeeps == IInv /\ DispatchQuery => IInv'
<1> SUFFICES ASSUME IInv, DispatchQuery PROVE IInv'
  OBVIOUS
<1> DEFINE n == Head(loop.ne).id
           c == proxy.connid
<1>1. loop.pc = "dispatch" /\ Head(loop.ne).type = "QUERY" /\ Return /\ UNCHANGED <<reader, answer>>
  BY DEF DispatchQuery, Dispatching
<1>2. n \in 1 .. MaxCommand
  BY <1>1, HeadIs, MessageFields
<1>3. CASE nquery + n > MaxQuery
  <2>1. UNCHANGED <<proxy, link, nquery, mishaps>>
    BY <1>3 DEF DispatchQuery
  <2> QED
    BY <1>1, <2>1, IgnoredKeeps
<1>4. CASE ~ (nquery + n > MaxQuery)
  <2>1. nquery' = nquery + n
    BY <1>4 DEF DispatchQuery
  <2>2. nquery + n <= MaxQuery /\ nquery + n \in 0 .. MaxQuery
    BY <1>2, <1>4, ProxyAssumption DEF IInv, Types
  <2>3. PICK needreply \in BOOLEAN :
          \/ /\ proxy' = [proxy EXCEPT !.queryq = @ \o Pushed(n, needreply)] /\ UNCHANGED mishaps
             /\ link' = IF c # NONE /\ link[c].status = "CONNECTED" /\ ~ link[c].eof
                        THEN [link EXCEPT ![c].todo =
                                @ \o RepliesTo([i \in 1 .. n |-> nquery + i])]
                        ELSE link
          \/ /\ c # NONE /\ link[c].eof
             /\ proxy' = Down
             /\ link' = [link EXCEPT ![c] = FreeLink]
             /\ mishaps' = mishaps \cup
                  (IF Contains(Tail(loop.ne), Message("READ", c)) THEN {"senderr"} ELSE {})
    BY <1>4 DEF DispatchQuery
  <2> HIDE DEF n
  <2>4. CASE /\ proxy' = [proxy EXCEPT !.queryq = @ \o Pushed(n, needreply)] /\ UNCHANGED mishaps
             /\ link' = IF c # NONE /\ link[c].status = "CONNECTED" /\ ~ link[c].eof
                        THEN [link EXCEPT ![c].todo =
                                @ \o RepliesTo([i \in 1 .. n |-> nquery + i])]
                        ELSE link
    BY <1>1, <1>2, <2>1, <2>2, <2>4, QueuedKeeps
  <2>5. CASE /\ c # NONE /\ link[c].eof
             /\ proxy' = Down
             /\ link' = [link EXCEPT ![c] = FreeLink]
             /\ mishaps' = mishaps \cup
                  (IF Contains(Tail(loop.ne), Message("READ", c)) THEN {"senderr"} ELSE {})
    BY <1>1, <2>1, <2>2, <2>5, SendErrKeeps
  <2> QED
    BY <2>3, <2>4, <2>5
<1> QED
  BY <1>3, <1>4
-----------------------------------------------------------------------------
\* _read

\* The link that is being read is the proxy's.
LEMMA ReadingIs ==
    ASSUME IInv, loop.pc \in {"read", "parse", "parse_full"}
    PROVE  /\ Head(loop.ne).id = proxy.connid /\ Head(loop.ne).type = "READ"
           /\ proxy.connid \in Conns /\ proxy.connid # NONE /\ Running
<1>1. Head(loop.ne) = Message("READ", proxy.connid)
  BY DEF IInv, LoopInv
<1>2. Head(loop.ne).id = proxy.connid /\ Head(loop.ne).type = "READ"
  BY <1>1 DEF Message
<1>3. Head(loop.ne).id \in Conns /\ Running
  BY <1>2, HeadIs, MessageFields
<1>4. -1 \notin Conns
  BY ProxyAssumption
<1> QED
  BY <1>2, <1>3, <1>4 DEF NONE

\* While a link is read, or before the poll, no attempt to connect is about to be
\* reported, so what happens to the links' data does not matter.
LEMMA OneLinkSame ==
    ASSUME IInv, OneLink, loop.pc \in {"poll", "read", "parse", "parse_full"}, loop'.ne = loop.ne,
           proxy'.connid = proxy.connid, \A c \in Conns : link'[c].status = link[c].status,
           mishaps \subseteq mishaps'
    PROVE  OneLink'
<1>1. ASSUME NEW i \in 1 .. Len(loop.ne) PROVE loop.ne[i].type # "CONNECT" /\ loop.ne[i] \in Messages
  <2>1. CASE loop.pc = "poll"
    <3>1. loop.ne = <<>>
      BY <2>1 DEF IInv, LoopInv
    <3> QED
      BY <3>1
  <2>2. CASE loop.pc # "poll"
    <3>1. loop.ne[1].type = "READ" /\ 1 \in 1 .. Len(loop.ne) /\ loop.ne[i] \in Messages
      BY <2>2, ReadingIs, HeadIs
    <3>2. loop.ne[i].type # "QUERY" => i = 1
      BY <3>1 DEF OneLink
    <3> QED
      BY <3>1, <3>2
  <2> QED
    BY <2>1, <2>2
<1>2. ASSUME NEW i \in 1 .. Len(loop'.ne) PROVE MsgOK(loop.ne[i])'
  <2> DEFINE m == loop.ne[i]
  <2>1. m = loop'.ne[i] /\ m \in Messages /\ MsgOK(m) /\ m.type # "CONNECT"
    BY <1>1 DEF OneLink
  <2>2. m.type # "QUERY" => m.id \in Conns
    BY <2>1, MessageFields
  <2> HIDE DEF m
  <2>3. m.type \in {"CONNERR", "SOCKERR"} => \A c \in Conns : link'[c].status = "INVALID"
    BY <2>1 DEF MsgOK
  <2>4. m.type = "READ" => \/ proxy'.connid = m.id /\ link'[m.id].status = "CONNECTED"
                           \/ proxy'.connid = NONE /\ "senderr" \in mishaps'
    BY <2>1, <2>2 DEF MsgOK
  <2> QED
    BY <2>1, <2>3, <2>4 DEF MsgOK
<1>3. \A c, d \in Conns : link'[c].status # "INVALID" /\ link'[d].status # "INVALID" => c = d
  BY DEF OneLink
<1>4. \A c \in Conns : link'[c].status = "CONNECTED" =>
         proxy'.connid = c \/ \E i \in 1 .. Len(loop'.ne) : loop'.ne[i] = Message("CONNECT", c)
  BY DEF OneLink
<1>5. \A c \in Conns : link'[c].status = "CONNECTING" => proxy'.connid = NONE
  BY DEF OneLink
<1>6. \A i, j \in 1 .. Len(loop'.ne) : loop'.ne[i].type # "QUERY" /\ loop'.ne[j].type # "QUERY" => i = j
  BY DEF OneLink
<1> QED
  BY <1>2, <1>3, <1>4, <1>5, <1>6 DEF OneLink

LEMMA OneLinkReturn ==
    ASSUME IInv, OneLink, loop.pc \in {"read", "parse", "parse_full"}, Return, UNCHANGED <<link, proxy>>
    PROVE  OneLink'
<1> DEFINE c == proxy.connid
<1>1. \A i \in 1 .. Len(loop'.ne) : loop'.ne[i].type = "QUERY"
  BY ReadingIs, OnlyQueriesFollow
<1>2. \A d, e \in Conns : link'[d].status # "INVALID" /\ link'[e].status # "INVALID" => d = e
  BY DEF OneLink
<1>3. \A d \in Conns : link'[d].status = "CONNECTING" => proxy'.connid = NONE
  BY DEF OneLink
<1>4. link[c].status = "CONNECTED" /\ c \in Conns
  <2>1. MsgOK(Head(loop.ne))
    BY HeadIs DEF OneLink
  <2> QED
    BY <2>1, ReadingIs DEF MsgOK
<1>5. \A d \in Conns : link'[d].status = "CONNECTED" => proxy'.connid = d
  BY <1>4 DEF OneLink
<1> QED
  BY <1>1, <1>2, <1>3, <1>5, OneLinkLeft

LEMMA ErrOutKeeps ==
    ASSUME IInv, loop.pc \in {"read", "parse", "parse_full"}, ErrOut(Head(loop.ne).id),
           (loop.pc = "read" /\ reader' = reader) \/ reader' = EmptyReader,
           UNCHANGED <<nquery, answer, mishaps>>
    PROVE  IInv'
<1> DEFINE c == proxy.connid
<1>1. Types /\ Running /\ c \in Conns /\ Head(loop.ne).id = c /\ Head(loop.ne).type = "READ"
  BY ReadingIs DEF IInv
<1>2. link' = [link EXCEPT ![c] = FreeLink] /\ proxy' = Down /\ Return
  BY <1>1 DEF ErrOut
<1>3. /\ proxy'.connid = NONE /\ proxy'.abort = proxy.abort
      /\ proxy' \in [connid : Conns \cup {NONE}, queryq : Seq(querylink), abort : Asserts]
      /\ QueueInv' /\ StreamInv'
  BY <1>1, <1>2, DownIs
<1>4. LoopInv' /\ Running' /\ loop'.pc \in {"poll", "dispatch"}
  BY <1>2, <1>3, LoopAfterReturn
<1>5. loop' \in [pc : {"poll", "dispatch", "read", "parse", "parse_full", "abort"}, ne : Seq(Messages)]
  BY <1>2, ReturnKeeps
<1>6. /\ link' \in [Conns -> LinkType] /\ LinkInv' /\ link'[c].status = "INVALID"
      /\ \A d \in Conns : d # c => link'[d] = link[d]
  BY <1>1, <1>2, LinkFreed
<1>7. reader' \in [buf : Seq(Piece), pos : Nat, pos_last : Nat] /\ ReaderInv'
  <2>1. CASE loop.pc = "read" /\ reader' = reader
    BY <1>1, <1>4, <2>1 DEF IInv, ReaderInv, Types
  <2>2. CASE reader' = EmptyReader
    <3>1. <<>> \in Seq(Piece) /\ Len(<<>>) = 0 /\ 0 < Cap /\ 0 <= Cap
      BY EmptySeq, ProxyAssumption
    <3>2. reader' = [buf |-> <<>>, pos |-> 0, pos_last |-> 0]
      BY <2>2 DEF EmptyReader
    <3>3. ReaderInv'
      BY <3>1, <3>2 DEF ReaderInv
    <3> QED
      BY <3>1, <3>2, <3>3
  <2> QED
    BY <2>1, <2>2
<1>8. Types'
  BY <1>1, <1>3, <1>5, <1>6, <1>7 DEF Types
<1>9. ASSUME OneLink PROVE OneLink'
  <2>1. 1 \in 1 .. Len(loop.ne) /\ MsgOK(Head(loop.ne))
    BY <1>9, HeadIs DEF OneLink
  <2>2. link[c].status = "CONNECTED"
    BY <2>1, <1>1, ReadingIs DEF MsgOK
  <2>3. \A d \in Conns : link'[d].status = "INVALID"
    BY <1>1, <1>6, <1>9, <2>2 DEF OneLink
  <2>4. \A i \in 1 .. Len(loop'.ne) : loop'.ne[i].type = "QUERY"
    BY <1>1, <1>2, <1>9, OnlyQueriesFollow
  <2>5. /\ \A d, e \in Conns : link'[d].status # "INVALID" /\ link'[e].status # "INVALID" => d = e
        /\ \A d \in Conns : link'[d].status = "CONNECTED" => proxy'.connid = d
        /\ \A d \in Conns : link'[d].status = "CONNECTING" => proxy'.connid = NONE
    BY <2>3
  <2> QED
    BY <2>4, <2>5, OneLinkLeft
<1>10. AnswerIsItsReply'
  BY DEF IInv, AnswerIsItsReply
<1>11. AbortCause'
  BY <1>4, NoCauseNeededAfter
<1> QED
  BY <1>1, <1>3, <1>4, <1>6, <1>7, <1>8, <1>9, <1>10, <1>11 DEF IInv

\* What the kernel has is moved to the buffer.
LEMMA FillKeeps ==
    ASSUME IInv, loop.pc = "read", Space > 0, NEW nread,
           nread = IF Len(link[proxy.connid].pipe) < Space THEN Len(link[proxy.connid].pipe) ELSE Space,
           reader' = [reader EXCEPT !.buf = @ \o SubSeq(link[proxy.connid].pipe, 1, nread)],
           link' = [link EXCEPT ![proxy.connid].pipe = SubSeq(@, nread + 1, Len(@))],
           loop' = [loop EXCEPT !.pc = IF nread = Space THEN "parse_full" ELSE "parse"],
           UNCHANGED <<proxy, nquery, answer, mishaps>>
    PROVE  IInv'
<1> DEFINE c == proxy.connid
           p == link[c].pipe
           t == link[c].todo
           got == SubSeq(p, 1, nread)
           rest == SubSeq(p, nread + 1, Len(p))
<1>1. /\ Types /\ Running /\ c \in Conns /\ link \in [Conns -> LinkType]
      /\ reader \in [buf : Seq(Piece), pos : Nat, pos_last : Nat]
      /\ loop.pc = "read"
  BY ReadingIs DEF IInv, Types
<1>2. p \in Seq(Piece) /\ t \in Seq(Piece) /\ Len(p) \in Nat
  BY <1>1, LenProperties DEF LinkType
<1>3. /\ reader.buf \in Seq(Piece) /\ Len(reader.buf) \in Nat /\ reader.pos = 0 /\ reader.pos_last = 0
      /\ Unread = reader.buf /\ Len(reader.buf) < Cap /\ Cap \in Nat /\ Space = Cap - Len(reader.buf)
  BY <1>1, UnreadIs, ProxyAssumption DEF IInv, ReaderInv, Space
<1>4. nread \in 0 .. Len(p) /\ nread <= Space /\ (nread # Space => nread < Space)
  <2>1. \A m, a \in Nat :
           LET x == IF m < a THEN m ELSE a IN x \in 0 .. m /\ x <= a /\ (x # a => x < a)
    BY ONLY TRUE
  <2>2. Len(p) \in Nat /\ Space \in Nat
    BY ONLY <1>2, <1>3
  <2> QED
    BY <2>1, <2>2, Zenon
<1>5. loop' = [loop EXCEPT !.pc = IF nread = Space THEN "parse_full" ELSE "parse"] /\ proxy' = proxy
  OBVIOUS
<1>6. /\ reader' = [reader EXCEPT !.buf = reader.buf \o got]
      /\ link' = [link EXCEPT ![c].pipe = rest]
  BY <1>1
<1>7. /\ reader.buf \o got \in Seq(Piece) /\ rest \in Seq(Piece)
      /\ Len(reader.buf \o got) = Len(reader.buf) + nread
      /\ (reader.buf \o got) \o rest = reader.buf \o p
  <2> DEFINE b == reader.buf
  <2>1. b \in Seq(Piece) /\ p \in Seq(Piece) /\ nread \in 0 .. Len(p)
    BY <1>2, <1>3, <1>4
  <2> HIDE DEF b, p
  <2>2. /\ b \o SubSeq(p, 1, nread) \in Seq(Piece) /\ SubSeq(p, nread + 1, Len(p)) \in Seq(Piece)
        /\ Len(b \o SubSeq(p, 1, nread)) = Len(b) + nread
        /\ (b \o SubSeq(p, 1, nread)) \o SubSeq(p, nread + 1, Len(p)) = b \o p
    BY ONLY <2>1, MovePart
  <2> QED
    BY <2>2, Zenon DEF b
<1> HIDE DEF got, rest, p, t
<1>8. /\ loop' \in [pc : {"poll", "dispatch", "read", "parse", "parse_full", "abort"}, ne : Seq(Messages)]
      /\ loop'.ne = loop.ne /\ loop'.pc = IF nread = Space THEN "parse_full" ELSE "parse"
  BY <1>1, <1>5 DEF Types
<1>9. /\ reader' \in [buf : Seq(Piece), pos : Nat, pos_last : Nat]
      /\ reader'.buf = reader.buf \o got /\ reader'.pos = 0 /\ reader'.pos_last = 0
  BY <1>1, <1>3, <1>6, <1>7
<1>10. /\ link' \in [Conns -> LinkType] /\ \A d \in Conns : d # c => link'[d] = link[d]
       /\ link'[c] = [link[c] EXCEPT !.pipe = rest]
  <2>1. link'[c] = [link[c] EXCEPT !.pipe = rest] /\ \A d \in Conns : d # c => link'[d] = link[d]
    BY ONLY <1>1, <1>6, c \in Conns
  <2>2. [link[c] EXCEPT !.pipe = rest] \in LinkType
    <3>1. link[c] \in LinkType /\ rest \in Seq(Piece)
      BY <1>1, <1>7, Zenon
    <3> HIDE DEF c
    <3> QED
      BY ONLY <3>1 DEF LinkType
  <2>3. link' = [link EXCEPT ![c] = [link[c] EXCEPT !.pipe = rest]]
    BY <1>1, <1>6
  <2> DEFINE l == [link[c] EXCEPT !.pipe = rest]
  <2>4. link' = [link EXCEPT ![c] = l] /\ l \in LinkType
    BY <2>2, <2>3
  <2> HIDE DEF c, l
  <2>5. link' \in [Conns -> LinkType]
    BY <1>1, <2>4
  <2> QED
    BY <2>1, <2>5 DEF c
<1>11. /\ link'[c].status = link[c].status /\ link'[c].pipe = rest /\ link'[c].todo = t
       /\ link'[c].eof = link[c].eof
  <2> DEFINE l == link[c]
  <2>1. l \in LinkType
    BY <1>1
  <2> HIDE DEF l
  <2>2. /\ [l EXCEPT !.pipe = rest].status = l.status /\ [l EXCEPT !.pipe = rest].pipe = rest
        /\ [l EXCEPT !.pipe = rest].todo = l.todo /\ [l EXCEPT !.pipe = rest].eof = l.eof
    BY ONLY <2>1 DEF LinkType
  <2> QED
    BY <1>10, <2>2, Zenon DEF l, t
<1>12. Types'
  <2>1. /\ proxy' \in [connid : Conns \cup {NONE}, queryq : Seq(querylink), abort : Asserts]
        /\ nquery' \in 0 .. MaxQuery /\ answer' \in [to : Queries \cup {0}, reply : Queries \cup {0}]
        /\ mishaps' \subseteq {"queued", "leftover", "overlap", "batched", "senderr"}
    BY <1>1, <1>5, Zenon DEF Types
  <2> QED
    BY ONLY <1>8, <1>9, <1>10, <2>1, Zenon DEF Types
<1>13. ReaderInv'
  <2>4. Len(reader'.buf) = Len(reader.buf) + nread /\ nread \in Nat
    <3>1. reader'.buf = reader.buf \o got /\ Len(reader.buf \o got) = Len(reader.buf) + nread
      BY <1>7, <1>9, Zenon
    <3>2. nread \in Nat
      BY ONLY <1>2, <1>4
    <3> QED
      BY ONLY <3>1, <3>2, Zenon
  <2>5. nread <= Cap - Len(reader.buf) /\ (nread # Space => nread < Cap - Len(reader.buf))
    BY <1>3, <1>4
  <2>1. Len(reader'.buf) <= Cap
    BY ONLY <2>4, <2>5, <1>3
  <2>2. loop'.pc = "parse" => Len(reader'.buf) < Cap
    <3>1. loop'.pc = "parse" => nread # Space
      BY <1>8
    <3> QED
      BY ONLY <3>1, <2>4, <2>5, <1>3
  <2>3. loop'.pc \in {"parse", "parse_full"} /\ 0 <= Len(reader'.buf)
    <3>1. 0 <= Len(reader'.buf)
      BY ONLY <2>4, <1>3
    <3> QED
      BY ONLY <3>1, <1>8
  <2> QED
    BY <1>9, <2>1, <2>2, <2>3 DEF ReaderInv
<1>14. QueueInv'
  BY <1>5 DEF IInv, QueueInv
<1>15. LinkInv'
  <2>1. rest = p \/ link[c].status \notin {"INVALID", "CONNECTING"}
    <3>1. ASSUME p = <<>> PROVE rest = p
      BY <3>1, <1>2, <1>4, SubSeqEmpty DEF rest
    <3>2. link[c].status \in {"INVALID", "CONNECTING"} => p = <<>>
      BY <1>1 DEF IInv, LinkInv, FreeLink, NewLink, p
    <3> QED
      BY <3>1, <3>2
  <2>2. link[c].status \in {"INVALID", "CONNECTING"} => link'[c] = link[c]
    <3>1. ASSUME rest = p PROVE link'[c] = link[c]
      <4>1. link[c] \in LinkType /\ link'[c] = [link[c] EXCEPT !.pipe = link[c].pipe]
        BY <1>1, <1>10, <3>1 DEF p
      <4> QED
        BY <4>1 DEF LinkType
    <3> QED
      BY <2>1, <3>1
  <2> HIDE DEF c
  <2> QED
    <3>1. LinkInv
      BY Zenon DEF IInv
    <3>2. \A d \in Conns : link'[d].status = link[d].status
            /\ (link[d].status \in {"INVALID", "CONNECTING"} => link'[d] = link[d])
      BY ONLY <1>10, <1>11, <2>2, Zenon
    <3> QED
      BY ONLY <3>1, <3>2, Zenon DEF LinkInv
<1>16. Running'
  BY <1>1, <1>5 DEF Running
<1>17. LoopInv'
  <2>1. loop.ne # <<>> /\ Head(loop.ne) = Message("READ", proxy.connid)
    BY <1>1 DEF IInv, LoopInv
  <2> QED
    BY <1>5, <1>8, <1>16, <2>1 DEF LoopInv
<1>18. ASSUME OneLink PROVE OneLink'
  <2>1. \A d \in Conns : link'[d].status = link[d].status
    BY <1>10, <1>11
  <2> QED
    BY <1>5, <1>8, <1>18, <2>1, OneLinkSame
<1>19. ASSUME StreamInv PROVE StreamInv'
  <2>1. Outstanding = (reader.buf \o p) \o t
    BY <1>3 DEF Outstanding, p, t
  <2>2. Outstanding' = ((reader.buf \o got) \o rest) \o t
    <3>1. reader'.pos <= Len(reader'.buf)
      BY ONLY <1>3, <1>4, <1>7, <1>9
    <3>2. Unread' = reader.buf \o got
      <4>3. reader'.pos + 1 = 1
        BY ONLY <1>9
      <4>1. Unread' = SubSeq(reader'.buf, 1, Len(reader'.buf))
        BY <4>3 DEF Unread
      <4>2. reader'.buf \in Seq(Piece)
        BY <1>7, <1>9
      <4> QED
        BY ONLY <4>1, <4>2, <1>9, SubSeqFull, Zenon
    <3> QED
      BY <3>2, <1>5, <1>11 DEF Outstanding
  <2>3. Outstanding' = Outstanding
    BY <2>1, <2>2, <1>7
  <2> QED
    BY <1>5, <1>11, <1>19, <2>3 DEF StreamInv
<1>20. AnswerIsItsReply'
  BY DEF IInv, AnswerIsItsReply
<1>21. AbortCause'
  BY <1>16, NoCauseNeededAfter, Zenon
<1> QED
  BY <1>1, <1>12, <1>13, <1>14, <1>15, <1>16, <1>17, <1>18, <1>19, <1>20, <1>21 DEF IInv

LEMMA ReadKeeps == IInv /\ ReadStep => IInv'
<1> SUFFICES ASSUME IInv, ReadStep PROVE IInv'
  OBVIOUS
<1> DEFINE c == Head(loop.ne).id
           p == link[c].pipe
           nread == IF Len(p) < Space THEN Len(p) ELSE Space
<1>1. loop.pc = "read" /\ UNCHANGED <<nquery, answer, mishaps>>
  BY Zenon DEF ReadStep
<1>2. c = proxy.connid
  BY <1>1, ReadingIs, Zenon
<1>3. CASE /\ Space > 0 /\ p # <<>>
           /\ reader' = [reader EXCEPT !.buf = @ \o SubSeq(p, 1, nread)]
           /\ link' = [link EXCEPT ![c].pipe = SubSeq(@, nread + 1, Len(@))]
           /\ loop' = [loop EXCEPT !.pc = IF nread = Space THEN "parse_full" ELSE "parse"]
           /\ UNCHANGED proxy
  <2>1. nread = IF Len(link[proxy.connid].pipe) < Space THEN Len(link[proxy.connid].pipe) ELSE Space
    BY <1>2
  <2>2. /\ reader' = [reader EXCEPT !.buf = @ \o SubSeq(link[proxy.connid].pipe, 1, nread)]
        /\ link' = [link EXCEPT ![proxy.connid].pipe = SubSeq(@, nread + 1, Len(@))]
        /\ loop' = [loop EXCEPT !.pc = IF nread = Space THEN "parse_full" ELSE "parse"]
    BY <1>2, <1>3, Zenon
  <2> HIDE DEF nread
  <2> QED
    BY <1>1, <1>3, <2>1, <2>2, FillKeeps, ZenonT(40)
<1>4. CASE ErrOut(c) /\ UNCHANGED reader
  BY <1>1, <1>4, ErrOutKeeps
<1>5. CASE Return /\ UNCHANGED <<reader, link, proxy>>
  <2>1. Running
    BY <1>1, ReadingIs
  <2>2. LoopInv' /\ Running' /\ loop'.pc \in {"poll", "dispatch"}
    BY <1>1, <1>5, LoopAfterReturn
  <2>3. loop' \in [pc : {"poll", "dispatch", "read", "parse", "parse_full", "abort"}, ne : Seq(Messages)]
    BY <1>1, <1>5, ReturnKeeps
  <2>4. Types'
    BY <1>1, <1>5, <2>3 DEF IInv, Types
  <2>5. ReaderInv'
    BY <1>1, <1>5, <2>2 DEF IInv, ReaderInv
  <2>6. QueueInv' /\ LinkInv'
    BY <1>1, <1>5 DEF IInv, QueueInv, LinkInv
  <2>7. ASSUME OneLink PROVE OneLink'
    BY <1>1, <1>5, <2>7, OneLinkReturn
  <2>8. ASSUME StreamInv PROVE StreamInv'
    <3>1. Outstanding' = Outstanding
      BY <1>5 DEF Outstanding, Unread
    <3> QED
      BY <2>8, <3>1, <1>1, <1>5 DEF StreamInv
  <2>9. AnswerIsItsReply'
    BY <1>1 DEF IInv, AnswerIsItsReply
  <2>10. AbortCause'
    BY <2>2, NoCauseNeededAfter, Zenon
  <2> QED
    BY <1>1, <2>1, <2>2, <2>4, <2>5, <2>6, <2>7, <2>8, <2>9, <2>10, ZenonT(40) DEF IInv
<1> QED
  BY <1>3, <1>4, <1>5, ZenonT(40) DEF ReadStep
\* The results of parsing: what they always say of the buffer ...
LEMMA ResultIs ==
    ASSUME Types, reader.pos <= Len(reader.buf), NEW r \in redis_getreply
    PROVE  /\ r[1] = "SUCCEED" => r[2] \in 1 .. Len(Unread)
           /\ r[1] = "NEXTTIME" => r[2] \in {0, 1} /\ (r[2] = 0 => Unread = <<>>)
<1>1. Len(Unread) \in Nat
  BY UnreadIs
<1>2. CASE Unread = <<>>
  <2>1. r = <<"NEXTTIME", 0>>
    BY <1>2 DEF redis_getreply
  <2> QED
    BY <2>1, <1>2
<1>3. CASE Unread # <<>> /\ Len(Unread) = 1 /\ ~ Unread[1].last
  <2>1. r = <<"NEXTTIME", 1>>
    BY <1>3 DEF redis_getreply
  <2> QED
    BY <2>1
<1>4. CASE /\ Unread # <<>> /\ ~ (Len(Unread) = 1 /\ ~ Unread[1].last)
           /\ Len(Unread) > 1 /\ SubSeq(Unread, 1, 2) = ReplyTo(Unread[1].q)
  <2>1. r = <<"SUCCEED", 2>>
    BY <1>4 DEF redis_getreply
  <2>2. 2 \in 1 .. Len(Unread)
    BY <1>1, <1>4
  <2> QED
    BY <2>1, <2>2
<1>5. CASE /\ Unread # <<>> /\ ~ (Len(Unread) = 1 /\ ~ Unread[1].last)
           /\ ~ (Len(Unread) > 1 /\ SubSeq(Unread, 1, 2) = ReplyTo(Unread[1].q))
  <2>1. r \in {<<"ERROR", 1>>, <<"NEXTTIME", 1>>} \cup {<<"SUCCEED", k>> : k \in 1 .. Len(Unread) \cap 1 .. 2}
    BY <1>5 DEF redis_getreply
  <2>2. CASE r = <<"ERROR", 1>> \/ r = <<"NEXTTIME", 1>>
    BY <2>2
  <2>3. CASE r \in {<<"SUCCEED", k>> : k \in 1 .. Len(Unread) \cap 1 .. 2}
    <3>1. PICK k \in 1 .. Len(Unread) : r = <<"SUCCEED", k>>
      BY <2>3
    <3> QED
      BY <3>1
  <2> QED
    BY <2>1, <2>2, <2>3
<1> QED
  BY <1>2, <1>3, <1>4, <1>5

\* ... and when the stream is in order: whole replies, or the beginning of one.
LEMMA ResultInOrder ==
    ASSUME Types, reader.pos <= Len(reader.buf), proxy.connid \in Conns,
           NEW ended \in BOOLEAN, NEW n \in Nat, NEW k \in 0 .. n,
           Carries(Outstanding, ended, nquery, n, k), NEW r \in redis_getreply
    PROVE  /\ \A i \in 1 .. Len(Unread) : Unread[i] = PieceNo(2 * (nquery - n + k) + i)
           /\ r[1] # "ERROR"
           /\ r[1] = "SUCCEED" => r[2] = 2 /\ Len(Unread) >= 2
           /\ r[1] = "NEXTTIME" => r[2] = 0 \/ (Len(Unread) = 1 /\ ~ Unread[1].last)
<1> DEFINE b == nquery - n + k
           v == link[proxy.connid].pipe \o link[proxy.connid].todo
<1>1. nquery \in Nat /\ b \in Int
  BY ProxyAssumption DEF Types
<1>2. Unread \in Seq(Piece) /\ Len(Unread) \in Nat
  BY UnreadIs, LenProperties
<1>3. Outstanding = Unread \o v /\ v \in Seq(Piece)
  BY OutstandingIs, ConcatProperties
<1>4. \A i \in 1 .. Len(Outstanding) : Outstanding[i] = PieceNo(2 * b + i)
  BY DEF Carries
<1> HIDE DEF b, v
<1>5. \A i \in 1 .. Len(Unread) : Unread[i] = PieceNo(2 * b + i)
  <2>1. Len(Unread \o v) = Len(Unread) + Len(v) /\ Len(v) \in Nat
    BY <1>2, <1>3, ConcatProperties, LenProperties
  <2>2. ASSUME NEW i \in 1 .. Len(Unread) PROVE Unread[i] = PieceNo(2 * b + i)
    <3>1. i \in 1 .. Len(Unread) + Len(v) /\ i <= Len(Unread)
      BY <1>2, <2>1
    <3>2. (Unread \o v)[i] = Unread[i]
      BY <3>1, <1>2, <1>3, ConcatProperties
    <3> QED
      BY <3>1, <3>2, <1>3, <1>4, <2>1
  <2> QED
    BY <2>2
<1>6. /\ PieceNo(2 * b + 1) = [q |-> b + 1, last |-> FALSE]
      /\ PieceNo(2 * b + 2) = [q |-> b + 1, last |-> TRUE]
  <2>1. (2 * b + 1 + 1) \div 2 = b + 1 /\ (2 * b + 2 + 1) \div 2 = b + 1
        /\ (2 * b + 1) % 2 = 1 /\ (2 * b + 2) % 2 = 0
    BY <1>1
  <2>4. ((2 * b + 1) % 2 = 0) = FALSE /\ ((2 * b + 2) % 2 = 0) = TRUE
    BY <2>1
  <2>2. PieceNo(2 * b + 1) = [q |-> b + 1, last |-> FALSE]
    BY <2>1, <2>4, Zenon DEF PieceNo
  <2>3. PieceNo(2 * b + 2) = [q |-> b + 1, last |-> TRUE]
    BY <2>1, <2>4, Zenon DEF PieceNo
  <2> QED
    BY <2>2, <2>3
<1>7. CASE Unread = <<>>
  <2>1. r = <<"NEXTTIME", 0>>
    BY <1>7 DEF redis_getreply
  <2> QED
    BY <2>1, <1>5 DEF b
<1>8. CASE Unread # <<>> /\ Len(Unread) < 2
  <2>4. Len(Unread) # 0
    BY <1>2, <1>8, EmptyIffNone, Zenon
  <2>5. \A m \in Nat : m # 0 /\ m < 2 => m = 1
    OBVIOUS
  <2>1. Len(Unread) = 1
    BY <1>2, <1>8, <2>4, <2>5, Zenon
  <2>2. ~ Unread[1].last
    BY <2>1, <1>5, <1>6
  <2>3. r = <<"NEXTTIME", 1>>
    BY <1>8, <2>1, <2>2 DEF redis_getreply
  <2> QED
    BY <2>1, <2>2, <2>3, <1>5 DEF b
<1>9. CASE Len(Unread) >= 2
  <2>1. Unread[1] = [q |-> b + 1, last |-> FALSE] /\ Unread[2] = [q |-> b + 1, last |-> TRUE]
    BY <1>2, <1>5, <1>6, <1>9
  <2>2. SubSeq(Unread, 1, 2) = ReplyTo(Unread[1].q)
    <3> DEFINE s == SubSeq(Unread, 1, 2)
               t == ReplyTo(b + 1)
    <3>1. \A i \in 1 .. 2 : Unread[i] \in Piece
      BY <1>2, <1>9, ElementOfSeq
    <3>2. s \in Seq(Piece) /\ Len(s) = 2 /\ s[1] = Unread[1] /\ s[2] = Unread[2]
      <4>1. s \in Seq(Piece)
        BY <3>1, SubSeqProperties
      <4>2. Len(s) = IF 1 <= 2 THEN 2 - 1 + 1 ELSE 0
        BY <3>1, SubSeqProperties
      <4>3. \A i \in 1 .. 2 - 1 + 1 : s[i] = Unread[1 + i - 1]
        BY <3>1, SubSeqProperties
      <4>4. s[1] = Unread[1 + 1 - 1] /\ s[2] = Unread[1 + 2 - 1]
        BY <4>3
      <4> QED
        BY <4>1, <4>2, <4>4
    <3>3. t[1] = Unread[1] /\ t[2] = Unread[2] /\ Len(t) = 2
      BY <2>1 DEF ReplyTo
    <3>4. t \in Seq(Piece)
      <4>1. t = <<Unread[1], Unread[2]>>
        BY <2>1 DEF ReplyTo
      <4>2. Unread[1] \in Piece /\ Unread[2] \in Piece
        BY <3>1
      <4> HIDE DEF t
      <4> QED
        BY <4>1, <4>2
    <3> HIDE DEF s, t
    <3>5. \A i \in 1 .. Len(s) : s[i] = t[i]
      BY <3>2, <3>3
    <3>6. s = t
      BY <3>2, <3>3, <3>4, <3>5, SeqEqual
    <3> QED
      BY <3>6, <2>1 DEF s, t
  <2>3. Unread # <<>> /\ Len(Unread) # 1 /\ Len(Unread) > 1
    <3>2. \A m \in Nat : m >= 2 => m # 0 /\ m # 1 /\ m > 1
      OBVIOUS
    <3>1. Len(Unread) # 0 /\ Len(Unread) # 1 /\ Len(Unread) > 1
      BY <1>2, <1>9, <3>2, Zenon
    <3> QED
      BY <3>1, <1>2, EmptyIffNone, Zenon
  <2>4. r = <<"SUCCEED", 2>>
    BY <2>2, <2>3 DEF redis_getreply
  <2> QED
    BY <2>4, <1>5, <1>9 DEF b
<1> QED
  BY <1>2, <1>7, <1>8, <1>9

\* The stream without the reply that was handled is for the callers without the one
\* that got it.
LEMMA StreamShrinks ==
    ASSUME NEW u \in Seq(Piece), NEW v \in Seq(Piece), NEW w \in Seq(Piece), Len(u) >= 2,
           Len(w) = Len(u) - 2, \A i \in 1 .. Len(w) : w[i] = u[i + 2],
           NEW total \in Nat, NEW callers \in Nat, NEW k \in 0 .. callers, NEW ended \in BOOLEAN,
           Carries(u \o v, ended, total, callers, k)
    PROVE  k \in 0 .. callers - 1 /\ Carries(w \o v, ended, total, callers - 1, k)
<1> DEFINE b == total - callers + k
<1>1. Len(u) \in Nat /\ Len(v) \in Nat /\ Len(w) \in Nat
  BY LenProperties
<1>2. Len(u \o v) = Len(u) + Len(v)
      /\ \A i \in 1 .. Len(u) + Len(v) : (u \o v)[i] = IF i <= Len(u) THEN u[i] ELSE v[i - Len(u)]
  BY ConcatProperties
<1>3. Len(w \o v) = Len(w) + Len(v)
      /\ \A i \in 1 .. Len(w) + Len(v) : (w \o v)[i] = IF i <= Len(w) THEN w[i] ELSE v[i - Len(w)]
  BY ConcatProperties
<1>4. /\ \A j \in 1 .. Len(u \o v) : (u \o v)[j] = PieceNo(2 * b + j)
      /\ Len(u \o v) <= 2 * (callers - k)
      /\ ended \/ Len(u \o v) = 2 * (callers - k)
  BY DEF Carries
<1>5. b \in Int /\ total - (callers - 1) + k = b + 1
  OBVIOUS
<1> HIDE DEF b
<1>6. k \in 0 .. callers - 1 /\ Len(w \o v) = Len(u \o v) - 2
  BY <1>1, <1>2, <1>3, <1>4
<1>7. Len(w \o v) <= 2 * (callers - 1 - k)
  BY <1>1, <1>2, <1>4, <1>6
<1>8. ended \/ Len(w \o v) = 2 * (callers - 1 - k)
  <2>1. Len(u \o v) = 2 * (callers - k) => Len(w \o v) = 2 * (callers - 1 - k)
    BY <1>1, <1>2, <1>6
  <2> QED
    BY <2>1, <1>4
<1>9. ASSUME NEW j \in 1 .. Len(w \o v) PROVE (w \o v)[j] = PieceNo(2 * (b + 1) + j)
  <2>1. j + 2 \in 1 .. Len(u \o v) /\ 2 * b + (j + 2) = 2 * (b + 1) + j
    BY <1>1, <1>2, <1>5, <1>6
  <2>2. (u \o v)[j + 2] = PieceNo(2 * (b + 1) + j)
    BY <2>1, <1>4
  <2>3. CASE j <= Len(w)
    <3>1. (w \o v)[j] = w[j] /\ w[j] = u[j + 2]
      BY <2>3, <1>1, <1>3
    <3>2. (u \o v)[j + 2] = u[j + 2]
      BY <2>1, <2>3, <1>1, <1>2
    <3> QED
      BY <2>2, <3>1, <3>2
  <2>4. CASE j > Len(w)
    <3>1. (w \o v)[j] = v[j - Len(w)]
      BY <2>4, <1>1, <1>3
    <3>2. (u \o v)[j + 2] = v[(j + 2) - Len(u)] /\ (j + 2) - Len(u) = j - Len(w)
      BY <2>1, <2>4, <1>1, <1>2
    <3> QED
      BY <2>2, <3>1, <3>2
  <2>5. j <= Len(w) \/ j > Len(w)
    BY <1>1
  <2> QED
    BY <2>3, <2>4, <2>5
<1>10. \A j \in 1 .. Len(w \o v) : (w \o v)[j] = PieceNo(2 * (total - (callers - 1) + k) + j)
  BY <1>5, <1>9
<1> QED
  BY <1>6, <1>7, <1>8, <1>10 DEF Carries

\* While the order was not lost, the link that is read carries the stream, and what
\* was read of it parses into replies.
LEMMA InOrderWhile ==
    ASSUME IInv, loop.pc \in {"parse", "parse_full"}, mishaps \cap {"overlap", "leftover"} = {},
           NEW r \in redis_getreply
    PROVE  \E k \in 0 .. Len(proxy.queryq) :
             /\ Carries(Outstanding, link[proxy.connid].eof, nquery, Len(proxy.queryq), k)
             /\ "queued" \in mishaps \/ k = 0
             /\ \A i \in 1 .. Len(Unread) :
                  Unread[i] = PieceNo(2 * (nquery - Len(proxy.queryq) + k) + i)
             /\ r[1] # "ERROR"
             /\ r[1] = "SUCCEED" => r[2] = 2 /\ Len(Unread) >= 2
             /\ r[1] = "NEXTTIME" => r[2] = 0 \/ (Len(Unread) = 1 /\ ~ Unread[1].last)
<1> DEFINE n == Len(proxy.queryq)
           ended == link[proxy.connid].eof
<1>1. /\ proxy.connid \in Conns /\ proxy.connid # NONE /\ Running
      /\ Head(loop.ne).id = proxy.connid /\ Head(loop.ne).type = "READ"
  BY ReadingIs
<1>2. Types /\ reader.pos <= Len(reader.buf)
  BY DEF IInv, ReaderInv
<1>3. OneLink /\ StreamInv
  BY <1>1 DEF IInv
<1>4. link[proxy.connid].status = "CONNECTED"
  <2>1. MsgOK(Head(loop.ne))
    BY <1>3, HeadIs DEF OneLink
  <2> QED
    BY <2>1, <1>1 DEF MsgOK
<1>5. n \in Nat /\ ended \in BOOLEAN
  BY <1>1, <1>2, LenProperties DEF Types, LinkType
<1>6. PICK k \in 0 .. n : Carries(Outstanding, ended, nquery, n, k) /\ ("queued" \in mishaps \/ k = 0)
  BY <1>1, <1>3, <1>4 DEF StreamInv
<1> HIDE DEF n, ended
<1>7. /\ \A i \in 1 .. Len(Unread) : Unread[i] = PieceNo(2 * (nquery - n + k) + i)
      /\ r[1] # "ERROR"
      /\ r[1] = "SUCCEED" => r[2] = 2 /\ Len(Unread) >= 2
      /\ r[1] = "NEXTTIME" => r[2] = 0 \/ (Len(Unread) = 1 /\ ~ Unread[1].last)
  BY ONLY <1>1, <1>2, <1>5, <1>6, r \in redis_getreply, ResultInOrder
<1> QED
  BY <1>6, <1>7 DEF n, ended

LEMMA TailInOrder ==
    ASSUME Types, QueueInv, proxy.queryq # <<>>
    PROVE  /\ Tail(proxy.queryq) \in Seq(querylink) /\ Len(Tail(proxy.queryq)) = Len(proxy.queryq) - 1
           /\ Len(proxy.queryq) \in Nat \ {0}
           /\ InOrder(Tail(proxy.queryq), nquery)
           /\ Head(proxy.queryq) \in querylink
           /\ Head(proxy.queryq).q = nquery - Len(proxy.queryq) + 1
<1> DEFINE s == proxy.queryq
           t == Tail(s)
<1>1. s \in Seq(querylink) /\ s # <<>> /\ nquery \in Nat
  BY ProxyAssumption DEF Types
<1>2. \A i \in 1 .. Len(s) : s[i].q = nquery - Len(s) + i
  BY DEF QueueInv, InOrder
<1>9. Head(s) = s[1]
  OBVIOUS
<1> HIDE DEF s
<1>3. Len(s) \in Nat \ {0} /\ Head(s) \in querylink
  BY <1>1, EmptySeq, HeadTailProperties
<1>4. t \in Seq(querylink) /\ Len(t) = Len(s) - 1 /\ \A i \in 1 .. Len(t) : t[i] = s[i + 1]
  BY <1>1, HeadTailProperties
<1> HIDE DEF t
<1>5. Head(s).q = nquery - Len(s) + 1
  <2>1. 1 \in 1 .. Len(s)
    BY <1>3
  <2> QED
    BY <2>1, <1>2, <1>9
<1>6. InOrder(t, nquery)
  <2>1. ASSUME NEW i \in 1 .. Len(t) PROVE t[i].q = nquery - Len(t) + i
    <3>1. i + 1 \in 1 .. Len(s) /\ nquery - Len(s) + (i + 1) = nquery - Len(t) + i
      BY <1>1, <1>3, <1>4
    <3>2. s[i + 1].q = nquery - Len(s) + (i + 1)
      BY <3>1, <1>2
    <3> QED
      BY <3>1, <3>2, <1>4
  <2> QED
    BY <2>1 DEF InOrder
<1> QED
  BY <1>3, <1>4, <1>5, <1>6 DEF s, t

\* What is unread after a reply was handled.
LEMMA UnreadAfterReply ==
    ASSUME Types, ReaderInv, NEW n \in 1 .. Len(Unread), reader' = AfterReply(reader.pos + n),
           loop' = loop, loop.pc \in {"parse", "parse_full"}
    PROVE  /\ reader' \in [buf : Seq(Piece), pos : Nat, pos_last : Nat] /\ ReaderInv'
           /\ Unread' \in Seq(Piece) /\ Len(Unread') = Len(Unread) - n
           /\ \A i \in 1 .. Len(Unread') : Unread'[i] = Unread[i + n]
<1> DEFINE b == reader.buf
           p == reader.pos
<1>1. /\ reader \in [buf : Seq(Piece), pos : Nat, pos_last : Nat]
      /\ p <= Len(b) /\ Len(b) <= Cap /\ (loop.pc = "parse" => Len(b) < Cap)
      /\ Cap \in Nat /\ 0 < Cap
  BY ProxyAssumption DEF Types, ReaderInv
<1>2. /\ b \in Seq(Piece) /\ Len(b) \in Nat /\ p \in Nat
      /\ Unread \in Seq(Piece) /\ Len(Unread) = Len(b) - p
      /\ \A i \in 1 .. Len(b) - p : Unread[i] = b[p + i]
  BY <1>1, UnreadIs
<1> HIDE DEF b, p
<1>3. n \in Nat /\ 1 <= n /\ p + n <= Len(b)
  BY <1>2
<1>4. CASE p + n >= Len(b)
  <2>1. reader' = [buf |-> <<>>, pos |-> 0, pos_last |-> 0]
    BY <1>4 DEF AfterReply, EmptyReader, b, p
  <2>2. <<>> \in Seq(Piece) /\ Len(<<>>) = 0 /\ SubSeq(<<>>, 1, 0) = <<>>
    BY EmptySeq, SubSeqEmpty
  <2>3. Unread' = <<>>
    BY <2>1, <2>2 DEF Unread
  <2>4. Len(Unread) - n = 0
    BY <1>2, <1>3, <1>4
  <2>5. ReaderInv'
    BY <2>1, <2>2, <1>1 DEF ReaderInv
  <2>6. reader' \in [buf : Seq(Piece), pos : Nat, pos_last : Nat]
    <3>1. <<>> \in Seq(Piece)
      BY EmptySeq
    <3> QED
      BY ONLY <2>1, <3>1
  <2>7. \A i \in 1 .. Len(Unread') : Unread'[i] = Unread[i + n]
    BY <2>2, <2>3
  <2> QED
    BY <2>2, <2>3, <2>4, <2>5, <2>6, <2>7
<1>5. CASE ~ (p + n >= Len(b))
  <2>1. reader' = [reader EXCEPT !.pos = p + n, !.pos_last = p + n]
    BY <1>5 DEF AfterReply, b, p
  <2>2. p + n \in 0 .. Len(b) /\ p + n \in Nat
    BY <1>2, <1>3
  <2>3. /\ reader' \in [buf : Seq(Piece), pos : Nat, pos_last : Nat]
        /\ reader'.buf = b /\ reader'.pos = p + n /\ reader'.pos_last = p + n
    BY <2>1, <2>2, <1>1 DEF b
  <2>4. Unread' = SubSeq(b, (p + n) + 1, Len(b))
    BY <2>3 DEF Unread
  <2>5. /\ Unread' \in Seq(Piece) /\ Len(Unread') = Len(b) - (p + n)
        /\ \A i \in 1 .. Len(b) - (p + n) : Unread'[i] = b[(p + n) + i]
    BY <2>2, <2>4, <1>2, RestOf
  <2>6. ASSUME NEW i \in 1 .. Len(Unread') PROVE Unread'[i] = Unread[i + n]
    <3>1. i \in 1 .. Len(b) - (p + n) /\ i + n \in 1 .. Len(b) - p /\ (p + n) + i = p + (i + n)
      BY <2>5, <1>2, <1>3
    <3>2. Unread'[i] = b[(p + n) + i] /\ Unread[i + n] = b[p + (i + n)]
      BY <3>1, <2>5, <1>2
    <3> QED
      BY <3>1, <3>2
  <2>7. Len(Unread') = Len(Unread) - n
    BY <2>5, <1>2, <1>3
  <2>8. ReaderInv'
    <3>1. Len(reader'.buf) = Len(b) /\ reader'.pos <= Len(b)
      BY <2>2, <2>3
    <3> QED
      BY <3>1, <2>3, <1>1 DEF ReaderInv
  <2> QED
    BY <2>3, <2>5, <2>6, <2>7, <2>8
<1> QED
  BY <1>4, <1>5

\* A reply for the caller at the head of the queue.
LEMMA AnsweredKeeps ==
    ASSUME IInv, loop.pc \in {"parse", "parse_full"}, NEW r \in redis_getreply, r[1] = "SUCCEED",
           proxy.queryq # <<>>, proxy' = [proxy EXCEPT !.queryq = Popped],
           \/ /\ answer' = [to |-> Head(proxy.queryq).q, reply |-> reader.buf[1].q]
              /\ mishaps' = mishaps \cup (IF reader.pos_last > 0 THEN {"batched"} ELSE {})
           \/ UNCHANGED <<answer, mishaps>>,
           reader' = AfterReply(reader.pos + r[2]), UNCHANGED <<loop, link, nquery>>
    PROVE  IInv'
<1> DEFINE n == Len(proxy.queryq)
           c == proxy.connid
<1>1. /\ Types /\ QueueInv /\ ReaderInv /\ Running /\ nquery \in Nat
      /\ proxy \in [connid : Conns \cup {NONE}, queryq : Seq(querylink), abort : Asserts]
      /\ c \in Conns /\ reader.pos \in Nat
  BY ReadingIs, ProxyAssumption DEF IInv, Types
<1>2. /\ Popped \in Seq(querylink) /\ Len(Popped) = n - 1 /\ n \in Nat \ {0}
      /\ InOrder(Popped, nquery)
      /\ Head(proxy.queryq) \in querylink
      /\ Head(proxy.queryq).q = nquery - n + 1
  BY <1>1, TailInOrder DEF Popped
<1>3. /\ proxy' \in [connid : Conns \cup {NONE}, queryq : Seq(querylink), abort : Asserts]
      /\ proxy'.connid = c /\ proxy'.queryq = Popped /\ proxy'.abort = proxy.abort
  BY <1>1, <1>2
<1>4. /\ Unread \in Seq(Piece) /\ Len(Unread) \in Nat /\ Len(Unread) = Len(reader.buf) - reader.pos
      /\ reader.buf \in Seq(Piece) /\ Len(reader.buf) \in Nat
      /\ reader.pos = reader.pos_last
      /\ reader.pos = 0 => Unread = reader.buf
  BY <1>1, UnreadIs, LenProperties DEF ReaderInv
<1>5. r[2] \in 1 .. Len(Unread)
  BY <1>1, ResultIs DEF ReaderInv
<1>6. /\ reader' \in [buf : Seq(Piece), pos : Nat, pos_last : Nat] /\ ReaderInv'
      /\ Unread' \in Seq(Piece) /\ Len(Unread') = Len(Unread) - r[2]
      /\ \A i \in 1 .. Len(Unread') : Unread'[i] = Unread[i + r[2]]
  BY <1>1, <1>5, UnreadAfterReply
<1>7. reader.buf[1] \in Piece
  <2>1. 1 \in 1 .. Len(reader.buf)
    BY <1>1, <1>4, <1>5
  <2> QED
    BY <2>1, <1>4, ElementOfSeq
<1>8. answer' \in [to : Queries \cup {0}, reply : Queries \cup {0}]
  <2>1. answer \in [to : Queries \cup {0}, reply : Queries \cup {0}]
    BY <1>1 DEF Types
  <2>2. Head(proxy.queryq).q \in Queries /\ reader.buf[1].q \in Queries
    BY <1>2, <1>7 DEF querylink, Piece
  <2> QED
    BY <2>1, <2>2
<1>9. /\ mishaps \subseteq mishaps'
      /\ mishaps' \subseteq {"queued", "leftover", "overlap", "batched", "senderr"}
      /\ mishaps' \cap {"overlap", "leftover"} = mishaps \cap {"overlap", "leftover"}
      /\ "overlap" \in mishaps' <=> "overlap" \in mishaps
      /\ "queued" \in mishaps' <=> "queued" \in mishaps
  <2>1. mishaps \subseteq {"queued", "leftover", "overlap", "batched", "senderr"}
    BY <1>1 DEF Types
  <2>2. mishaps' \in {mishaps, mishaps \cup {"batched"}}
    OBVIOUS
  <2> QED
    BY <2>1, <2>2
<1>10. Types'
  <2>1. /\ loop' \in [pc : {"poll", "dispatch", "read", "parse", "parse_full", "abort"}, ne : Seq(Messages)]
        /\ link' \in [Conns -> LinkType] /\ nquery' \in 0 .. MaxQuery
    BY <1>1 DEF Types
  <2> QED
    BY <2>1, <1>3, <1>6, <1>8, <1>9 DEF Types
<1>11. QueueInv' /\ LinkInv'
  BY <1>2, <1>3 DEF IInv, QueueInv, LinkInv
<1>12. Running' /\ LoopInv'
  BY <1>1, <1>3 DEF IInv, Running, LoopInv
<1>13. ASSUME OneLink PROVE OneLink'
  BY <1>3, <1>9, <1>13, OneLinkSame
<1> DEFINE ended == link[c].eof
<1>14. n \in Nat /\ ended \in BOOLEAN
  BY <1>1, <1>2 DEF Types, LinkType
<1>15. ASSUME mishaps \cap {"overlap", "leftover"} = {}
       PROVE  \E k \in 0 .. n : /\ Carries(Outstanding, ended, nquery, n, k)
                                /\ "queued" \in mishaps \/ k = 0
                                /\ \A i \in 1 .. Len(Unread) : Unread[i] = PieceNo(2 * (nquery - n + k) + i)
                                /\ r[2] = 2 /\ Len(Unread) >= 2
  BY <1>15, InOrderWhile
<1>16. ASSUME mishaps' \cap {"overlap", "leftover"} = {} PROVE StreamInv'
  <2>1. PICK k \in 0 .. n : /\ Carries(Outstanding, ended, nquery, n, k)
                            /\ "queued" \in mishaps \/ k = 0
                            /\ r[2] = 2 /\ Len(Unread) >= 2
    BY <1>9, <1>15, <1>16
  <2> DEFINE v == link[c].pipe \o link[c].todo
             u == Unread
             w == Unread'
  <2>2. Outstanding = u \o v /\ v \in Seq(Piece) /\ u \in Seq(Piece)
    BY <1>1, <1>4, OutstandingIs, ConcatProperties DEF ReaderInv
  <2>3. w \in Seq(Piece) /\ Len(w) = Len(u) - 2 /\ \A i \in 1 .. Len(w) : w[i] = u[i + 2]
    BY <1>6, <2>1
  <2>4. Outstanding' = w \o v
    <3> DEFINE p == link[c].pipe
               t == link[c].todo
    <3>1. p \in Seq(Piece) /\ t \in Seq(Piece) /\ w \in Seq(Piece)
      BY <1>1, <2>3 DEF Types, LinkType
    <3>2. Outstanding' = (w \o p) \o t
      BY <1>3 DEF Outstanding
    <3> HIDE DEF p, t, w
    <3>3. (w \o p) \o t = w \o (p \o t)
      BY ONLY <3>1, PiecesConcat, Zenon
    <3> QED
      BY <3>2, <3>3 DEF p, t
  <2>5. Len(u) >= 2 /\ nquery \in Nat
    BY <1>1, <2>1
  <2> HIDE DEF u, v, w, n, ended
  <2>6. Carries(u \o v, ended, nquery, n, k)
    BY <2>1, <2>2, ZenonT(40)
  <2>7. k \in 0 .. n - 1 /\ Carries(w \o v, ended, nquery, n - 1, k)
    BY ONLY <1>14, <2>2, <2>3, <2>5, <2>6, k \in 0 .. n, StreamShrinks, ZenonT(60)
  <2>8. Len(proxy'.queryq) = n - 1
    BY <1>2, <1>3
  <2>9. \E i \in 0 .. Len(proxy'.queryq) :
           /\ Carries(Outstanding', ended, nquery, Len(proxy'.queryq), i)
           /\ "queued" \in mishaps' \/ i = 0
    BY <2>1, <2>4, <2>7, <2>8, <1>9
  <2> QED
    BY <2>9, <1>3 DEF StreamInv, ended
<1>17. AnswerIsItsReply'
  <2>1. CASE mishaps' # {}
    BY <2>1 DEF AnswerIsItsReply
  <2>2. CASE UNCHANGED <<answer, mishaps>>
    BY <2>2 DEF IInv, AnswerIsItsReply
  <2>3. CASE /\ mishaps' = {} /\ mishaps' = mishaps \cup (IF reader.pos_last > 0 THEN {"batched"} ELSE {})
             /\ answer' = [to |-> Head(proxy.queryq).q, reply |-> reader.buf[1].q]
    <3>1. mishaps = {} /\ ~ (reader.pos_last > 0)
      BY <2>3
    <3>2. reader.pos = 0 /\ Unread = reader.buf
      BY <1>1, <1>4, <3>1
    <3>3. PICK k \in 0 .. n : /\ "queued" \in mishaps \/ k = 0
                              /\ \A i \in 1 .. Len(Unread) : Unread[i] = PieceNo(2 * (nquery - n + k) + i)
                              /\ Len(Unread) >= 2
      BY <1>15, <3>1
    <3>4. k = 0
      BY <3>1, <3>3
    <3>5. 1 \in 1 .. Len(Unread)
      BY <1>4, <3>3
    <3> DEFINE b == nquery - n
    <3>7. b \in Int /\ nquery - n + k = b /\ Head(proxy.queryq).q = b + 1
      BY <1>1, <1>2, <3>4
    <3> HIDE DEF b, n
    <3>6. Unread[1] = PieceNo(2 * b + 1)
      BY <3>3, <3>5, <3>7
    <3>8. PieceNo(2 * b + 1).q = b + 1
      <4>1. (2 * b + 1 + 1) \div 2 = b + 1
        BY <3>7
      <4>2. PieceNo(2 * b + 1) = [q |-> b + 1, last |-> (2 * b + 1) % 2 = 0]
        BY <4>1, Zenon DEF PieceNo
      <4> QED
        BY <4>2
    <3>9. answer'.to = answer'.reply
      BY <2>3, <3>2, <3>6, <3>7, <3>8
    <3> QED
      BY <3>9 DEF AnswerIsItsReply
  <2> QED
    BY <2>1, <2>2, <2>3
<1>18. AbortCause'
  BY <1>12, NoCauseNeededAfter
<1> QED
  BY <1>1, <1>6, <1>9, <1>10, <1>11, <1>12, <1>13, <1>16, <1>17, <1>18 DEF IInv

\* A reply that nobody waits for: not while the order was not lost.
LEMMA NobodyWaits ==
    ASSUME IInv, loop.pc \in {"parse", "parse_full"}, NEW r \in redis_getreply, r[1] = "SUCCEED",
           proxy.queryq = <<>>, Abort("ql"), UNCHANGED <<reader, link, nquery, answer, mishaps>>
    PROVE  IInv'
<1>1. "ql" \in Asserts \ {"none"} /\ Types
  BY DEF Asserts, IInv
<1>2. proxy'.abort = "ql"
  BY <1>1, AbortMeansNot
<1>3. ASSUME mishaps \cap {"overlap", "leftover"} = {} PROVE FALSE
  <2>1. Len(proxy.queryq) = 0
    BY EmptySeq
  <2>2. PICK k \in 0 .. Len(proxy.queryq) :
          /\ Carries(Outstanding, link[proxy.connid].eof, nquery, Len(proxy.queryq), k)
          /\ Len(Unread) >= 2
    BY <1>3, InOrderWhile
  <2>3. Len(Outstanding) <= 2 * (0 - k) /\ k = 0
    BY <2>1, <2>2 DEF Carries
  <2> DEFINE v == link[proxy.connid].pipe \o link[proxy.connid].todo
             u == Unread
  <2>4. Outstanding = u \o v /\ v \in Seq(Piece) /\ u \in Seq(Piece)
    <3>1. reader.pos <= Len(reader.buf) /\ proxy.connid \in Conns
      BY ReadingIs DEF IInv, ReaderInv
    <3> QED
      BY <1>1, <3>1, OutstandingIs, ConcatProperties
  <2> HIDE DEF u, v
  <2>5. Len(u \o v) = Len(u) + Len(v) /\ Len(u) \in Nat /\ Len(v) \in Nat
    BY <2>4, ConcatProperties, LenProperties
  <2>6. Len(u) >= 2 /\ Len(u \o v) <= 0
    BY <2>2, <2>3, <2>4 DEF u
  <2> QED
    BY ONLY <2>5, <2>6
<1>4. AbortCause'
  BY <1>2, <1>3 DEF AbortCause
<1> QED
  BY <1>1, <1>4, AbortKeeps

\* Part of a reply alone in the buffer, or bytes that do not belong together.
LEMMA PartAlone ==
    ASSUME IInv, loop.pc \in {"parse", "parse_full"}, NEW r \in redis_getreply, r[1] = "NEXTTIME",
           reader.pos + r[2] > 0, reader.pos_last = 0, Abort("pos_last"),
           UNCHANGED <<reader, link, nquery, answer, mishaps>>
    PROVE  IInv'
<1>1. "pos_last" \in Asserts \ {"none"} /\ Types
  BY DEF Asserts, IInv
<1>2. proxy'.abort = "pos_last"
  BY <1>1, AbortMeansNot
<1>3. reader.pos = 0 /\ Unread = reader.buf
  BY <1>1, UnreadIs DEF IInv, ReaderInv
<1>4. r[2] # 0
  BY <1>3
<1>5. ASSUME mishaps \cap {"overlap", "leftover"} = {}
      PROVE  Len(reader.buf) = 1 /\ ~ Head(reader.buf).last
  <2>1. Len(reader.buf) = 1 /\ ~ reader.buf[1].last
    BY <1>3, <1>4, <1>5, InOrderWhile
  <2> QED
    BY <2>1
<1>6. AbortCause'
  BY <1>2, <1>5 DEF AbortCause
<1> QED
  BY <1>1, <1>6, AbortKeeps

\* Part of a reply behind others, or nothing: what was answered leaves the buffer.
LEMMA PartMoves ==
    ASSUME IInv, loop.pc \in {"parse", "parse_full"}, NEW r \in redis_getreply, r[1] = "NEXTTIME",
           ~ (reader.pos + r[2] > 0 /\ reader.pos_last = 0), reader' = AfterPart,
           (loop.pc = "parse_full" /\ loop' = [loop EXCEPT !.pc = "read"]) \/ Return,
           UNCHANGED <<proxy, link, nquery, answer, mishaps>>
    PROVE  IInv'
<1> DEFINE w == Unread
<1>1. /\ Types /\ Running /\ ReaderInv
      /\ loop \in [pc : {"poll", "dispatch", "read", "parse", "parse_full", "abort"}, ne : Seq(Messages)]
  BY ReadingIs DEF IInv, Types
<1>2. /\ reader.pos_last = reader.pos /\ reader.pos <= Len(reader.buf) /\ Len(reader.buf) <= Cap
      /\ Cap \in Nat /\ 0 < Cap
  BY <1>1, ProxyAssumption DEF ReaderInv
<1>3. /\ reader.pos \in Nat /\ Len(reader.buf) \in Nat
      /\ w \in Seq(Piece) /\ Len(w) = Len(reader.buf) - reader.pos
  BY <1>1, <1>2, UnreadIs
<1>4. Len(w) < Cap
  <2>1. r[2] \in {0, 1} /\ (r[2] = 0 => w = <<>>)
    BY <1>1, <1>2, ResultIs
  <2>2. CASE r[2] = 0
    <3>1. Len(w) = 0
      BY <2>1, <2>2, EmptySeq
    <3> QED
      BY <3>1, <1>2
  <2>3. CASE r[2] = 1
    <3>1. reader.pos > 0
      BY <2>3, <1>2, <1>3
    <3> QED
      BY <3>1, <1>2, <1>3
  <2> QED
    BY <2>1, <2>2, <2>3
<1>5. reader' = [buf |-> w, pos |-> 0, pos_last |-> 0]
  BY <1>2 DEF AfterPart, Unread
<1> HIDE DEF w
<1>6. Unread' = w
  <2>1. Unread' = SubSeq(reader'.buf, reader'.pos + 1, Len(reader'.buf))
    BY DEF Unread
  <2>2. Unread' = SubSeq(w, 1, Len(w))
    BY <2>1, <1>5
  <2> QED
    BY <2>2, <1>3, SubSeqFull
<1>7. reader' \in [buf : Seq(Piece), pos : Nat, pos_last : Nat]
  BY <1>3, <1>5
<1>8. /\ loop' \in [pc : {"poll", "dispatch", "read", "parse", "parse_full", "abort"}, ne : Seq(Messages)]
      /\ LoopInv' /\ Running' /\ loop'.pc \in {"poll", "dispatch", "read"}
  <2>1. CASE loop' = [loop EXCEPT !.pc = "read"]
    <3>1. /\ loop' \in [pc : {"poll", "dispatch", "read", "parse", "parse_full", "abort"}, ne : Seq(Messages)]
          /\ loop'.pc = "read" /\ loop'.ne = loop.ne
      BY <1>1, <2>1
    <3>2. loop.ne # <<>> /\ Head(loop.ne) = Message("READ", proxy.connid)
      BY DEF IInv, LoopInv
    <3>3. Running'
      BY <1>1 DEF Running
    <3> QED
      BY <3>1, <3>2, <3>3 DEF LoopInv
  <2>2. CASE Return
    BY <2>2, ReturnKeeps, LoopAfterReturn
  <2> QED
    BY <2>1, <2>2
<1>9. Types'
  BY <1>1, <1>7, <1>8 DEF Types
<1>10. ReaderInv'
  BY <1>2, <1>3, <1>4, <1>5 DEF ReaderInv
<1>11. QueueInv' /\ LinkInv'
  BY DEF IInv, QueueInv, InOrder, LinkInv
<1>12. ASSUME OneLink PROVE OneLink'
  <2>1. CASE loop' = [loop EXCEPT !.pc = "read"]
    <3>1. loop'.ne = loop.ne
      BY <1>1, <2>1
    <3> QED
      BY <3>1, <1>12, OneLinkSame
  <2>2. CASE Return
    BY <2>2, <1>12, OneLinkReturn
  <2> QED
    BY <2>1, <2>2
<1>13. ASSUME StreamInv PROVE StreamInv'
  <2>1. Outstanding' = Outstanding
    BY <1>6 DEF Outstanding, w
  <2> QED
    BY <2>1, <1>13 DEF StreamInv
<1>14. AnswerIsItsReply'
  BY DEF IInv, AnswerIsItsReply
<1>15. AbortCause'
  BY <1>8, NoCauseNeededAfter
<1> QED
  BY <1>1, <1>8, <1>9, <1>10, <1>11, <1>12, <1>13, <1>14, <1>15 DEF IInv

LEMMA ParseKeeps == IInv /\ ParseStep => IInv'
<1> SUFFICES ASSUME IInv, ParseStep PROVE IInv'
  OBVIOUS
<1>1. loop.pc \in {"parse", "parse_full"} /\ nquery' = nquery
  BY DEF ParseStep
<1>2. PICK r \in redis_getreply :
         \/ /\ r[1] = "SUCCEED"
            /\ HandleReply(reader.pos + r[2])
            /\ UNCHANGED link
         \/ /\ r[1] = "ERROR"
            /\ reader' = EmptyReader
            /\ ErrOut(Head(loop.ne).id)
            /\ UNCHANGED <<answer, mishaps>>
         \/ /\ r[1] = "NEXTTIME"
            /\ IF reader.pos + r[2] > 0 /\ reader.pos_last = 0
               THEN Abort("pos_last") /\ UNCHANGED reader
               ELSE /\ reader' = AfterPart
                    /\ IF loop.pc = "parse_full" THEN loop' = [loop EXCEPT !.pc = "read"] ELSE Return
                    /\ UNCHANGED proxy
            /\ UNCHANGED <<link, answer, mishaps>>
  BY DEF ParseStep
<1>3. CASE r[1] = "SUCCEED" /\ HandleReply(reader.pos + r[2]) /\ UNCHANGED link
  <2>1. CASE proxy.queryq = <<>>
    <3>1. Abort("ql") /\ UNCHANGED <<reader, answer, mishaps>>
      BY <1>3, <2>1 DEF HandleReply
    <3> QED
      BY <3>1, <1>1, <1>3, <2>1, NobodyWaits
  <2>2. CASE proxy.queryq # <<>>
    <3>1. /\ proxy' = [proxy EXCEPT !.queryq = Popped]
          /\ \/ /\ answer' = [to |-> Head(proxy.queryq).q, reply |-> reader.buf[1].q]
                /\ mishaps' = mishaps \cup (IF reader.pos_last > 0 THEN {"batched"} ELSE {})
             \/ UNCHANGED <<answer, mishaps>>
          /\ reader' = AfterReply(reader.pos + r[2])
          /\ UNCHANGED loop
      BY <1>3, <2>2 DEF HandleReply
    <3> QED
      BY <3>1, <1>1, <1>3, <2>2, AnsweredKeeps
  <2> QED
    BY <2>1, <2>2
<1>4. CASE reader' = EmptyReader /\ ErrOut(Head(loop.ne).id) /\ UNCHANGED <<answer, mishaps>>
  BY <1>1, <1>4, ErrOutKeeps
<1>5. CASE /\ r[1] = "NEXTTIME"
           /\ IF reader.pos + r[2] > 0 /\ reader.pos_last = 0
              THEN Abort("pos_last") /\ UNCHANGED reader
              ELSE /\ reader' = AfterPart
                   /\ IF loop.pc = "parse_full" THEN loop' = [loop EXCEPT !.pc = "read"] ELSE Return
                   /\ UNCHANGED proxy
           /\ UNCHANGED <<link, answer, mishaps>>
  <2>1. CASE reader.pos + r[2] > 0 /\ reader.pos_last = 0
    BY <2>1, <1>1, <1>5, PartAlone
  <2>2. CASE ~ (reader.pos + r[2] > 0 /\ reader.pos_last = 0)
    BY <2>2, <1>1, <1>5, PartMoves
  <2> QED
    BY <2>1, <2>2
<1> QED
  BY <1>2, <1>3, <1>4, <1>5
-----------------------------------------------------------------------------
\* redisproxy_time

\* A new link, or the beginning of one, next to those there are.
LEMMA OneLinkNew ==
    ASSUME IInv, OneLink, loop.pc = "poll", loop' = loop, NEW c \in Conns,
           \A d \in Conns : link[d].status = "INVALID", proxy.connid = NONE,
           NEW status \in {"CONNECTING", "CONNECTED"},
           link' = [link EXCEPT ![c] = NewLink(status)],
           proxy'.connid = IF status = "CONNECTED" THEN c ELSE NONE
    PROVE  OneLink'
<1>1. loop'.ne = <<>> /\ Len(<<>>) = 0
  BY EmptySeq DEF IInv, LoopInv
<1>2. \A i \in 1 .. Len(loop'.ne) : loop'.ne[i].type = "QUERY"
  BY <1>1
<1>3. link'[c].status = status /\ \A d \in Conns : d # c => link'[d].status = "INVALID"
  BY DEF IInv, Types, NewLink, FreeLink
<1>4. \A d, e \in Conns : link'[d].status # "INVALID" /\ link'[e].status # "INVALID" => d = e
  BY <1>3
<1>5. \A d \in Conns : link'[d].status = "CONNECTED" => proxy'.connid = d
  BY <1>3
<1>6. \A d \in Conns : link'[d].status = "CONNECTING" => proxy'.connid = NONE
  BY <1>3
<1> QED
  BY <1>2, <1>4, <1>5, <1>6, OneLinkLeft

LEMMA NewLinkIs ==
    ASSUME IInv, NEW c \in Conns, NEW status \in {"CONNECTING", "CONNECTED"},
           link' = [link EXCEPT ![c] = NewLink(status)]
    PROVE  /\ link' \in [Conns -> LinkType] /\ LinkInv' /\ link'[c] = NewLink(status)
           /\ link'[c].pipe = <<>> /\ link'[c].todo = <<>>
<1>1. link \in [Conns -> LinkType] /\ LinkInv
  BY DEF IInv, Types
<1>2. <<>> \in Seq(Piece)
  BY EmptySeq
<1>8. FreeLink \in LinkType /\ FreeLink.pipe = <<>> /\ FreeLink.todo = <<>>
  BY <1>2 DEF FreeLink, LinkType
<1>3. NewLink(status).status = status /\ NewLink(status).pipe = <<>> /\ NewLink(status).todo = <<>>
  BY <1>8 DEF NewLink, LinkType
<1>4. NewLink(status) \in LinkType
  BY <1>8 DEF NewLink, LinkType
<1>5. link'[c] = NewLink(status) /\ \A d \in Conns : d # c => link'[d] = link[d]
  BY <1>1
<1>6. link' \in [Conns -> LinkType]
  BY <1>1, <1>4
<1>7. LinkInv'
  <2>1. link'[c].status = status
    BY <1>3, <1>5
  <2> QED
    BY <1>1, <1>5, <2>1 DEF LinkInv
<1> QED
  BY <1>3, <1>5, <1>6, <1>7

LEMMA TimeKeeps == IInv /\ redisproxy_time => IInv'
<1> SUFFICES ASSUME IInv, redisproxy_time PROVE IInv'
  OBVIOUS
<1>1. loop.pc = "poll" /\ proxy.connid = NONE /\ UNCHANGED <<reader, loop, nquery, answer>>
  BY DEF redisproxy_time, Connects
<1>2. /\ Types /\ Running /\ QueueInv /\ ReaderInv
      /\ proxy \in [connid : Conns \cup {NONE}, queryq : Seq(querylink), abort : Asserts]
      /\ reader \in [buf : Seq(Piece), pos : Nat, pos_last : Nat]
      /\ mishaps \subseteq {"queued", "leftover", "overlap", "batched", "senderr"}
  BY <1>1 DEF IInv, Types, LoopInv
<1> DEFINE Starts(c) == /\ link' = [link EXCEPT ![c] = NewLink("CONNECTING")]
                        /\ mishaps' = mishaps \cup Overlap
                        /\ UNCHANGED proxy
           Connected(c) == /\ link' = [link EXCEPT ![c] = NewLink("CONNECTED")]
                           /\ mishaps' = mishaps \cup Overlap \cup CarriedOver
                           /\ proxy' = Up(c)
           Refused == proxy' = Down /\ UNCHANGED <<link, mishaps>>
<1>3. (\E c \in Conns : Starts(c)) \/ (\E c \in Conns : Connected(c)) \/ Refused
  BY DEF redisproxy_time
<1>4. ASSUME NEW c \in Conns, Starts(c) \/ Connected(c),
             proxy' \in [connid : Conns \cup {NONE}, queryq : Seq(querylink), abort : Asserts],
             proxy'.queryq = proxy.queryq, proxy'.abort = proxy.abort,
             NEW status \in {"CONNECTING", "CONNECTED"},
             link' = [link EXCEPT ![c] = NewLink(status)],
             proxy'.connid = IF status = "CONNECTED" THEN c ELSE NONE,
             status = "CONNECTED" => mishaps' = mishaps \cup Overlap \cup CarriedOver
      PROVE  IInv'
  <2>1. /\ mishaps \subseteq mishaps' /\ Overlap \subseteq mishaps'
        /\ mishaps' \subseteq {"queued", "leftover", "overlap", "batched", "senderr"}
    BY <1>2, <1>4 DEF Overlap, CarriedOver
  <2>2. /\ link' \in [Conns -> LinkType] /\ LinkInv' /\ link'[c] = NewLink(status)
        /\ link'[c].pipe = <<>> /\ link'[c].todo = <<>>
    BY <1>4, NewLinkIs
  <2>3. Types'
    BY <1>1, <1>2, <1>4, <2>1, <2>2 DEF Types
  <2>4. ReaderInv'
    BY <1>1, <1>2 DEF ReaderInv
  <2>5. QueueInv'
    BY <1>1, <1>2, <1>4 DEF QueueInv
  <2>6. Running' /\ LoopInv'
    BY <1>1, <1>2, <1>4 DEF IInv, Running, LoopInv
  <2>7. ASSUME "overlap" \notin mishaps' PROVE OneLink'
    <3>1. OneLink
      BY <1>2, <2>1, <2>7 DEF IInv
    <3>2. \A d \in Conns : link[d].status = "INVALID"
      BY <2>1, <2>7 DEF Overlap
    <3> QED
      BY <3>1, <3>2, <1>1, <1>4, OneLinkNew
  <2>8. ASSUME mishaps' \cap {"overlap", "leftover"} = {} PROVE StreamInv'
    <3>1. CASE status = "CONNECTING"
      BY <3>1, <1>4 DEF StreamInv
    <3>2. CASE status = "CONNECTED"
      <4>1. /\ "leftover" \notin mishaps' => reader.buf = <<>>
            /\ "queued" \notin mishaps' => proxy.queryq = <<>>
        BY <3>2, <1>4 DEF CarriedOver
      <4>2. reader.buf = <<>> /\ reader.pos = 0 /\ proxy'.connid = c
        BY <4>1, <2>8, <3>2, <1>1, <1>2, <1>4 DEF ReaderInv
      <4>3. SubSeq(<<>>, 1, 0) = <<>>
        BY SubSeqEmpty
      <4>4. Unread' = <<>>
        BY <1>1, <4>2, <4>3 DEF Unread
      <4>5. Outstanding' = <<>>
        <5>1. Outstanding' = Unread' \o link'[c].pipe \o link'[c].todo
          BY <4>2 DEF Outstanding
        <5> QED
          BY <5>1, <4>4, <2>2
      <4>6. Len(proxy.queryq) \in Nat /\ (proxy.queryq = <<>> => Len(proxy.queryq) = 0)
        BY <1>2, LenProperties
      <4>7. Carries(Outstanding', link'[c].eof, nquery', Len(proxy.queryq), Len(proxy.queryq))
        BY <4>5, <4>6 DEF Carries
      <4>8. "queued" \in mishaps' \/ Len(proxy.queryq) = 0
        BY <4>1, <4>6
      <4>9. Len(proxy.queryq) \in 0 .. Len(proxy'.queryq)
        BY <4>6, <1>4
      <4> QED
        BY <4>2, <4>7, <4>8, <4>9, <1>4 DEF StreamInv
    <3> QED
      BY <3>1, <3>2
  <2>9. AnswerIsItsReply'
    BY <1>1, <2>1 DEF IInv, AnswerIsItsReply
  <2>10. AbortCause'
    BY <2>6, NoCauseNeededAfter
  <2> QED
    BY <2>2, <2>3, <2>4, <2>5, <2>6, <2>7, <2>8, <2>9, <2>10 DEF IInv
<1>5. ASSUME NEW c \in Conns, Starts(c) PROVE IInv'
  <2>1. /\ proxy' \in [connid : Conns \cup {NONE}, queryq : Seq(querylink), abort : Asserts]
        /\ proxy'.queryq = proxy.queryq /\ proxy'.abort = proxy.abort /\ proxy'.connid = NONE
    BY <1>1, <1>2, <1>5
  <2> QED
    BY <2>1, <1>4, <1>5
<1>6. ASSUME NEW c \in Conns, Connected(c) PROVE IInv'
  <2>1. /\ proxy' \in [connid : Conns \cup {NONE}, queryq : Seq(querylink), abort : Asserts]
        /\ proxy'.queryq = proxy.queryq /\ proxy'.abort = proxy.abort /\ proxy'.connid = c
    BY <1>1, <1>2, <1>6 DEF Up
  <2> QED
    BY <2>1, <1>4, <1>6
<1>7. CASE Refused
  <2>1. /\ proxy'.connid = NONE /\ proxy'.queryq = <<>> /\ proxy'.abort = proxy.abort
        /\ proxy' \in [connid : Conns \cup {NONE}, queryq : Seq(querylink), abort : Asserts]
        /\ QueueInv' /\ StreamInv'
    BY <1>2, <1>7, DownIs
  <2>2. Types'
    BY <1>1, <1>2, <1>7, <2>1 DEF Types
  <2>3. ReaderInv' /\ LinkInv'
    BY <1>1, <1>7 DEF IInv, ReaderInv, LinkInv
  <2>4. Running' /\ LoopInv'
    BY <1>1, <1>2, <2>1 DEF IInv, Running, LoopInv
  <2>5. ASSUME OneLink PROVE OneLink'
    BY <1>1, <1>7, <2>1, <2>5, OneLinkSame
  <2>6. AnswerIsItsReply'
    BY <1>1, <1>7 DEF IInv, AnswerIsItsReply
  <2>7. AbortCause'
    BY <2>4, NoCauseNeededAfter
  <2> QED
    BY <1>2, <1>7, <2>1, <2>2, <2>3, <2>4, <2>5, <2>6, <2>7 DEF IInv
<1> QED
  BY <1>3, <1>5, <1>6, <1>7
-----------------------------------------------------------------------------
\* Redis and the network

\* What a connected link carries changes, between two steps of the thread.
LEMMA LinkChanged ==
    ASSUME IInv, loop.pc \in {"poll", "read"}, NEW c \in Conns, NEW l \in LinkType,
           link[c].status = "CONNECTED", l.status = "CONNECTED", link' = [link EXCEPT ![c] = l],
           UNCHANGED <<proxy, reader, loop, nquery, answer, mishaps>>,
           proxy.connid = c /\ StreamInv => StreamInv'
    PROVE  IInv'
<1>1. Types /\ Running /\ link \in [Conns -> LinkType]
  BY DEF IInv, Types, LoopInv
<1>2. link'[c] = l /\ \A d \in Conns : d # c => link'[d] = link[d]
  BY <1>1
<1>3. \A d \in Conns : link'[d].status = link[d].status
  BY <1>2
<1>4. Types'
  BY <1>1 DEF Types
<1>5. ReaderInv' /\ QueueInv' /\ LoopInv' /\ Running'
  BY <1>1 DEF IInv, ReaderInv, QueueInv, LoopInv, Running
<1>6. LinkInv'
  BY <1>2 DEF IInv, LinkInv
<1>7. ASSUME OneLink PROVE OneLink'
  BY <1>3, <1>7, OneLinkSame
<1>8. ASSUME StreamInv PROVE StreamInv'
  <2>1. CASE proxy.connid = c
    BY <2>1, <1>8
  <2>2. CASE proxy.connid # c
    <3>1. CASE proxy.connid = NONE
      BY <3>1 DEF StreamInv
    <3>2. CASE proxy.connid # NONE
      <4>1. link'[proxy.connid] = link[proxy.connid]
        BY <1>1, <1>2, <2>2, <3>2 DEF Types
      <4>2. Outstanding' = Outstanding
        BY <4>1 DEF Outstanding, Unread
      <4> QED
        BY <4>1, <4>2, <1>8 DEF StreamInv
    <3> QED
      BY <3>1, <3>2
  <2> QED
    BY <2>1, <2>2
<1>9. AnswerIsItsReply'
  BY DEF IInv, AnswerIsItsReply
<1>10. AbortCause'
  BY <1>5, NoCauseNeededAfter
<1> QED
  BY <1>1, <1>4, <1>5, <1>6, <1>7, <1>8, <1>9, <1>10 DEF IInv

LEMMA RepliesKeep ==
    ASSUME IInv, NEW c \in Conns, RedisReplies(c)
    PROVE  IInv'
<1> DEFINE p == link[c].pipe
           t == link[c].todo
           p2 == Append(p, Head(t))
           t2 == Tail(t)
           l == [link[c] EXCEPT !.todo = t2, !.pipe = p2]
<1>1. /\ loop.pc \in {"poll", "read"} /\ t # <<>>
      /\ link' = [link EXCEPT ![c].todo = Tail(@), ![c].pipe = Append(@, Head(link[c].todo))]
      /\ UNCHANGED <<proxy, reader, loop, nquery, answer, mishaps>>
  BY DEF RedisReplies, Visible
<1>2. Types /\ Running /\ link \in [Conns -> LinkType] /\ link[c] \in LinkType
  BY <1>1 DEF IInv, Types, LoopInv
<1>3. p \in Seq(Piece) /\ t \in Seq(Piece)
  BY <1>2 DEF LinkType
<1>4. link' = [link EXCEPT ![c] = l]
  BY <1>1, <1>2
<1>5. link[c].status = "CONNECTED"
  BY <1>1, <1>2 DEF IInv, LinkInv, FreeLink, NewLink, LinkType
<1>6. p2 \in Seq(Piece) /\ t2 \in Seq(Piece) /\ p2 \o t2 = p \o t
  <2> HIDE DEF p, t
  <2> QED
    BY ONLY <1>1, <1>3, MoveHead
<1> HIDE DEF p2, t2
<1>7. l \in LinkType /\ l.status = "CONNECTED" /\ l.pipe = p2 /\ l.todo = t2 /\ l.eof = link[c].eof
  BY <1>2, <1>5, <1>6 DEF LinkType
<1> HIDE DEF l
<1>8. ASSUME proxy.connid = c, StreamInv PROVE StreamInv'
  <2>1. link'[c] = l /\ proxy' = proxy
    BY <1>1, <1>2, <1>4
  <2>2. Outstanding = Unread \o (p \o t) /\ Unread \in Seq(Piece)
    BY <1>2, <1>8, OutstandingIs DEF IInv, ReaderInv
  <2> DEFINE u == Unread
  <2>3. Outstanding' = (u \o p2) \o t2
    BY <1>1, <1>7, <1>8, <2>1 DEF Outstanding, Unread
  <2>4. (u \o p2) \o t2 = u \o (p2 \o t2)
    <3>1. u \in Seq(Piece) /\ p2 \in Seq(Piece) /\ t2 \in Seq(Piece)
      BY <2>2, <1>6
    <3> HIDE DEF u
    <3> QED
      BY ONLY <3>1, PiecesConcat, Zenon
  <2>5. Outstanding' = Outstanding
    BY <2>2, <2>3, <2>4, <1>6
  <2> QED
    BY <2>1, <2>5, <1>1, <1>5, <1>7, <1>8 DEF StreamInv
<1> QED
  BY <1>1, <1>4, <1>5, <1>7, <1>8, LinkChanged

LEMMA PrefixCarries ==
    ASSUME NEW s \in Seq(Piece), NEW t \in Seq(Piece), NEW ended, NEW total \in Nat,
           NEW callers \in Nat, NEW k \in 0 .. callers, Carries(s \o t, ended, total, callers, k)
    PROVE  Carries(s, TRUE, total, callers, k)
<1>1. Len(s) \in Nat /\ Len(t) \in Nat
  BY LenProperties
<1>2. Len(s \o t) = Len(s) + Len(t)
      /\ \A i \in 1 .. Len(s) + Len(t) : (s \o t)[i] = IF i <= Len(s) THEN s[i] ELSE t[i - Len(s)]
  BY ConcatProperties
<1>3. /\ \A j \in 1 .. Len(s \o t) : (s \o t)[j] = PieceNo(2 * (total - callers + k) + j)
      /\ Len(s \o t) <= 2 * (callers - k)
  BY DEF Carries
<1>4. Len(s) <= 2 * (callers - k)
  BY <1>1, <1>2, <1>3
<1>5. ASSUME NEW j \in 1 .. Len(s) PROVE s[j] = PieceNo(2 * (total - callers + k) + j)
  <2>1. j \in 1 .. Len(s) + Len(t) /\ j <= Len(s)
    BY <1>1
  <2>2. (s \o t)[j] = s[j]
    BY <2>1, <1>2
  <2> QED
    BY <2>1, <2>2, <1>2, <1>3
<1> QED
  BY <1>4, <1>5 DEF Carries

LEMMA BreaksKeep ==
    ASSUME IInv, NEW c \in Conns, LinkBreaks(c)
    PROVE  IInv'
<1> DEFINE p == link[c].pipe
           t == link[c].todo
<1>1. /\ loop.pc \in {"poll", "read"} /\ link[c].status = "CONNECTED"
      /\ UNCHANGED <<proxy, reader, loop, nquery, answer, mishaps>>
  BY DEF LinkBreaks, Visible
<1>2. PICK pipe \in {p, <<>>} :
         link' = [link EXCEPT ![c] = [link[c] EXCEPT !.eof = TRUE, !.todo = <<>>, !.pipe = pipe]]
  BY DEF LinkBreaks
<1> DEFINE l == [link[c] EXCEPT !.eof = TRUE, !.todo = <<>>, !.pipe = pipe]
<1>3. Types /\ Running /\ link \in [Conns -> LinkType] /\ link[c] \in LinkType /\ QueueInv
  BY <1>1 DEF IInv, Types, LoopInv
<1>4. p \in Seq(Piece) /\ t \in Seq(Piece) /\ <<>> \in Seq(Piece) /\ pipe \in Seq(Piece)
  BY <1>2, <1>3, EmptySeq DEF LinkType
<1>5. l \in LinkType /\ l.status = "CONNECTED" /\ l.pipe = pipe /\ l.todo = <<>> /\ l.eof = TRUE
  BY <1>1, <1>3, <1>4 DEF LinkType
<1>6. link' = [link EXCEPT ![c] = l]
  BY <1>2
<1> HIDE DEF l
<1>7. ASSUME proxy.connid = c, StreamInv PROVE StreamInv'
  <2> DEFINE u == Unread
             n == Len(proxy.queryq)
  <2>1. link'[c] = l /\ proxy' = proxy
    BY <1>1, <1>3, <1>6
  <2>2. /\ Outstanding = (u \o p) \o t /\ Outstanding = u \o (p \o t)
        /\ u \in Seq(Piece)
    BY <1>3, <1>7, OutstandingIs DEF IInv, ReaderInv
  <2>3. Outstanding' = (u \o pipe) \o <<>>
    BY <1>1, <1>5, <1>7, <2>1 DEF Outstanding, Unread
  <2>4. n \in Nat /\ nquery \in Nat
    BY <1>3, LenProperties, ProxyAssumption DEF Types
  <2>5. PICK k \in 0 .. n : Carries(Outstanding, link[c].eof, nquery, n, k) /\ ("queued" \in mishaps \/ k = 0)
    <3>1. proxy.connid # NONE
      BY <1>7, ProxyAssumption DEF NONE
    <3> QED
      BY <3>1, <1>1, <1>7 DEF StreamInv
  <2> HIDE DEF u, n, p, t
  <2>6. (u \o pipe) \o <<>> = u \o pipe
    <3>1. u \o pipe \in Seq(Piece)
      BY <1>4, <2>2, ConcatProperties
    <3> DEFINE v == u \o pipe
    <3> HIDE DEF v
    <3>2. v \o <<>> = v
      BY <3>1, ConcatEmptySeq DEF v
    <3> QED
      BY <3>2 DEF v
  <2>7. Carries(u \o pipe, TRUE, nquery, n, k)
    <3>1. CASE pipe = p
      <4>1. u \o p \in Seq(Piece)
        BY <1>4, <2>2, ConcatProperties
      <4> DEFINE v == u \o p
                 ended == link[c].eof
      <4>2. Carries(v \o t, ended, nquery, n, k) /\ v \in Seq(Piece)
        BY <2>2, <2>5, <4>1
      <4> HIDE DEF v, ended
      <4>3. Carries(v, TRUE, nquery, n, k)
        BY ONLY <4>2, <1>4, <2>4, k \in 0 .. n, PrefixCarries
      <4> QED
        BY <4>3, <3>1 DEF v
    <3>2. CASE pipe = <<>>
      <4>1. p \o t \in Seq(Piece)
        BY <1>4, ConcatProperties
      <4> DEFINE v == p \o t
                 ended == link[c].eof
      <4>2. Carries(u \o v, ended, nquery, n, k) /\ v \in Seq(Piece)
        BY <2>2, <2>5, <4>1
      <4> HIDE DEF v, ended
      <4>3. Carries(u, TRUE, nquery, n, k)
        BY ONLY <4>2, <2>2, <2>4, k \in 0 .. n, PrefixCarries
      <4>4. u \o <<>> = u
        BY <2>2, ConcatEmptySeq
      <4> QED
        BY <4>3, <4>4, <3>2
    <3> QED
      BY <1>2, <3>1, <3>2
  <2>8. Carries(Outstanding', TRUE, nquery, n, k)
    BY <2>3, <2>6, <2>7
  <2>9. \E i \in 0 .. n : Carries(Outstanding', TRUE, nquery, n, i) /\ ("queued" \in mishaps \/ i = 0)
    BY <2>5, <2>8
  <2> QED
    BY <2>1, <2>9, <1>1, <1>5, <1>7 DEF StreamInv, n
<1> QED
  BY <1>1, <1>5, <1>6, <1>7, LinkChanged
-----------------------------------------------------------------------------
\* The poll

LEMMA EventIs ==
    ASSUME IInv, NEW e \in LinkEvents
    PROVE  /\ e \in LinkMessages /\ e.id \in Conns /\ e = Message(e.type, e.id)
           /\ e.type \in {"CONNECT", "CONNERR"} => link[e.id].status = "CONNECTING"
           /\ e.type \in {"READ", "SOCKERR"} => link[e.id].status = "CONNECTED"
           /\ link[e.id].status # "INVALID"
<1>1. PICK c \in Conns :
        e \in {Message(t, c) :
                 t \in IF link[c].status = "CONNECTING" THEN {"CONNECT", "CONNERR"}
                       ELSE {x \in {"READ", "SOCKERR"} :
                                link[c].eof \/ (x = "READ" /\ link[c].pipe # <<>>)}}
  BY DEF LinkEvents
<1>2. PICK t \in IF link[c].status = "CONNECTING" THEN {"CONNECT", "CONNERR"}
                 ELSE {x \in {"READ", "SOCKERR"} :
                          link[c].eof \/ (x = "READ" /\ link[c].pipe # <<>>)} : e = Message(t, c)
  BY <1>1
<1>3. e.type = t /\ e.id = c
  BY <1>2 DEF Message
<1>4. link[c].status \in {"INVALID", "CONNECTING", "CONNECTED"}
      /\ (link[c].status = "INVALID" => ~ link[c].eof /\ link[c].pipe = <<>>)
  BY DEF IInv, Types, LinkType, LinkInv, FreeLink
<1>5. CASE link[c].status = "CONNECTING"
  <2>1. t \in {"CONNECT", "CONNERR"}
    BY <1>2, <1>5
  <2> QED
    BY <2>1, <1>2, <1>3, <1>5 DEF LinkMessages, Message
<1>6. CASE link[c].status # "CONNECTING"
  <2>1. t \in {"READ", "SOCKERR"} /\ (link[c].eof \/ link[c].pipe # <<>>)
    BY <1>2, <1>6
  <2> QED
    BY <2>1, <1>2, <1>3, <1>4, <1>6 DEF LinkMessages, Message
<1> QED
  BY <1>5, <1>6

LEMMA BatchIs ==
    ASSUME IInv, NEW batch \in Batches
    PROVE  /\ batch \in Seq(Messages) /\ batch # <<>> /\ DOMAIN batch = 1 .. Len(batch)
           /\ \A i \in 1 .. Len(batch) : batch[i].type # "QUERY" => batch[i] \in LinkEvents
           /\ \A i, j \in 1 .. Len(batch) :
                batch[i].type # "QUERY" /\ batch[j].type # "QUERY" /\ batch[i].id = batch[j].id => i = j
<1>1. /\ batch \in SeqOf(LinkEvents \cup NodeEvents, MaxBatch) /\ batch # <<>>
      /\ \A i, j \in DOMAIN batch : i # j /\ batch[i].type # "QUERY" /\ batch[j].type # "QUERY" =>
           batch[i].id # batch[j].id
  BY DEF Batches
<1>2. PICK m \in 0 .. MaxBatch : batch \in [1 .. m -> LinkEvents \cup NodeEvents]
  BY <1>1 DEF SeqOf
<1>3. m \in Nat
  BY ProxyAssumption
<1>4. LinkEvents \subseteq LinkMessages
  BY EventIs
<1>5. \A e \in NodeEvents : e \in [type : {"QUERY"}, id : 1 .. MaxCommand] /\ e.type = "QUERY"
  BY DEF NodeEvents, Message
<1>6. LinkEvents \cup NodeEvents \subseteq Messages
  BY <1>4, <1>5 DEF Messages
<1>7. batch \in [1 .. m -> Messages]
  BY <1>2, <1>6
<1>8. batch \in Seq(Messages) /\ Len(batch) = m /\ DOMAIN batch = 1 .. Len(batch)
  BY <1>3, <1>7
<1>9. \A i \in 1 .. Len(batch) : batch[i].type # "QUERY" => batch[i] \in LinkEvents
  BY <1>2, <1>5, <1>8
<1> QED
  BY <1>1, <1>8, <1>9

Has(batch, type, c) == \E i \in 1 .. Len(batch) : batch[i] = Message(type, c)

\* What the poll makes of a link.
LEMMA BuiltIs ==
    ASSUME IInv, NEW batch \in Batches, NEW c \in Conns
    PROVE  /\ Has(batch, "CONNECT", c) => /\ Built(batch, c) = NewLink("CONNECTED")
                                          /\ link[c].status = "CONNECTING"
           /\ ~ Has(batch, "CONNECT", c) /\ (Has(batch, "CONNERR", c) \/ Has(batch, "SOCKERR", c)) =>
                Built(batch, c) = FreeLink
           /\ ~ Has(batch, "CONNECT", c) /\ ~ Has(batch, "CONNERR", c) /\ ~ Has(batch, "SOCKERR", c) =>
                Built(batch, c) = link[c]
           /\ Has(batch, "CONNERR", c) \/ Has(batch, "SOCKERR", c) => link[c].status # "INVALID"
           /\ Built(batch, c) \in {NewLink("CONNECTED"), FreeLink, link[c]}
           /\ Built(batch, c).status # "INVALID" => link[c].status # "INVALID"
<1>1. DOMAIN batch = 1 .. Len(batch)
      /\ \A i \in 1 .. Len(batch) : batch[i].type # "QUERY" => batch[i] \in LinkEvents
  BY BatchIs
<1>2. ASSUME NEW type \in {"CONNECT", "CONNERR", "SOCKERR"}, Has(batch, type, c)
      PROVE  link[c].status # "INVALID" /\ (type = "CONNECT" => link[c].status = "CONNECTING")
  <2>1. PICK i \in 1 .. Len(batch) : batch[i] = Message(type, c)
    BY <1>2 DEF Has
  <2>2. batch[i].type = type /\ batch[i].id = c
    BY <2>1 DEF Message
  <2>3. batch[i] \in LinkEvents
    BY <1>1, <1>2, <2>2
  <2> QED
    BY <2>2, <2>3, EventIs
<1>3. Built(batch, c) =
        IF Has(batch, "CONNECT", c) THEN NewLink("CONNECTED")
        ELSE IF Has(batch, "CONNERR", c) \/ Has(batch, "SOCKERR", c) THEN FreeLink
        ELSE link[c]
  BY <1>1 DEF Built, Has
<1>4. FreeLink.status = "INVALID"
  BY DEF FreeLink
<1> QED
  BY <1>2, <1>3, <1>4

\* The messages of a batch agree with what the poll has made of the links.
LEMMA OneLinkBuilt ==
    ASSUME IInv, OneLink, loop.pc = "poll", NEW batch \in Batches,
           link' = [c \in Conns |-> Built(batch, c)], loop' = [pc |-> "dispatch", ne |-> batch],
           UNCHANGED proxy
    PROVE  OneLink'
<1>1. loop'.ne = batch /\ \A c \in Conns : link'[c] = Built(batch, c)
  OBVIOUS
<1>2. \A i \in 1 .. Len(loop.ne) : FALSE
  <2>1. loop.ne = <<>> /\ Len(<<>>) = 0
    BY EmptySeq DEF IInv, LoopInv
  <2> QED
    BY <2>1
<1>3. /\ \A i \in 1 .. Len(batch) : batch[i].type # "QUERY" => batch[i] \in LinkEvents
      /\ \A i, j \in 1 .. Len(batch) :
           batch[i].type # "QUERY" /\ batch[j].type # "QUERY" /\ batch[i].id = batch[j].id => i = j
  BY BatchIs
<1>4. /\ \A c, d \in Conns : link[c].status # "INVALID" /\ link[d].status # "INVALID" => c = d
      /\ \A c \in Conns : link[c].status = "CONNECTED" => proxy.connid = c
      /\ \A c \in Conns : link[c].status = "CONNECTING" => proxy.connid = NONE
  BY <1>2 DEF OneLink
<1>5. NewLink("CONNECTED").status = "CONNECTED" /\ FreeLink.status = "INVALID"
  BY DEF NewLink, FreeLink
<1>6. \A c \in Conns : link'[c].status # "INVALID" => link[c].status # "INVALID"
  BY <1>1, BuiltIs
<1>7. \A c, d \in Conns : link'[c].status # "INVALID" /\ link'[d].status # "INVALID" => c = d
  BY <1>4, <1>6
<1>8. ASSUME NEW c \in Conns, link'[c].status = "CONNECTED"
      PROVE  proxy'.connid = c \/ \E i \in 1 .. Len(loop'.ne) : loop'.ne[i] = Message("CONNECT", c)
  <2>1. CASE Has(batch, "CONNECT", c)
    BY <2>1, <1>1 DEF Has
  <2>2. CASE ~ Has(batch, "CONNECT", c)
    <3>1. link'[c] = link[c]
      BY <2>2, <1>1, <1>5, <1>8, BuiltIs
    <3> QED
      BY <3>1, <1>4, <1>8
  <2> QED
    BY <2>1, <2>2
<1>9. ASSUME NEW c \in Conns, link'[c].status = "CONNECTING" PROVE proxy'.connid = NONE
  <2>1. link'[c] = link[c]
    BY <1>1, <1>5, <1>9, BuiltIs
  <2> QED
    BY <2>1, <1>4, <1>9
<1>10. ASSUME NEW i \in 1 .. Len(batch), NEW j \in 1 .. Len(batch),
              batch[i].type # "QUERY", batch[j].type # "QUERY"
       PROVE  i = j
  <2>1. batch[i] \in LinkEvents /\ batch[j] \in LinkEvents
    BY <1>3, <1>10
  <2>2. /\ batch[i].id \in Conns /\ link[batch[i].id].status # "INVALID"
        /\ batch[j].id \in Conns /\ link[batch[j].id].status # "INVALID"
    BY <2>1, EventIs
  <2> QED
    BY <2>2, <1>3, <1>4, <1>10
<1>11. ASSUME NEW i \in 1 .. Len(batch) PROVE MsgOK(loop.ne[i])'
  <2> DEFINE m == batch[i]
             c == m.id
  <2>1. loop'.ne[i] = m
    BY <1>1
  <2>2. CASE m.type = "QUERY"
    BY <2>1, <2>2 DEF MsgOK
  <2>3. CASE m.type # "QUERY"
    <3>1. m \in LinkEvents
      BY <1>3, <2>3
    <3>2. /\ c \in Conns /\ m = Message(m.type, c)
          /\ m.type \in {"CONNECT", "CONNERR"} => link[c].status = "CONNECTING"
          /\ m.type \in {"READ", "SOCKERR"} => link[c].status = "CONNECTED"
          /\ link[c].status # "INVALID"
          /\ m.type \in {"CONNECT", "CONNERR", "READ", "SOCKERR"}
      BY <3>1, EventIs DEF LinkMessages
    <3>3. ASSUME NEW type \in {"CONNECT", "CONNERR", "SOCKERR"}, Has(batch, type, c) PROVE type = m.type
      <4>1. PICK j \in 1 .. Len(batch) : batch[j] = Message(type, c)
        BY <3>3 DEF Has
      <4>2. batch[j].type = type
        BY <4>1 DEF Message
      <4>3. i = j
        BY <4>2, <1>10, <2>3, <3>3
      <4> QED
        BY <4>2, <4>3
    <3>4. Has(batch, m.type, c)
      BY <3>2 DEF Has
    <3>5. link'[c] = Built(batch, c) /\ proxy' = proxy
      BY <3>2, <1>1
    <3> HIDE DEF c, m
    <3>6. m.type = "CONNECT" => proxy'.connid = NONE /\ link'[c] = NewLink("CONNECTED")
      BY <3>2, <3>4, <3>5, <1>4, BuiltIs
    <3>7. ASSUME m.type \in {"CONNERR", "SOCKERR"} PROVE \A d \in Conns : link'[d].status = "INVALID"
      <4>1. link'[c] = FreeLink
        <5>1. ~ Has(batch, "CONNECT", c)
          BY <3>3, <3>7
        <5>2. Has(batch, "CONNERR", c) \/ Has(batch, "SOCKERR", c)
          BY <3>4, <3>7
        <5> QED
          BY <5>1, <5>2, <3>2, <3>5, BuiltIs
      <4>2. ASSUME NEW d \in Conns, d # c PROVE link'[d].status = "INVALID"
        BY <4>2, <3>2, <1>4, <1>6
      <4> QED
        BY <4>1, <4>2, <1>5
    <3>8. ASSUME m.type = "READ" PROVE proxy'.connid = c /\ link'[c].status = "CONNECTED"
      <4>1. ~ Has(batch, "CONNECT", c) /\ ~ Has(batch, "CONNERR", c) /\ ~ Has(batch, "SOCKERR", c)
        BY <3>3, <3>8
      <4>2. link'[c] = link[c]
        BY <4>1, <3>2, <3>5, BuiltIs
      <4> QED
        BY <4>2, <3>2, <3>5, <3>8, <1>4
    <3> QED
      BY <2>1, <3>6, <3>7, <3>8 DEF MsgOK, c
  <2> QED
    BY <2>2, <2>3
<1>12. \A i, j \in 1 .. Len(loop'.ne) : loop'.ne[i].type # "QUERY" /\ loop'.ne[j].type # "QUERY" => i = j
  BY <1>1, <1>10
<1>13. \A i \in 1 .. Len(loop'.ne) : MsgOK(loop.ne[i])'
  BY <1>1, <1>11
<1> QED
  BY <1>7, <1>8, <1>9, <1>12, <1>13 DEF OneLink

LEMMA PollKeeps == IInv /\ Poll => IInv'
<1> SUFFICES ASSUME IInv, Poll PROVE IInv'
  OBVIOUS
<1>1. loop.pc = "poll" /\ UNCHANGED <<proxy, reader, nquery, answer, mishaps>>
  BY DEF Poll
<1>2. PICK batch \in Batches : /\ link' = [c \in Conns |-> Built(batch, c)]
                               /\ loop' = [pc |-> "dispatch", ne |-> batch]
  BY DEF Poll
<1>3. Types /\ Running /\ link \in [Conns -> LinkType] /\ LinkInv
  BY <1>1 DEF IInv, Types, LoopInv
<1>4. batch \in Seq(Messages) /\ batch # <<>>
  BY BatchIs
<1>5. NewLink("CONNECTED") \in LinkType /\ FreeLink \in LinkType
      /\ NewLink("CONNECTED").status = "CONNECTED" /\ FreeLink.status = "INVALID"
  <2>1. <<>> \in Seq(Piece)
    BY EmptySeq
  <2>2. FreeLink \in LinkType /\ FreeLink.status = "INVALID"
    BY <2>1 DEF FreeLink, LinkType
  <2>3. NewLink("CONNECTED") \in LinkType /\ NewLink("CONNECTED").status = "CONNECTED"
    BY <2>2 DEF NewLink, LinkType
  <2> QED
    BY <2>2, <2>3
<1>6. \A c \in Conns : link'[c] = Built(batch, c) /\ link'[c] \in {NewLink("CONNECTED"), FreeLink, link[c]}
  BY <1>2, BuiltIs
<1>7. link' \in [Conns -> LinkType]
  <2>1. \A c \in Conns : Built(batch, c) \in LinkType
    BY <1>3, <1>5, <1>6
  <2> QED
    BY <2>1, <1>2
<1>8. LinkInv'
  BY <1>3, <1>5, <1>6 DEF LinkInv
<1>9. loop' \in [pc : {"poll", "dispatch", "read", "parse", "parse_full", "abort"}, ne : Seq(Messages)]
      /\ loop'.pc = "dispatch" /\ loop'.ne = batch
  BY <1>2, <1>4
<1>10. Types'
  BY <1>1, <1>3, <1>7, <1>9 DEF Types
<1>11. ReaderInv' /\ QueueInv'
  BY <1>1, <1>9 DEF IInv, ReaderInv, QueueInv
<1>12. Running'
  BY <1>1, <1>3 DEF Running
<1>13. LoopInv'
  BY <1>4, <1>9, <1>12 DEF LoopInv
<1>14. ASSUME OneLink PROVE OneLink'
  BY <1>1, <1>2, <1>14, OneLinkBuilt
<1>15. ASSUME OneLink, StreamInv PROVE StreamInv'
  <2> DEFINE c == proxy.connid
  <2>1. SUFFICES ASSUME c # NONE, link'[c].status = "CONNECTED"
                 PROVE  StreamInv'
    BY <1>1 DEF StreamInv
  <2>2. c \in Conns
    BY <1>3, <2>1 DEF Types
  <2>3. link[c].status # "CONNECTING"
    BY <1>15, <2>1, <2>2 DEF OneLink
  <2>4. ~ Has(batch, "CONNECT", c)
    BY <2>2, <2>3, BuiltIs
  <2>5. Built(batch, c) # FreeLink
    BY <1>5, <1>6, <2>1, <2>2
  <2>6. link'[c] = link[c]
    BY <1>6, <2>2, <2>4, <2>5, BuiltIs
  <2>7. Outstanding' = Outstanding
    BY <1>1, <2>6 DEF Outstanding, Unread
  <2> QED
    BY <1>1, <1>15, <2>6, <2>7 DEF StreamInv
<1>16. AnswerIsItsReply'
  BY <1>1 DEF IInv, AnswerIsItsReply
<1>17. AbortCause'
  BY <1>12, NoCauseNeededAfter
<1>18. OneLink \/ "overlap" \in mishaps
  BY <1>3 DEF IInv
<1> QED
  BY <1>1, <1>3, <1>8, <1>10, <1>11, <1>12, <1>13, <1>14, <1>15, <1>16, <1>17, <1>18 DEF IInv
-----------------------------------------------------------------------------
\* The invariant holds

LEMMA InitInv == Init => IInv
<1> SUFFICES ASSUME Init PROVE IInv
  OBVIOUS
<1>1. PICK c \in Conns :
         /\ proxy = [connid |-> c, queryq |-> <<>>, abort |-> "none"]
         /\ link = [d \in Conns |-> IF d = c THEN NewLink("CONNECTED") ELSE FreeLink]
  BY DEF Init
<1>2. /\ reader = [buf |-> <<>>, pos |-> 0, pos_last |-> 0]
      /\ loop = [pc |-> "poll", ne |-> <<>>]
      /\ nquery = 0 /\ answer = [to |-> 0, reply |-> 0] /\ mishaps = {}
  BY DEF Init, EmptyReader
<1>3. /\ <<>> \in Seq(Piece) /\ <<>> \in Seq(querylink) /\ <<>> \in Seq(Messages)
      /\ Len(<<>>) = 0
  BY EmptySeq
<1>4. /\ FreeLink \in LinkType /\ FreeLink.status = "INVALID"
      /\ FreeLink.pipe = <<>> /\ FreeLink.todo = <<>>
  BY <1>3 DEF FreeLink, LinkType
<1>5. /\ NewLink("CONNECTED") \in LinkType /\ NewLink("CONNECTED").status = "CONNECTED"
      /\ NewLink("CONNECTED").pipe = <<>> /\ NewLink("CONNECTED").todo = <<>>
  BY <1>4 DEF NewLink, LinkType
<1>6. link[c] = NewLink("CONNECTED") /\ \A d \in Conns : d # c => link[d] = FreeLink
  BY <1>1
<1>7. /\ proxy.connid = c /\ proxy.queryq = <<>> /\ proxy.abort = "none"
      /\ proxy \in [connid : Conns \cup {NONE}, queryq : Seq(querylink), abort : Asserts]
  BY <1>1, <1>3 DEF Asserts
<1>8. Types
  <2>1. link \in [Conns -> LinkType]
    BY <1>1, <1>4, <1>5
  <2>2. reader \in [buf : Seq(Piece), pos : Nat, pos_last : Nat]
    BY <1>2, <1>3
  <2>3. loop \in [pc : {"poll", "dispatch", "read", "parse", "parse_full", "abort"}, ne : Seq(Messages)]
    BY <1>2, <1>3
  <2>4. nquery \in 0 .. MaxQuery /\ answer \in [to : Queries \cup {0}, reply : Queries \cup {0}]
    BY <1>2, ProxyAssumption
  <2> QED
    BY <1>2, <1>7, <2>1, <2>2, <2>3, <2>4 DEF Types
<1>9. ReaderInv
  BY <1>2, <1>3, ProxyAssumption DEF ReaderInv
<1>10. QueueInv
  BY <1>3, <1>7 DEF QueueInv, InOrder
<1>11. LinkInv
  BY <1>4, <1>5, <1>6 DEF LinkInv
<1>12. Running
  BY <1>7 DEF Running
<1>13. LoopInv
  BY <1>2, <1>12 DEF LoopInv
<1>14. OneLink
  <2>1. \A i \in 1 .. Len(loop.ne) : FALSE
    BY <1>2, <1>3
  <2>2. \A d \in Conns : link[d].status # "INVALID" => d = c
    BY <1>4, <1>6
  <2>3. \A d \in Conns : link[d].status # "CONNECTING"
    BY <1>4, <1>5, <1>6
  <2> QED
    BY <1>7, <2>1, <2>2, <2>3 DEF OneLink
<1>15. StreamInv
  <2>1. SubSeq(<<>>, 1, 0) = <<>>
    BY SubSeqEmpty
  <2>2. Unread = <<>>
    BY <1>2, <1>3, <2>1 DEF Unread
  <2>3. Outstanding = <<>>
    BY <1>5, <1>6, <1>7, <2>2 DEF Outstanding
  <2>4. Len(proxy.queryq) = 0
    BY <1>3, <1>7
  <2>5. Carries(Outstanding, link[c].eof, nquery, Len(proxy.queryq), 0)
    BY <1>3, <2>3, <2>4 DEF Carries
  <2>6. 0 \in 0 .. Len(proxy.queryq)
    BY <2>4
  <2> QED
    BY <1>7, <2>5, <2>6 DEF StreamInv
<1>16. AnswerIsItsReply
  BY <1>2 DEF AnswerIsItsReply
<1>17. AbortCause
  BY <1>12, NoCauseNeeded
<1> QED
  BY <1>8, <1>9, <1>10, <1>11, <1>12, <1>13, <1>14, <1>15, <1>16, <1>17 DEF IInv

LEMMA StutterKeeps == IInv /\ UNCHANGED vars => IInv'
<1> SUFFICES ASSUME IInv, UNCHANGED vars PROVE IInv'
  OBVIOUS
<1>1. UNCHANGED <<proxy, reader, link, loop, nquery, answer, mishaps>>
  BY DEF vars
<1>2. Types' /\ ReaderInv' /\ QueueInv' /\ LinkInv' /\ LoopInv'
  BY <1>1 DEF IInv, Types, ReaderInv, QueueInv, InOrder, LinkInv, LoopInv, Running
<1>3. ASSUME OneLink PROVE OneLink'
  BY <1>1, <1>3 DEF OneLink, MsgOK
<1>4. ASSUME StreamInv PROVE StreamInv'
  <2>1. Outstanding' = Outstanding
    BY <1>1 DEF Outstanding, Unread
  <2> QED
    BY <1>1, <1>4, <2>1 DEF StreamInv
<1>5. Running' = Running /\ mishaps' = mishaps
  BY <1>1 DEF Running
<1>6. AnswerIsItsReply'
  BY <1>1 DEF IInv, AnswerIsItsReply
<1>7. AbortCause'
  BY <1>1 DEF IInv, AbortCause
<1> QED
  BY <1>2, <1>3, <1>4, <1>5, <1>6, <1>7 DEF IInv

LEMMA NextKeeps == IInv /\ [Next]_vars => IInv'
<1> SUFFICES ASSUME IInv, [Next]_vars PROVE IInv'
  OBVIOUS
<1>1. CASE Poll
  BY <1>1, PollKeeps
<1>2. CASE DispatchConnect
  BY <1>2, ConnectKeeps
<1>3. CASE DispatchDown
  BY <1>3, DownKeeps
<1>4. CASE DispatchRead
  BY <1>4, ReadMessageKeeps
<1>5. CASE DispatchQuery
  BY <1>5, QueryKeeps
<1>6. CASE ReadStep
  BY <1>6, ReadKeeps
<1>7. CASE ParseStep
  BY <1>7, ParseKeeps
<1>8. CASE redisproxy_time
  BY <1>8, TimeKeeps
<1>9. CASE Network
  BY <1>9, RepliesKeep, BreaksKeep DEF Network
<1>10. CASE Aborted \/ UNCHANGED vars
  BY <1>10, StutterKeeps DEF Aborted
<1> QED
  BY <1>1, <1>2, <1>3, <1>4, <1>5, <1>6, <1>7, <1>8, <1>9, <1>10 DEF Next, Thread, Dispatch

LEMMA InvHolds == Spec => []IInv
  BY InitInv, NextKeeps, PTL DEF Spec

\* What IInv says of the stream is what the property says of the replies.
LEMMA InvMatches == IInv => RepliesMatchCallers
<1> SUFFICES ASSUME IInv, Ordered, proxy.connid # NONE, link[proxy.connid].status = "CONNECTED"
             PROVE  /\ IsPrefix(Outstanding, RepliesTo(Callers))
                    /\ ~ link[proxy.connid].eof => Outstanding = RepliesTo(Callers)
  BY DEF RepliesMatchCallers
<1> DEFINE n == Len(proxy.queryq)
           b == nquery - n
           s == Outstanding
           t == RepliesTo(Callers)
           ended == link[proxy.connid].eof
<1>1. /\ Types /\ Running /\ proxy.connid \in Conns /\ nquery \in Nat
      /\ proxy.queryq \in Seq(querylink) /\ reader.pos <= Len(reader.buf)
      /\ mishaps \cap {"overlap", "leftover"} = {} /\ "queued" \notin mishaps
  BY ProxyAssumption DEF IInv, Types, Ordered, Shifting, ReaderInv
<1>2. n \in Nat /\ b \in Int /\ s \in Seq(Piece)
  <2>1. n \in Nat
    BY <1>1, LenProperties
  <2>2. b \in Int
    BY <1>1, <2>1
  <2>3. s \in Seq(Piece)
    BY <1>1, OutstandingIs, Zenon
  <2> QED
    BY <2>1, <2>2, <2>3
<1>3. StreamInv
  BY <1>1 DEF IInv
<1>4. Carries(s, ended, nquery, n, 0)
  <2>1. PICK k \in 0 .. n : Carries(s, ended, nquery, n, k) /\ ("queued" \in mishaps \/ k = 0)
    BY <1>3 DEF StreamInv
  <2> QED
    BY <2>1, <1>1
<1>5. t \in Seq(Piece) /\ Len(t) = 2 * n /\ \A j \in 1 .. 2 * n : t[j] = PieceNo(2 * b + j)
  <2> DEFINE qs == Callers
  <2>1. Len(qs) = n
    BY <1>1, <1>2 DEF Callers
  <2>2. \A i \in 1 .. n : qs[i] = b + i /\ qs[i] \in Queries
    <3>1. ASSUME NEW i \in 1 .. n PROVE qs[i] = b + i /\ qs[i] \in Queries
      <4>1. i \in DOMAIN proxy.queryq /\ proxy.queryq[i] \in querylink
        BY <1>1, ElementOfSeq
      <4>2. qs[i] = proxy.queryq[i].q
        BY <4>1 DEF Callers
      <4>3. proxy.queryq[i].q = b + i
        BY DEF IInv, QueueInv, InOrder
      <4> QED
        BY <4>1, <4>2, <4>3 DEF querylink
    <3> QED
      BY <3>1
  <2> HIDE DEF qs, n, b
  <2>3. /\ RepliesTo(qs) \in Seq(Piece) /\ Len(RepliesTo(qs)) = 2 * n
        /\ \A j \in 1 .. 2 * n : RepliesTo(qs)[j] = PieceNo(2 * b + j)
    BY ONLY <2>1, <2>2, <1>2, RepliesInOrder
  <2> QED
    BY <2>3 DEF qs
<1>6. /\ \A j \in 1 .. Len(s) : s[j] = PieceNo(2 * b + j)
      /\ Len(s) <= 2 * n
      /\ ended \/ Len(s) = 2 * n
  <2>1. /\ \A j \in 1 .. Len(s) : s[j] = PieceNo(2 * (nquery - n + 0) + j)
        /\ Len(s) <= 2 * (n - 0)
        /\ ended \/ Len(s) = 2 * (n - 0)
    BY <1>4 DEF Carries
  <2>2. nquery - n + 0 = b /\ n - 0 = n
    BY <1>1, <1>2
  <2> HIDE DEF b, n, s, ended
  <2> QED
    BY <2>1, <2>2
<1> HIDE DEF n, b, s, t, ended
<1>7. Len(s) \in Nat /\ Len(s) <= Len(t)
  BY <1>2, <1>5, <1>6, LenProperties
<1>8. \A j \in 1 .. Len(s) : s[j] = t[j]
  BY <1>2, <1>5, <1>6, <1>7
<1>9. IsPrefix(s, t)
  BY <1>7, <1>8 DEF IsPrefix
<1>10. ASSUME ~ ended PROVE s = t
  <2>1. Len(s) = Len(t)
    BY <1>10, <1>5, <1>6
  <2> QED
    BY <2>1, <1>2, <1>5, <1>8, SeqEqual
<1> QED
  BY <1>9, <1>10 DEF s, t, ended

\* The reply buffer never fills up between two reads: the NET_ERR_NOBUF branch of
\* _read, which would give up the link and all callers, is never taken; and the
\* reader's positions stay inside the buffer.
THEOREM BufferNeverFills == Spec => []BufferOK
<1>1. IInv => TypeOK
  <2> SUFFICES ASSUME IInv PROVE TypeOK
    OBVIOUS
  <2>1. Types /\ ReaderInv
    BY DEF IInv
  <2>2. reader.buf \in Seq(Piece) /\ Len(reader.buf) \in Nat /\ reader.pos \in Nat /\ reader.pos_last \in Nat
    BY <2>1, LenProperties DEF Types
  <2>3. reader.pos \in 0 .. Len(reader.buf) /\ reader.pos_last \in 0 .. Len(reader.buf)
        /\ Len(reader.buf) <= Cap
    BY <2>1, <2>2 DEF ReaderInv
  <2>4. \A c \in Conns :
          /\ link[c].status \in {"INVALID", "CONNECTING", "CONNECTED"}
          /\ link[c].todo \in Seq(Piece) /\ link[c].pipe \in Seq(Piece) /\ link[c].eof \in BOOLEAN
    BY <2>1 DEF Types, LinkType
  <2>5. /\ loop.pc \in {"poll", "dispatch", "read", "parse", "parse_full", "abort"}
        /\ proxy \in [connid : Conns \cup {NONE}, queryq : Seq(querylink), abort : Asserts]
        /\ nquery \in 0 .. MaxQuery
        /\ answer \in [to : Queries \cup {0}, reply : Queries \cup {0}]
        /\ mishaps \subseteq {"queued", "leftover", "overlap", "batched", "senderr"}
    BY <2>1 DEF Types
  <2> QED
    BY <2>2, <2>3, <2>4, <2>5 DEF TypeOK
<1>2. IInv => SpaceIsLeft
  <2> SUFFICES ASSUME IInv, loop.pc = "read" PROVE Space > 0
    BY DEF SpaceIsLeft
  <2>1. Len(reader.buf) < Cap /\ Len(reader.buf) \in Nat /\ Cap \in Nat
    BY LenProperties, ProxyAssumption DEF IInv, Types, ReaderInv
  <2> QED
    BY ONLY <2>1 DEF Space
<1>3. IInv => BufferOK
  BY <1>1, <1>2 DEF BufferOK
<1> QED
  BY <1>3, InvHolds, PTL

\* As long as nothing was queued or buffered over a reconnect and no two links
\* overlapped, what redis still has to send on the proxy's link is, piece by piece,
\* the replies to the callers in the queue, in its order; and a caller is answered
\* with the reply to its own command unless the order was lost before or several
\* replies came in one read.
THEOREM CallersGetTheirReplies == Spec => []RepliesReachCallers
<1>1. IInv => RepliesReachCallers
  BY InvMatches DEF IInv, RepliesReachCallers
<1> QED
  BY <1>1, InvHolds, PTL

\* An assert of the proxy or of its parser fails only for the causes AbortCause names.
THEOREM ProxyAssertsFailOnlyThen == Spec => []AbortCause
<1>1. IInv => AbortCause
  BY DEF IInv
<1> QED
  BY <1>1, InvHolds, PTL
=============================================================================

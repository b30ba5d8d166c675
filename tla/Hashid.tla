------------------------------- MODULE Hashid -------------------------------
(***************************************************************************)
(* base/hashid.h: a chained hash table from ids (an account's, a           *)
(* character's) to slots.  The slots nobody uses are a LIFO list; a used   *)
(* slot goes to the front of its bucket's chain.                           *)
(*                                                                         *)
(* An id has one bucket, and a search takes the first slot with its id, so *)
(* one sequence of all used slots, the latest first, stands for the        *)
(* buckets: hashmod and the order between buckets cannot be seen.          *)
(***************************************************************************)
EXTENDS Integers, Sequences, SequencesExt

Entry(id, slot) == [id |-> id, slot |-> slot]

hashid_init(cap) == [free |-> [k \in 1 .. cap |-> k - 1], used |-> <<>>]

\* Position of the slot the search stops at; 0 when the chain ends first.
Position(hi, id) == SelectInSeq(hi.used, LAMBDA e : e.id = id)

hashid_find(hi, id) == IF Position(hi, id) = 0 THEN -1 ELSE hi.used[Position(hi, id)].slot

hashid_full(hi) == hi.free = <<>>

\* Nothing checks that the id is new: a second entry hides the first.
hashid_alloc(hi, id) ==
    IF hashid_full(hi)
    THEN hi
    ELSE [free |-> Tail(hi.free), used |-> <<Entry(id, Head(hi.free))>> \o hi.used]

hashid_free(hi, id) ==
    LET k == Position(hi, id) IN
    IF k = 0
    THEN hi
    ELSE [free |-> <<hi.used[k].slot>> \o hi.free, used |-> RemoveAt(hi.used, k)]

UsedIds(hi) == {e.id : e \in ToSet(hi.used)}

HashidType(hi, ids, slots) ==
    /\ hi.free \in Seq(slots)
    /\ \A e \in ToSet(hi.used) : e.id \in ids /\ e.slot \in slots
=============================================================================

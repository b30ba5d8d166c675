------------------------------- MODULE MCRoom -------------------------------
(***************************************************************************)
(* Room for TLC: two characters, items that last and one with delay.       *)
(***************************************************************************)
EXTENDS Room

MCTeams == {<<"a", "b">>}
MCItems == {[target |-> "SELF", delay |-> FALSE, time |-> TRUE, type |-> "quick", value |-> 1],
            [target |-> "ALL", delay |-> FALSE, time |-> TRUE, type |-> "quick", value |-> -2],
            [target |-> "ENEMY", delay |-> TRUE, time |-> FALSE, type |-> "oxygen", value |-> -1]}

\* Two clients and a room, with items or with mishaps; one client, with both or
\* with two rooms.
MCSettings == {[conns |-> {1, 2}, rooms |-> 1, uses |-> 2, mishaps |-> 0],
               [conns |-> {1, 2}, rooms |-> 1, uses |-> 1, mishaps |-> 1],
               [conns |-> {1}, rooms |-> 1, uses |-> 2, mishaps |-> 1],
               [conns |-> {1}, rooms |-> 2, uses |-> 0, mishaps |-> 0]}
=============================================================================

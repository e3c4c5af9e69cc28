---------------------------- MODULE OneTimeTickets ----------------------------
(***************************************************************************)
(* What a Console ticket promises, without clocks, tables or hosts: an     *)
(* issued ticket opens the way for one WebSocket at most, and once it is   *)
(* used or has lapsed nothing brings it back.                              *)
(***************************************************************************)
CONSTANTS
    Ids,      \* ticket ids
    Sockets   \* WebSocket upgrade requests

VARIABLES
    status,   \* Ids -> "unissued", "open" or "closed"
    holders   \* Ids -> the sockets the ticket was granted to

vars == <<status, holders>>

Open == {t \in Ids : status[t] = "open"}

\* The tickets of S close.
Closing(S) == [t \in Ids |-> IF t \in S THEN "closed" ELSE status[t]]

Init ==
    /\ status = [t \in Ids |-> "unissued"]
    /\ holders = [t \in Ids |-> {}]

\* A new ticket; old ones may lapse on the way.
Issue(t, S) ==
    /\ status[t] = "unissued"
    /\ S \subseteq Open
    /\ status' = [Closing(S) EXCEPT ![t] = "open"]
    /\ UNCHANGED holders

\* Granting a ticket closes it.
Grant(t, s, S) ==
    /\ status[t] = "open"
    /\ S \subseteq Open /\ t \in S
    /\ status' = Closing(S)
    /\ holders' = [holders EXCEPT ![t] = @ \cup {s}]

Lapse(S) ==
    /\ S \subseteq Open
    /\ status' = Closing(S)
    /\ UNCHANGED holders

Next ==
    \E S \in SUBSET Ids :
        \/ Lapse(S)
        \/ \E t \in Ids : Issue(t, S)
        \/ \E t \in Ids, s \in Sockets : Grant(t, s, S)

Spec == Init /\ [][Next]_vars

\* One ticket, one session.
AtMostOnce == \A t \in Ids : \A r, s \in holders[t] : r = s
=============================================================================

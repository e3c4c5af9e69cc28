-------------------------- MODULE HostConsoleProofs --------------------------
(***************************************************************************)
(* One ticket, one session - for any number of tickets, requests and       *)
(* restarts -, the table as an implementation of OneTimeTickets, and the   *)
(* Console tab on top of it: one live socket, the one on screen.           *)
(***************************************************************************)
EXTENDS HostConsole, TLAPS

-----------------------------------------------------------------------------
(* The ticket table *)

\* The purge keeps the domain of the table and only closes entries.
LEMMA PurgedType ==
    ASSUME TypeOK, NEW time
    PROVE  /\ Purged(time) \in [Ids -> Ticket]
           /\ \A t \in Ids :
                /\ Purged(time)[t] = tickets[t] \/ Purged(time)[t].st = "gone"
                /\ Purged(time)[t].st # tickets[t].st => tickets[t].st = "stored"
                /\ Purged(time)[t].st = "stored" => Purged(time)[t] = tickets[t]
                /\ Purged(time)[t].expiry = tickets[t].expiry
<1>1. \A t \in Ids : tickets[t] \in Ticket
    BY DEF TypeOK
<1>2. \A t \in Ids : [tickets[t] EXCEPT !.st = "gone"] \in Ticket
    BY <1>1 DEF Ticket
<1> QED
    BY <1>1, <1>2 DEF Purged, Ticket

\* A second reading of the clock is a time.
LEMMA LaterType ==
    ASSUME TypeOK, NEW later \in Later
    PROVE  later \in 0..MaxTime /\ later \in Nat /\ later + TTL \in Nat
BY ClockAssumption DEF TypeOK, Later

\* At the start no ticket is minted.
THEOREM InitInvariant == Init => TicketInvariant
<1> SUFFICES ASSUME Init PROVE TicketInvariant
    OBVIOUS
<1>1. TypeOK
    BY ClockAssumption DEF Init, TypeOK, Ticket, Post, Socket, Paths
<1>2. \A s \in Sockets : sockets[s].pc = "idle" /\ sockets[s].asked = NoId
    BY DEF Init
<1> QED
    BY <1>1, <1>2 DEF TicketInvariant, OneSessionPerTicket, HasTicket

\* Every step keeps the invariant.
LEMMA StepInvariant == TicketInvariant /\ [Next]_vars => TicketInvariant'
<1> SUFFICES ASSUME TicketInvariant, [Next]_vars PROVE TicketInvariant'
    OBVIOUS
<1> USE DEF TicketInvariant
<1>1. CASE Tick
    BY <1>1, ClockAssumption
    DEF Tick, TypeOK, OneSessionPerTicket, HasTicket
<1>2. CASE HostChanges
    <2>1. hosts' \in [Hosts -> Host]
        BY <1>2 DEF HostChanges, TypeOK
    <2> QED
        BY <1>2, <2>1 DEF HostChanges, TypeOK, OneSessionPerTicket, HasTicket
<1>3. CASE Restart
    <2>1. /\ tickets' \in [Ids -> Ticket]
          /\ \A t \in Ids : tickets[t].st = "gone" => tickets'[t].st = "gone"
        <3>1. \A t \in Ids : [tickets[t] EXCEPT !.st = "gone"] \in Ticket
            BY DEF TypeOK, Ticket
        <3> QED
            BY <1>3, <3>1 DEF Restart, TypeOK
    <2>2. posts' \in [Posts -> Post]
        <3>1. \A p \in Posts : [posts[p] EXCEPT !.pc = "idle"] \in Post
            BY DEF TypeOK, Post
        <3> QED
            BY <1>3, <3>1 DEF Restart
    <2>3. /\ sockets' \in [Sockets -> Socket]
          /\ \A s \in Sockets :
               /\ sockets'[s].asked = sockets[s].asked
               /\ sockets'[s].pc = "idle" <=> sockets[s].pc = "idle"
               /\ sockets'[s].pc = "refused" <=> sockets[s].pc = "refused"
        <3>1. \A s \in Sockets : /\ sockets[s] \in Socket
                                 /\ [sockets[s] EXCEPT !.pc = "ended"] \in Socket
            BY DEF TypeOK, Socket
        <3> QED
            BY <1>3, <3>1 DEF Restart, Socket
    <2>4. \A s \in Sockets : HasTicket(s)' <=> HasTicket(s)
        BY <2>3 DEF HasTicket, TypeOK, Socket
    <2>5. TypeOK'
        BY <1>3, <2>1, <2>2, <2>3, ClockAssumption DEF Restart, TypeOK
    <2> QED
        BY <2>1, <2>3, <2>4, <2>5 DEF OneSessionPerTicket
<1>4. ASSUME NEW p \in Posts, ResolvePath(p) PROVE TicketInvariant'
    <2>1. posts' \in [Posts -> Post]
        BY <1>4 DEF ResolvePath, Resolve, TypeOK, Post
    <2> QED
        BY <1>4, <2>1 DEF ResolvePath, TypeOK, OneSessionPerTicket, HasTicket
<1>5. ASSUME NEW p \in Posts, Mint(p) PROVE TicketInvariant'
    <2>1. PICK t \in Ids, later \in Later :
            /\ tickets[t].st = "unminted"
            /\ now' = later
            /\ tickets' = [Purged(now) EXCEPT ![t] =
                 [st |-> "stored", host |-> posts[p].host,
                  path |-> posts[p].path, expiry |-> later + TTL]]
        BY <1>5 DEF Mint
    <2>2. posts' \in [Posts -> Post]
        <3>1. [posts[p] EXCEPT !.pc = "idle"] \in Post
            BY DEF TypeOK, Post
        <3> QED
            BY <1>5, <3>1 DEF Mint, TypeOK
    <2>3. /\ tickets' \in [Ids -> Ticket]
          /\ \A u \in Ids : tickets[u].st = "gone" => tickets'[u].st = "gone"
        <3>1. posts[p].host \in Hosts /\ posts[p].path \in Paths
            BY DEF TypeOK, Post
        <3>2. [st |-> "stored", host |-> posts[p].host,
               path |-> posts[p].path, expiry |-> later + TTL] \in Ticket
            BY <3>1, LaterType DEF Ticket
        <3> QED
            BY <2>1, <3>2, PurgedType
    <2>4. now' \in 0..MaxTime
        BY <2>1, LaterType
    <2> QED
        BY <1>5, <2>2, <2>3, <2>4
        DEF Mint, TypeOK, OneSessionPerTicket, HasTicket
<1>6. ASSUME NEW p \in Posts, MintFails(p) PROVE TicketInvariant'
    <2>1. posts' \in [Posts -> Post]
        <3>1. [posts[p] EXCEPT !.pc = "idle"] \in Post
            BY DEF TypeOK, Post
        <3> QED
            BY <1>6, <3>1 DEF MintFails, TypeOK
    <2> QED
        BY <1>6, <2>1 DEF MintFails, TypeOK, OneSessionPerTicket, HasTicket
<1>7. ASSUME NEW s \in Sockets, Consume(s) PROVE TicketInvariant'
    <2>1. PICK t \in Ids :
            \/ /\ Purged(now)[t].st = "stored"
               /\ tickets' = [Purged(now) EXCEPT ![t].st = "gone"]
               /\ \E later \in Later :
                    /\ now' = later
                    /\ Answer(s, t, IF later > tickets[t].expiry
                                    THEN "refused" ELSE "granted")
            \/ /\ Purged(now)[t].st # "stored"
               /\ tickets' = Purged(now)
               /\ Answer(s, t, "refused")
               /\ UNCHANGED now
        BY <1>7 DEF Consume
    <2>2. PICK pc \in {"refused", "granted"} :
            /\ Answer(s, t, pc)
            /\ pc = "granted" => Purged(now)[t].st = "stored"
        BY <2>1
    <2>3. /\ sockets' = [sockets EXCEPT ![s] = [pc |-> pc, asked |-> t]]
          /\ sockets' \in [Sockets -> Socket]
        BY <2>2 DEF Answer, TypeOK, Socket
    <2>4. /\ tickets' \in [Ids -> Ticket]
          /\ \A u \in Ids : tickets[u].st = "gone" => tickets'[u].st = "gone"
        <3>1. [Purged(now)[t] EXCEPT !.st = "gone"] \in Ticket
            BY PurgedType DEF Ticket
        <3> QED
            BY <2>1, <3>1, PurgedType
    <2>5. now' \in 0..MaxTime
        BY <2>1, LaterType DEF TypeOK
    <2>6. TypeOK'
        BY <1>7, <2>3, <2>4, <2>5 DEF Consume, TypeOK
    <2>7. pc = "granted" =>
            /\ tickets'[t].st = "gone"
            /\ \A r \in Sockets : HasTicket(r) => sockets[r].asked # t
        <3>1. pc = "granted" => tickets[t].st = "stored"
            BY <2>2, PurgedType
        <3>2. pc = "granted" => tickets'[t].st = "gone"
            <4>1. CASE Purged(now)[t].st = "stored"
                BY <2>1, <4>1, PurgedType DEF Ticket
            <4> QED
                BY <2>2, <4>1
        <3> QED
            BY <3>1, <3>2
    <2>8. \A r \in Sockets : HasTicket(r)' =>
            \/ r = s /\ pc = "granted" /\ sockets'[r].asked = t
            \/ r # s /\ HasTicket(r) /\ sockets'[r].asked = sockets[r].asked
        BY <2>3 DEF HasTicket, TypeOK
    <2>9. \A r \in Sockets : sockets'[r].pc = "idle" => sockets'[r].asked = NoId
        BY <2>3 DEF TypeOK
    <2>10. \A r \in Sockets : HasTicket(r)' =>
             sockets'[r].asked \in Ids /\ tickets'[sockets'[r].asked].st = "gone"
        BY <2>4, <2>7, <2>8
    <2>11. OneSessionPerTicket'
        BY <2>7, <2>8 DEF OneSessionPerTicket
    <2> QED
        BY <2>6, <2>9, <2>10, <2>11
<1>8. ASSUME NEW s \in Sockets, Bridge(s) \/ End(s) PROVE TicketInvariant'
    <2>1. PICK pc \in {"bridged", "ended"} : sockets' = [sockets EXCEPT ![s].pc = pc]
        BY <1>8 DEF Bridge, End
    <2>2. sockets[s].pc \in {"granted", "bridged"}
        BY <1>8 DEF Bridge, End
    <2>3. sockets' \in [Sockets -> Socket]
        <3>1. [sockets[s] EXCEPT !.pc = pc] \in Socket
            BY DEF TypeOK, Socket
        <3> QED
            BY <2>1, <3>1 DEF TypeOK
    <2>4. TypeOK'
        BY <1>8, <2>3 DEF Bridge, End, TypeOK
    <2>5. \A r \in Sockets : /\ HasTicket(r)' <=> HasTicket(r)
                             /\ sockets'[r].asked = sockets[r].asked
        BY <2>1, <2>2 DEF HasTicket, TypeOK, Socket
    <2>6. \A r \in Sockets : sockets'[r].pc = "idle" => sockets[r].pc = "idle"
        BY <2>1, <2>2 DEF TypeOK, Socket
    <2>7. tickets' = tickets
        BY <1>8 DEF Bridge, End
    <2> QED
        BY <2>4, <2>5, <2>6, <2>7 DEF OneSessionPerTicket
<1>9. CASE UNCHANGED vars
    BY <1>9 DEF vars, TypeOK, OneSessionPerTicket, HasTicket
<1> QED
    BY <1>1, <1>2, <1>3, <1>4, <1>5, <1>6, <1>7, <1>8, <1>9 DEF Next

\* The invariant of the ticket table.
THEOREM TicketTable == Spec => []TicketInvariant
BY InitInvariant, StepInvariant, PTL DEF Spec

\* However many requests race with one ticket, one of them gets it.
THEOREM OneSession == Spec => []OneSessionPerTicket
<1>1. TicketInvariant => OneSessionPerTicket
    BY DEF TicketInvariant
<1> QED
    BY TicketTable, <1>1, PTL

-----------------------------------------------------------------------------
(* The table implements OneTimeTickets *)

\* The tickets a step closes.
Closed == {t \in Ids : Status[t] = "open" /\ Status'[t] = "closed"}

\* What a step says of the abstract state, by what it does to the table.
LEMMA StatusOf ==
    ASSUME TypeOK
    PROVE  \A t \in Ids :
             /\ Status[t] = "unissued" <=> tickets[t].st = "unminted"
             /\ Status[t] = "open" <=> tickets[t].st = "stored"
             /\ Status[t] = "closed" <=> tickets[t].st = "gone"
             /\ Status[t] \in {"unissued", "open", "closed"}
BY DEF TypeOK, Ticket, Status, Stage

\* A step that closes entries and grants nothing is a Lapse.
LEMMA LapseStep ==
    ASSUME TypeOK, TypeOK', Holders' = Holders,
           \A t \in Ids : \/ tickets'[t].st = tickets[t].st
                          \/ tickets[t].st = "stored" /\ tickets'[t].st = "gone"
    PROVE  OneTime!Next
<1>1. \A t \in Ids :
        /\ Status[t] = "unissued" <=> tickets[t].st = "unminted"
        /\ Status[t] = "open" <=> tickets[t].st = "stored"
        /\ Status[t] = "closed" <=> tickets[t].st = "gone"
    BY StatusOf
<1>2. \A t \in Ids :
        /\ Status'[t] = "unissued" <=> tickets'[t].st = "unminted"
        /\ Status'[t] = "open" <=> tickets'[t].st = "stored"
        /\ Status'[t] = "closed" <=> tickets'[t].st = "gone"
    BY DEF TypeOK, Ticket, Status, Stage
<1>3. \A t \in Ids : Status[t] \in {"unissued", "open", "closed"}
                       /\ Status'[t] \in {"unissued", "open", "closed"}
    BY DEF TypeOK, Ticket, Status, Stage
<1>4. \A t \in Ids : Status'[t] = IF t \in Closed THEN "closed" ELSE Status[t]
    BY <1>1, <1>2, <1>3 DEF Closed
<1>5. Status' = [t \in Ids |-> Status'[t]]
    BY DEF Status
<1>6. Status' = OneTime!Closing(Closed)
    BY <1>4, <1>5 DEF OneTime!Closing
<1>7. Closed \subseteq OneTime!Open
    BY DEF Closed, OneTime!Open
<1>8. OneTime!Lapse(Closed)
    BY <1>6, <1>7 DEF OneTime!Lapse
<1> QED
    BY <1>8 DEF OneTime!Next, Closed

\* The initial table is the empty abstract state.
LEMMA InitRefines == Init => OneTime!Init
BY DEF Init, OneTime!Init, Status, Stage, Holders, HasTicket

\* Every step of the table is a step of OneTimeTickets, or stutters.
LEMMA StepRefines ==
    TicketInvariant /\ TicketInvariant' /\ [Next]_vars
        => [OneTime!Next]_(OneTime!vars)
<1> SUFFICES ASSUME TicketInvariant, TicketInvariant', [Next]_vars
             PROVE  [OneTime!Next]_(OneTime!vars)
    OBVIOUS
<1>1. TypeOK /\ TypeOK'
    BY DEF TicketInvariant
<1>2. CASE /\ tickets' = tickets
           /\ \A s \in Sockets : /\ HasTicket(s)' <=> HasTicket(s)
                                 /\ sockets'[s].asked = sockets[s].asked
    <2>1. Status' = Status
        BY <1>2 DEF Status
    <2>2. Holders' = Holders
        BY <1>2 DEF Holders
    <2> QED
        BY <2>1, <2>2 DEF OneTime!vars
<1>3. CASE Restart
    <2>1. \A s \in Sockets : /\ HasTicket(s)' <=> HasTicket(s)
                             /\ sockets'[s].asked = sockets[s].asked
        BY <1>1, <1>3 DEF Restart, HasTicket, TypeOK, Socket
    <2>2. Holders' = Holders
        BY <2>1 DEF Holders
    <2>3. \A t \in Ids : \/ tickets'[t].st = tickets[t].st
                         \/ tickets[t].st = "stored" /\ tickets'[t].st = "gone"
        BY <1>1, <1>3 DEF Restart, TypeOK, Ticket
    <2> QED
        BY <1>1, <2>2, <2>3, LapseStep
<1>4. ASSUME NEW p \in Posts, Mint(p) PROVE OneTime!Next
    <2>1. PICK t \in Ids, later \in Later :
            /\ tickets[t].st = "unminted"
            /\ tickets' = [Purged(now) EXCEPT ![t] =
                 [st |-> "stored", host |-> posts[p].host,
                  path |-> posts[p].path, expiry |-> later + TTL]]
        BY <1>4 DEF Mint
    <2>2. /\ tickets'[t].st = "stored"
          /\ \A u \in Ids \ {t} : tickets'[u] = Purged(now)[u]
        BY <1>1, <2>1, PurgedType
    <2>3. \A u \in Ids \ {t} :
            \/ tickets'[u].st = tickets[u].st
            \/ tickets[u].st = "stored" /\ tickets'[u].st = "gone"
        BY <1>1, <2>2, PurgedType
    <2>4. Status[t] = "unissued" /\ Status'[t] = "open"
        BY <2>1, <2>2 DEF Status, Stage
    <2>5. \A u \in Ids \ {t} :
            Status'[u] = IF u \in Closed THEN "closed" ELSE Status[u]
        BY <1>1, <2>3 DEF Status, Stage, Closed, TypeOK, Ticket
    <2>6. Status' = [OneTime!Closing(Closed) EXCEPT ![t] = "open"]
        <3>1. Status' = [u \in Ids |-> Status'[u]]
            BY DEF Status
        <3> QED
            BY <2>4, <2>5, <3>1 DEF OneTime!Closing
    <2>7. Holders' = Holders
        BY <1>4 DEF Mint, Holders, HasTicket
    <2>8. Closed \subseteq OneTime!Open
        BY DEF Closed, OneTime!Open
    <2>9. OneTime!Issue(t, Closed)
        BY <2>4, <2>6, <2>7, <2>8 DEF OneTime!Issue
    <2> QED
        BY <2>9 DEF OneTime!Next, Closed
<1>5. ASSUME NEW s \in Sockets, Consume(s) PROVE OneTime!Next
    <2>1. PICK t \in Ids, pc \in {"refused", "granted"} :
            /\ Answer(s, t, pc)
            /\ \/ /\ Purged(now)[t].st = "stored"
                  /\ tickets' = [Purged(now) EXCEPT ![t].st = "gone"]
               \/ /\ tickets' = Purged(now)
                  /\ pc = "refused"
        BY <1>5 DEF Consume
    <2>2. \A u \in Ids : \/ tickets'[u].st = tickets[u].st
                         \/ tickets[u].st = "stored" /\ tickets'[u].st = "gone"
        BY <1>1, <2>1, PurgedType DEF Ticket
    <2>3. sockets' = [sockets EXCEPT ![s] = [pc |-> pc, asked |-> t]]
        BY <2>1 DEF Answer
    <2>4. ~HasTicket(s)
        BY <1>5 DEF Consume, HasTicket
    <2>5. CASE pc = "refused"
        <3>1. \A r \in Sockets :
                /\ HasTicket(r)' <=> HasTicket(r)
                /\ HasTicket(r) => sockets'[r].asked = sockets[r].asked
            BY <1>1, <2>3, <2>4, <2>5 DEF HasTicket, TypeOK
        <3>2. Holders' = Holders
            BY <3>1 DEF Holders
        <3> QED
            BY <1>1, <2>2, <3>2, LapseStep
    <2>6. CASE pc = "granted"
        <3>1. /\ tickets[t].st = "stored"
              /\ tickets'[t].st = "gone"
            BY <1>1, <2>1, <2>6, PurgedType DEF Ticket
        <3>2. Status[t] = "open" /\ Status'[t] = "closed"
            BY <3>1 DEF Status, Stage
        <3>3. \A u \in Ids :
                Status'[u] = IF u \in Closed THEN "closed" ELSE Status[u]
            BY <1>1, <2>2 DEF Status, Stage, Closed, TypeOK, Ticket
        <3>4. Status' = OneTime!Closing(Closed)
            <4>1. Status' = [u \in Ids |-> Status'[u]]
                BY DEF Status
            <4> QED
                BY <3>3, <4>1 DEF OneTime!Closing
        <3>5. /\ HasTicket(s)' /\ sockets'[s].asked = t
              /\ \A r \in Sockets \ {s} : /\ HasTicket(r)' <=> HasTicket(r)
                                          /\ sockets'[r].asked = sockets[r].asked
            BY <1>1, <2>3, <2>6 DEF HasTicket, TypeOK
        <3>6. Holders' = [Holders EXCEPT ![t] = @ \cup {s}]
            <4>1. \A u \in Ids : Holders'[u] =
                    IF u = t THEN Holders[u] \cup {s} ELSE Holders[u]
                BY <2>4, <3>5 DEF Holders
            <4>2. /\ Holders' = [u \in Ids |-> Holders'[u]]
                  /\ Holders = [u \in Ids |-> Holders[u]]
                BY DEF Holders
            <4> QED
                BY <4>1, <4>2
        <3>7. Closed \subseteq OneTime!Open /\ t \in Closed
            BY <3>2 DEF Closed, OneTime!Open
        <3>8. OneTime!Grant(t, s, Closed)
            BY <3>2, <3>4, <3>6, <3>7 DEF OneTime!Grant
        <3> QED
            BY <3>8 DEF OneTime!Next, Closed
    <2> QED
        BY <2>5, <2>6
<1>6. CASE \/ Tick \/ HostChanges \/ UNCHANGED vars
           \/ \E p \in Posts : ResolvePath(p) \/ MintFails(p)
    <2>1. tickets' = tickets /\ sockets' = sockets
        BY <1>6 DEF Tick, HostChanges, ResolvePath, MintFails, vars
    <2> QED
        BY <1>2, <2>1 DEF HasTicket
<1>7. ASSUME NEW s \in Sockets, Bridge(s) \/ End(s)
      PROVE  [OneTime!Next]_(OneTime!vars)
    <2>1. PICK pc \in {"bridged", "ended"} : sockets' = [sockets EXCEPT ![s].pc = pc]
        BY <1>7 DEF Bridge, End
    <2>2. sockets[s].pc \in {"granted", "bridged"}
        BY <1>7 DEF Bridge, End
    <2>3. \A r \in Sockets : /\ HasTicket(r)' <=> HasTicket(r)
                             /\ sockets'[r].asked = sockets[r].asked
        BY <1>1, <2>1, <2>2 DEF HasTicket, TypeOK, Socket
    <2>4. tickets' = tickets
        BY <1>7 DEF Bridge, End
    <2> QED
        BY <1>2, <2>3, <2>4
<1> QED
    BY <1>3, <1>4, <1>5, <1>6, <1>7 DEF Next

\* The ticket table implements one-time tickets.
THEOREM TableRefinesOneTime == Spec => Refinement
<1>1. Init => OneTime!Init
    BY InitRefines
<1>2. TicketInvariant /\ TicketInvariant' /\ [Next]_vars
        => [OneTime!Next]_(OneTime!vars)
    BY StepRefines
<1> QED
    BY <1>1, <1>2, TicketTable, PTL DEF Spec, Refinement, OneTime!Spec

-----------------------------------------------------------------------------
(* The lifetime of a ticket *)

\* A ticket that is out of the table was used, has expired, or was lost with
\* the process.
GoneForCause ==
    \A t \in Ids : tickets[t].st = "gone" =>
        \/ now > tickets[t].expiry
        \/ restarts > 0
        \/ \E s \in Sockets : HasTicket(s) /\ sockets[s].asked = t

\* Once minted a ticket keeps its path and its expiry.
LEMMA TicketsPersist ==
    ASSUME TypeOK, [Next]_vars, NEW t \in Ids, tickets[t].st # "unminted"
    PROVE  /\ tickets'[t].st # "unminted"
           /\ tickets'[t].path = tickets[t].path
           /\ tickets'[t].expiry = tickets[t].expiry
<1>1. tickets[t] \in Ticket
    BY DEF TypeOK
<1>2. \A time : /\ Purged(time)[t].st # "unminted"
                /\ Purged(time)[t].path = tickets[t].path
                /\ Purged(time)[t].expiry = tickets[t].expiry
    BY <1>1 DEF Purged, Ticket
<1>3. CASE tickets' = tickets
    BY <1>3
<1>4. CASE Restart
    BY <1>1, <1>4 DEF Restart, Ticket
<1>5. ASSUME NEW p \in Posts, Mint(p)
      PROVE  \E time : tickets'[t] = Purged(time)[t]
    BY <1>5, PurgedType DEF Mint
<1>6. ASSUME NEW s \in Sockets, Consume(s)
      PROVE  /\ tickets'[t].st # "unminted"
             /\ tickets'[t].path = tickets[t].path
             /\ tickets'[t].expiry = tickets[t].expiry
    <2>1. CASE tickets' = Purged(now)
        BY <1>2, <2>1
    <2>2. CASE \E u \in Ids : tickets' = [Purged(now) EXCEPT ![u].st = "gone"]
        <3>1. Purged(now)[t] \in Ticket
            BY PurgedType
        <3> QED
            BY <1>2, <2>2, <3>1, PurgedType DEF Ticket
    <2> QED
        BY <1>6, <2>1, <2>2 DEF Consume
<1> QED
    BY <1>2, <1>3, <1>4, <1>5, <1>6
    DEF Next, vars, Tick, HostChanges, ResolvePath, MintFails, Bridge, End

\* The clock and the count of restarts do not go back, and who has a ticket has
\* it for good.
LEMMA CausesPersist ==
    ASSUME TicketInvariant, [Next]_vars
    PROVE  /\ now \in Nat /\ now' \in Nat /\ now <= now'
           /\ restarts \in Nat /\ restarts' \in Nat /\ restarts <= restarts'
           /\ \A s \in Sockets : HasTicket(s) =>
                HasTicket(s)' /\ sockets'[s].asked = sockets[s].asked
<1>0. TypeOK /\ now \in Nat /\ restarts \in Nat
    BY ClockAssumption DEF TicketInvariant, TypeOK
<1>1. \A later \in Later : later \in Nat /\ now <= later
    BY <1>0 DEF Later
<1>2. now' = now \/ now' = now + 1 \/ now' \in Later
    BY DEF Next, vars, Tick, HostChanges, Restart, ResolvePath, Mint, MintFails, Consume,
        Bridge, End
<1>3. restarts' = restarts \/ restarts' = restarts + 1
    BY DEF Next, vars, Tick, HostChanges, Restart, ResolvePath, Mint, MintFails, Consume,
        Bridge, End
<1>4. ASSUME NEW s \in Sockets, HasTicket(s)
      PROVE  HasTicket(s)' /\ sockets'[s].asked = sockets[s].asked
    <2>1. sockets[s] \in Socket
        BY <1>0 DEF TypeOK
    <2>2. CASE sockets' = sockets
        BY <1>4, <2>2 DEF HasTicket
    <2>3. CASE Restart
        BY <1>4, <2>1, <2>3 DEF Restart, HasTicket, Socket
    <2>4. ASSUME NEW r \in Sockets, Consume(r)
          PROVE  HasTicket(s)' /\ sockets'[s].asked = sockets[s].asked
        <3>1. r # s
            BY <1>4, <2>4 DEF Consume, HasTicket
        <3>2. sockets'[s] = sockets[s]
            BY <1>0, <2>4, <3>1 DEF Consume, Answer, TypeOK
        <3> QED
            BY <1>4, <3>2 DEF HasTicket
    <2>5. ASSUME NEW r \in Sockets, Bridge(r) \/ End(r)
          PROVE  HasTicket(s)' /\ sockets'[s].asked = sockets[s].asked
        <3>1. PICK pc \in {"bridged", "ended"} : sockets' = [sockets EXCEPT ![r].pc = pc]
            BY <2>5 DEF Bridge, End
        <3> QED
            BY <1>0, <1>4, <3>1 DEF HasTicket, TypeOK, Socket
    <2> QED
        BY <2>2, <2>3, <2>4, <2>5 DEF Next, vars, Tick, HostChanges, ResolvePath, Mint, MintFails
<1>5. now' \in Nat /\ now <= now'
    BY <1>0, <1>1, <1>2
<1>6. restarts' \in Nat /\ restarts <= restarts'
    BY <1>0, <1>3
<1> QED
    BY <1>0, <1>4, <1>5, <1>6

\* What consume answers: a refusal has a reason, and what is granted has not
\* expired at its second reading of the clock.
LEMMA ConsumeAnswers ==
    ASSUME TicketInvariant, GoneForCause, NEW s \in Sockets, Consume(s)
    PROVE  LET t == sockets'[s].asked IN
           /\ t \in Ids
           /\ sockets'[s].pc \in {"granted", "refused"}
           /\ sockets'[s].pc = "granted" => now' <= tickets[t].expiry
           /\ sockets'[s].pc = "refused" =>
                \/ tickets[t].st = "unminted"
                \/ now' > tickets[t].expiry
                \/ restarts > 0
                \/ \E r \in Sockets : HasTicket(r) /\ sockets[r].asked = t
           /\ \A u \in Ids : tickets[u].st = "stored" /\ tickets'[u].st = "gone" =>
                \/ now' > tickets[u].expiry
                \/ sockets'[s].pc = "granted" /\ u = t
<1>0. TypeOK /\ now \in Nat /\ \A u \in Ids : tickets[u] \in Ticket /\ tickets[u].expiry \in Nat
    BY ClockAssumption DEF TicketInvariant, TypeOK, Ticket
<1>1. \A later \in Later : later \in Nat /\ now <= later
    BY <1>0 DEF Later
<1>2. \A u \in Ids : tickets[u].st = "stored" /\ Purged(now)[u].st # "stored"
                        => now > tickets[u].expiry
    BY <1>0 DEF Purged, Ticket
<1>3. PICK t \in Ids :
         \/ /\ Purged(now)[t].st = "stored"
            /\ tickets' = [Purged(now) EXCEPT ![t].st = "gone"]
            /\ \E later \in Later :
                 /\ now' = later
                 /\ Answer(s, t, IF later > tickets[t].expiry
                                 THEN "refused" ELSE "granted")
         \/ /\ Purged(now)[t].st # "stored"
            /\ tickets' = Purged(now)
            /\ Answer(s, t, "refused")
            /\ UNCHANGED now
    BY DEF Consume
<1>4. CASE /\ Purged(now)[t].st = "stored"
           /\ tickets' = [Purged(now) EXCEPT ![t].st = "gone"]
           /\ \E later \in Later :
                /\ now' = later
                /\ Answer(s, t, IF later > tickets[t].expiry
                                THEN "refused" ELSE "granted")
    <2>1. sockets'[s].asked = t
          /\ sockets'[s].pc = IF now' > tickets[t].expiry THEN "refused" ELSE "granted"
        BY <1>0, <1>4 DEF Answer, TypeOK
    <2>2. now' \in Nat /\ now <= now'
        BY <1>1, <1>4
    <2>3. ASSUME NEW u \in Ids, tickets[u].st = "stored", tickets'[u].st = "gone"
          PROVE  now' > tickets[u].expiry \/ (sockets'[s].pc = "granted" /\ u = t)
        <3>1. CASE u = t
            BY <2>1, <3>1
        <3>2. CASE u # t
            <4>1. tickets'[u] = Purged(now)[u]
                BY <1>0, <1>4, <3>2, PurgedType
            <4>2. now > tickets[u].expiry
                BY <1>2, <2>3, <4>1
            <4> QED
                BY <1>0, <2>2, <4>2
        <3> QED
            BY <3>1, <3>2
    <2> QED
        BY <1>0, <2>1, <2>2, <2>3
<1>5. CASE /\ Purged(now)[t].st # "stored"
           /\ tickets' = Purged(now)
           /\ Answer(s, t, "refused")
           /\ UNCHANGED now
    <2>1. sockets'[s].asked = t /\ sockets'[s].pc = "refused"
        BY <1>0, <1>5 DEF Answer, TypeOK
    <2>2. CASE tickets[t].st = "stored"
        BY <1>2, <1>5, <2>1, <2>2
    <2>3. CASE tickets[t].st = "gone"
        BY <1>5, <2>1, <2>3, <1>2 DEF GoneForCause
    <2>4. CASE tickets[t].st = "unminted"
        BY <1>2, <1>5, <2>1, <2>4
    <2> QED
        BY <1>0, <2>2, <2>3, <2>4 DEF Ticket
<1> QED
    BY <1>3, <1>4, <1>5

\* A ticket that leaves the table does so for one of the three reasons.
LEMMA CauseStep ==
    ASSUME TicketInvariant, GoneForCause, [Next]_vars
    PROVE  GoneForCause'
<1>0. TypeOK /\ \A t \in Ids : tickets[t] \in Ticket /\ tickets[t].expiry \in Nat
    BY DEF TicketInvariant, TypeOK, Ticket
<1> SUFFICES ASSUME NEW t \in Ids, tickets'[t].st = "gone"
             PROVE  \/ now' > tickets'[t].expiry
                    \/ restarts' > 0
                    \/ \E s \in Sockets : HasTicket(s)' /\ sockets'[s].asked = t
    BY DEF GoneForCause
<1>1. CASE tickets[t].st = "gone"
    BY <1>0, <1>1, TicketsPersist, CausesPersist DEF GoneForCause
<1>2. CASE tickets[t].st = "stored"
    <2>1. tickets'[t].expiry = tickets[t].expiry
        BY <1>0, <1>2, TicketsPersist
    <2>2. ASSUME NEW s \in Sockets, Consume(s)
          PROVE  \/ now' > tickets'[t].expiry
                 \/ \E r \in Sockets : HasTicket(r)' /\ sockets'[r].asked = t
        BY <1>2, <2>1, <2>2, ConsumeAnswers DEF HasTicket
    <2>3. ASSUME NEW p \in Posts, Mint(p) PROVE now' > tickets'[t].expiry
        <3>1. tickets'[t] = Purged(now)[t]
            BY <1>0, <1>2, <2>3, PurgedType DEF Mint
        <3>2. now > tickets[t].expiry
            BY <1>2, <3>1 DEF Purged
        <3> QED
            BY <1>0, <2>1, <3>2, CausesPersist
    <2>4. CASE Restart
        BY <1>0, <2>4, CausesPersist DEF Restart
    <2> QED
        BY <1>2, <2>2, <2>3, <2>4
        DEF Next, vars, Tick, HostChanges, ResolvePath, MintFails, Bridge, End
<1>3. CASE tickets[t].st = "unminted"
    <2>1. ASSUME NEW s \in Sockets, Consume(s) PROVE FALSE
        <3>1. Purged(now)[t].st = "unminted"
            BY <1>3 DEF Purged
        <3> QED
            BY <1>0, <1>3, <2>1, <3>1, PurgedType DEF Consume
    <2>2. ASSUME NEW p \in Posts, Mint(p) PROVE FALSE
        <3>1. Purged(now)[t].st = "unminted"
            BY <1>3 DEF Purged
        <3> QED
            BY <1>0, <1>3, <2>2, <3>1, PurgedType DEF Mint
    <2> QED
        BY <1>3, <2>1, <2>2
        DEF Next, vars, Tick, HostChanges, Restart, ResolvePath, MintFails, Bridge, End
<1> QED
    BY <1>0, <1>1, <1>2, <1>3 DEF Ticket

\* Both invariants of the table hold in every reachable state.
LEMMA CauseHolds == Spec => [](TicketInvariant /\ GoneForCause)
<1>1. Init => GoneForCause
    BY DEF Init, GoneForCause
<1>2. TicketInvariant /\ GoneForCause /\ [Next]_vars => GoneForCause'
    BY CauseStep
<1> QED
    BY <1>1, <1>2, TicketTable, PTL DEF Spec

\* A socket gets its answer from consume.
LEMMA AnsweredByConsume ==
    ASSUME TypeOK, Next, NEW s \in Sockets, sockets[s].pc = "idle",
           sockets'[s].pc \in {"granted", "refused"}
    PROVE  Consume(s)
<1>1. sockets[s] \in Socket
    BY DEF TypeOK
<1>2. ASSUME sockets' = sockets PROVE FALSE
    BY <1>2
<1>3. ASSUME Restart PROVE FALSE
    BY <1>1, <1>3 DEF Restart, Socket
<1>4. ASSUME NEW r \in Sockets, Bridge(r) \/ End(r) PROVE FALSE
    <2>1. PICK pc \in {"bridged", "ended"} : sockets' = [sockets EXCEPT ![r].pc = pc]
        BY <1>4 DEF Bridge, End
    <2> QED
        BY <1>1, <2>1 DEF TypeOK, Socket
<1>5. ASSUME NEW r \in Sockets, r # s, Consume(r) PROVE FALSE
    BY <1>5 DEF Consume, Answer, TypeOK
<1> QED
    BY <1>2, <1>3, <1>4, <1>5 DEF Next, Tick, HostChanges, ResolvePath, Mint, MintFails

\* A ticket that is presented within its lifetime is refused only if it was used
\* or the Server restarted, and none is honoured after it, whatever the two
\* readings of the clock are.
THEOREM LifetimeKept == Spec => TicketLifetime
<1>1. TicketInvariant /\ GoneForCause /\ [Next]_vars
        => [\A s \in Sockets : LET t == sockets'[s].asked IN
              (sockets[s].pc = "idle" /\ sockets'[s].pc = "refused") =>
                 \/ tickets[t].st = "unminted"
                 \/ now' > tickets[t].expiry
                 \/ restarts > 0
                 \/ \E r \in Sockets : HasTicket(r) /\ sockets[r].asked = t]_vars
    BY ConsumeAnswers, AnsweredByConsume DEF TicketInvariant
<1>2. TicketInvariant /\ GoneForCause /\ [Next]_vars
        => [\A s \in Sockets :
              (sockets[s].pc = "idle" /\ sockets'[s].pc = "granted")
                 => now' <= tickets[sockets'[s].asked].expiry]_vars
    BY ConsumeAnswers, AnsweredByConsume DEF TicketInvariant
<1>3. Spec => TicketHonoured
    BY <1>1, CauseHolds, PTL DEF Spec, TicketHonoured
<1>4. Spec => NeverAfterExpiry
    BY <1>2, CauseHolds, PTL DEF Spec, NeverAfterExpiry
<1> QED
    BY <1>3, <1>4 DEF TicketLifetime

-----------------------------------------------------------------------------
(* The Console tab drives the table as its specification says *)

\* Every step of the tab and the Server together is one of the ticket table, or
\* leaves it alone.
LEMMA ConsoleDrivesTable == NextConsole => [Next]_vars
BY RunAssumption
DEF NextConsole, Next, vars, server, Mount, Unmount, Polled, SetMode, Reconnect, ServerSteps,
    RowChanges, Serve, ServerMints, Opens, ConnectFails, SessionExpires, Upgrade, OnOpen,
    OnClose, Stranger

\* The tab against the Server is an implementation of the ticket table, and so
\* what was proved of the table holds of it: this is the system that runs.
THEOREM ConsoleIsTicketClient == SpecConsole => Spec
<1>1. InitConsole => Init
    BY DEF InitConsole
<1>2. [NextConsole]_allVars => [Next]_vars
    BY ConsoleDrivesTable DEF allVars, vars
<1> QED
    BY <1>1, <1>2, PTL DEF SpecConsole, Spec

-----------------------------------------------------------------------------
(* The inductive invariant of the Console tab *)

\* The path a request was granted is one that its mode allows.
ResolvedForMode ==
    \A k \in Sockets : (runs[k].pc = "served" /\ posts[k].pc = "resolved")
        => runs[k].mode \in {"auto", posts[k].path}

\* So is that of the ticket a run has, which is minted and stays what it is.
TicketForMode ==
    \A k \in Sockets : runs[k].pc \in {"minted", "connecting", "open"} =>
        /\ runs[k].ticket \in Ids
        /\ tickets[runs[k].ticket].st # "unminted"
        /\ runs[k].mode \in {"auto", tickets[runs[k].ticket].path}

\* What the console shows is that of its run; the path is shown from the moment
\* the socket is made.
ShowsItsRun ==
    console.run # NoRun =>
        LET run == runs[console.run] IN
        /\ console.mode = run.mode
        /\ console.status = "connecting"
             => run.pc \in {"asking", "served", "minted", "connecting", "expired"}
        /\ console.status = "closed" => run.pc = "over"
        /\ console.status = "open" => run.pc = "open"
        /\ run.pc \in {"connecting", "open"} => console.shown = tickets[run.ticket].path

ConsoleTypes == console \in Console /\ runs \in [Sockets -> Run]

ConsoleInvariant ==
    /\ TicketInvariant
    /\ ConsoleTypes
    /\ OneLiveSocket
    /\ ResolvedForMode
    /\ TicketForMode
    /\ ShowsItsRun

\* A tab that is not open yet satisfies the invariant.
LEMMA ConsoleInit == InitConsole => ConsoleInvariant
<1> SUFFICES ASSUME InitConsole PROVE ConsoleInvariant
    OBVIOUS
<1>1. TicketInvariant
    BY InitInvariant DEF InitConsole
<1>2. console \in Console /\ console.run = NoRun
    BY DEF InitConsole, Console
<1>3. runs \in [Sockets -> Run] /\ \A k \in Sockets : runs[k].pc = "unused"
    BY DEF InitConsole, Run
<1> QED
    BY <1>1, <1>2, <1>3
    DEF ConsoleInvariant, ConsoleTypes, OneLiveSocket, ResolvedForMode, TicketForMode,
        ShowsItsRun

\* The ticket of a run keeps its path.
LEMMA RunTicketsPersist ==
    ASSUME ConsoleInvariant, [Next]_vars, NEW k \in Sockets,
           runs[k].pc \in {"minted", "connecting", "open"}
    PROVE  /\ tickets'[runs[k].ticket].st # "unminted"
           /\ tickets'[runs[k].ticket].path = tickets[runs[k].ticket].path
BY TicketsPersist DEF ConsoleInvariant, TicketForMode, TicketInvariant

\* A step of the Server that the tab does not notice.
LEMMA ServerKeeps ==
    ASSUME ConsoleInvariant, [Next]_vars, UNCHANGED portal,
           \A k \in Sockets : posts'[k].pc = "resolved" => posts'[k] = posts[k]
    PROVE  ConsoleInvariant'
<1>1. TicketInvariant'
    BY StepInvariant DEF ConsoleInvariant
<1>2. ConsoleTypes' /\ OneLiveSocket'
    BY DEF ConsoleInvariant, ConsoleTypes, OneLiveSocket, portal
<1>3. ResolvedForMode'
    BY DEF ConsoleInvariant, ResolvedForMode, portal
<1>4. TicketForMode'
    BY RunTicketsPersist DEF ConsoleInvariant, TicketForMode, portal
<1>5. ShowsItsRun'
    <2>1. console.run # NoRun => console.run \in Sockets
        BY DEF ConsoleInvariant, ConsoleTypes, Console
    <2> QED
        BY <2>1, RunTicketsPersist DEF ConsoleInvariant, ShowsItsRun, portal
<1> QED
    BY <1>1, <1>2, <1>3, <1>4, <1>5 DEF ConsoleInvariant

\* The cleanup leaves no live socket behind, as the only one was the console's.
LEMMA CleanupCloses ==
    ASSUME ConsoleInvariant
    PROVE  /\ Cleanup \in [Sockets -> Run]
           /\ \A k \in Sockets :
                /\ Cleanup[k].pc \notin {"connecting", "open"}
                /\ Cleanup[k].mode = runs[k].mode
                /\ Cleanup[k].ticket = runs[k].ticket
                /\ Cleanup[k].pc \in {runs[k].pc, "over"}
<1> SUFFICES ASSUME NEW k \in Sockets
             PROVE  /\ Cleanup[k] \in Run
                    /\ Cleanup[k].pc \notin {"connecting", "open"}
                    /\ Cleanup[k].mode = runs[k].mode
                    /\ Cleanup[k].ticket = runs[k].ticket
                    /\ Cleanup[k].pc \in {runs[k].pc, "over"}
    BY DEF Cleanup
<1>1. runs[k] \in Run
    BY DEF ConsoleInvariant, ConsoleTypes
<1>2. CASE runs[k].pc \in {"connecting", "open"}
    <2>1. Cleanup[k] = [runs[k] EXCEPT !.pc = "over"]
        BY <1>2 DEF Cleanup, ConsoleInvariant, OneLiveSocket
    <2> QED
        BY <1>1, <2>1 DEF Run
<1>3. CASE runs[k].pc \notin {"connecting", "open"}
    <2>1. Cleanup[k] = runs[k]
        BY <1>3 DEF Cleanup
    <2> QED
        BY <1>1, <1>3, <2>1
<1> QED
    BY <1>2, <1>3

\* The effect runs again: at most a new run that asks for a ticket, in the mode
\* that is selected.
LEMMA EffectKeeps ==
    ASSUME ConsoleInvariant, NEW c \in Console, Effect(c), UNCHANGED server
    PROVE  ConsoleInvariant'
<1>1. CASE AnyAvailable(c)
    <2>1. PICK k \in Sockets :
             /\ runs' = [Cleanup EXCEPT ![k].pc = "asking", ![k].mode = c.mode]
             /\ console' = [c EXCEPT !.run = k, !.ws = NoRun,
                                     !.status = "connecting", !.shown = "none"]
        BY <1>1 DEF Effect
    <2> DEFINE r == [Cleanup[k] EXCEPT !.pc = "asking", !.mode = c.mode]
    <2>2. Cleanup[k] \in Run /\ c.mode \in {"auto", "agent", "ssh"}
        BY CleanupCloses DEF Console
    <2>3. r \in Run /\ r.pc = "asking" /\ r.mode = c.mode
        BY <2>2 DEF Run
    <2>4. runs' = [Cleanup EXCEPT ![k] = r]
        BY <2>1, CleanupCloses
    <2> HIDE DEF r
    <2>5. /\ runs' \in [Sockets -> Run]
          /\ runs'[k] = r
          /\ \A j \in Sockets \ {k} : runs'[j] = Cleanup[j]
        BY <2>3, <2>4, CleanupCloses
    <2>6. /\ console' \in Console
          /\ console'.run = k
          /\ console'.mode = c.mode
          /\ console'.status = "connecting"
        BY <2>1 DEF Console
    <2>7. TicketInvariant'
        BY StepInvariant DEF ConsoleInvariant, server, vars
    <2>8. OneLiveSocket' /\ TicketForMode'
        BY <2>3, <2>5, CleanupCloses DEF OneLiveSocket, TicketForMode, ConsoleInvariant, server
    <2>9. ResolvedForMode'
        BY <2>3, <2>5, CleanupCloses DEF ConsoleInvariant, ResolvedForMode, server
    <2>10. ShowsItsRun'
        BY <2>3, <2>5, <2>6 DEF ShowsItsRun
    <2> QED
        BY <2>5, <2>6, <2>7, <2>8, <2>9, <2>10 DEF ConsoleInvariant, ConsoleTypes
<1>2. CASE ~AnyAvailable(c)
    <2>1. runs' = Cleanup /\ console' = [c EXCEPT !.run = NoRun, !.ws = NoRun]
        BY <1>2 DEF Effect
    <2>2. console' \in Console /\ console'.run = NoRun
        BY <2>1 DEF Console
    <2>3. TicketInvariant'
        BY StepInvariant DEF ConsoleInvariant, server, vars
    <2> QED
        BY <2>1, <2>2, <2>3, CleanupCloses
        DEF ConsoleInvariant, ConsoleTypes, OneLiveSocket, TicketForMode, ResolvedForMode,
            ShowsItsRun, server
<1> QED
    BY <1>1, <1>2

\* Another Host's data change what is offered, and nothing else.
LEMMA OfferedTypes ==
    ASSUME NEW c \in Console, NEW host \in Host
    PROVE  /\ Offered(c, host) \in Console
           /\ Offered(c, host).run = c.run /\ Offered(c, host).ws = c.ws
           /\ Offered(c, host).mode = c.mode /\ Offered(c, host).shown = c.shown
           /\ Offered(c, host).status = c.status
BY DEF Offered, Console, Host

\* What the operator and the page do.
LEMMA PageKeeps ==
    ASSUME ConsoleInvariant, Mount \/ Unmount \/ Polled \/ SetMode \/ Reconnect
    PROVE  ConsoleInvariant'
<1>1. console \in Console /\ TypeOK
    BY DEF ConsoleInvariant, ConsoleTypes, TicketInvariant
<1>2. hosts[console.host] \in Host
    BY <1>1 DEF Console, TypeOK
<1>3. CASE Mount
    <2> DEFINE c == [console EXCEPT !.up = TRUE, !.mode = "auto",
                                    !.status = "idle", !.shown = "none"]
    <2>1. c \in Console
        BY <1>1 DEF Console
    <2>2. Effect(Offered(c, hosts[console.host])) /\ UNCHANGED server
        BY <1>3 DEF Mount
    <2> HIDE DEF c
    <2> QED
        BY <1>2, <2>1, <2>2, OfferedTypes, EffectKeeps
<1>4. CASE Unmount
    <2>1. runs' = Cleanup /\ UNCHANGED server
          /\ console' = [console EXCEPT !.up = FALSE, !.run = NoRun, !.ws = NoRun]
        BY <1>4 DEF Unmount
    <2>2. console' \in Console /\ console'.run = NoRun
        BY <1>1, <2>1 DEF Console
    <2>3. TicketInvariant'
        BY <2>1, StepInvariant DEF ConsoleInvariant, server, vars
    <2> QED
        BY <2>1, <2>2, <2>3, CleanupCloses
        DEF ConsoleInvariant, ConsoleTypes, OneLiveSocket, TicketForMode, ResolvedForMode,
            ShowsItsRun, server
<1>5. CASE Polled
    <2> DEFINE c == Offered(console, hosts[console.host])
    <2>1. CASE Effect(c)
        BY <1>1, <1>2, <1>5, <2>1, OfferedTypes, EffectKeeps DEF Polled
    <2>2. CASE console' = c /\ UNCHANGED runs
        <3>1. TicketInvariant'
            BY <1>5, StepInvariant DEF ConsoleInvariant, server, vars, Polled
        <3>2. UNCHANGED server
            BY <1>5 DEF Polled
        <3>3. /\ console' \in Console
              /\ console'.run = console.run /\ console'.ws = console.ws
              /\ console'.mode = console.mode /\ console'.shown = console.shown
              /\ console'.status = console.status
            BY <1>1, <1>2, <2>2, OfferedTypes
        <3> QED
            BY <2>2, <3>1, <3>2, <3>3
            DEF ConsoleInvariant, ConsoleTypes, OneLiveSocket, TicketForMode, ResolvedForMode,
                ShowsItsRun, server
    <2> QED
        BY <1>5, <2>1, <2>2 DEF Polled
<1>6. CASE SetMode
    <2>1. PICK mode \in {"auto", "agent", "ssh"} : Effect([console EXCEPT !.mode = mode])
        BY <1>6 DEF SetMode
    <2>2. [console EXCEPT !.mode = mode] \in Console
        BY <1>1 DEF Console
    <2> QED
        BY <1>6, <2>1, <2>2, EffectKeeps DEF SetMode
<1>7. CASE Reconnect
    BY <1>1, <1>7, EffectKeeps DEF Reconnect
<1> QED
    BY <1>3, <1>4, <1>5, <1>6, <1>7

\* Run k moves on to r, and the console with it if k is the one on screen.
LEMMA RunMoves ==
    ASSUME ConsoleInvariant, [Next]_vars, NEW k \in Sockets, NEW r \in Run,
           runs' = [runs EXCEPT ![k] = r],
           r.mode = runs[k].mode,
           \A j \in Sockets \ {k} : posts'[j] = posts[j],
           r.pc = "served" /\ posts'[k].pc = "resolved"
             => r.mode \in {"auto", posts'[k].path},
           r.pc \in {"minted", "connecting", "open"}
             => /\ r.ticket \in Ids
                /\ tickets'[r.ticket].st # "unminted"
                /\ r.mode \in {"auto", tickets'[r.ticket].path},
           console' \in Console,
           console'.run = console.run /\ console'.mode = console.mode,
           k # console.run => console' = console /\ r.pc \notin {"connecting", "open"},
           r.pc \in {"connecting", "open"}
             => console'.ws = k /\ console'.shown = tickets'[r.ticket].path,
           k = console.run
             => /\ console'.status = "connecting"
                     => r.pc \in {"asking", "served", "minted", "connecting", "expired"}
                /\ console'.status = "closed" => r.pc = "over"
                /\ console'.status = "open" => r.pc = "open"
    PROVE  ConsoleInvariant'
<1>1. TicketInvariant'
    BY StepInvariant DEF ConsoleInvariant
<1>2. /\ runs' \in [Sockets -> Run] /\ runs'[k] = r
      /\ \A j \in Sockets \ {k} : runs'[j] = runs[j]
    BY DEF ConsoleInvariant, ConsoleTypes
<1>3. OneLiveSocket'
    BY <1>2 DEF ConsoleInvariant, OneLiveSocket
<1>4. ResolvedForMode'
    BY <1>2 DEF ConsoleInvariant, ResolvedForMode
<1>5. TicketForMode'
    BY <1>2, RunTicketsPersist DEF ConsoleInvariant, TicketForMode
<1>6. ShowsItsRun'
    <2>1. CASE k = console.run
        BY <1>2, <2>1 DEF ConsoleInvariant, ShowsItsRun
    <2>2. CASE k # console.run
        <3>1. console.run # NoRun => console.run \in Sockets \ {k}
            BY <2>2 DEF ConsoleInvariant, ConsoleTypes, Console
        <3> QED
            BY <1>2, <2>2, <3>1, RunTicketsPersist DEF ConsoleInvariant, ShowsItsRun
    <2> QED
        BY <2>1, <2>2
<1> QED
    BY <1>1, <1>2, <1>3, <1>4, <1>5, <1>6 DEF ConsoleInvariant, ConsoleTypes

\* What is known of run k before it moves.
LEMMA RunFacts ==
    ASSUME ConsoleInvariant, NEW k \in Sockets
    PROVE  /\ runs[k] \in Run
           /\ runs \in [Sockets -> Run]
           /\ console \in Console
           /\ posts \in [Sockets -> Post]
           /\ runs[k].pc \in {"connecting", "open"} => k = console.run /\ k = console.ws
           /\ runs[k].pc \in {"minted", "connecting", "open"} =>
                /\ runs[k].ticket \in Ids
                /\ tickets[runs[k].ticket].st # "unminted"
                /\ runs[k].mode \in {"auto", tickets[runs[k].ticket].path}
           /\ k = console.run =>
                /\ console.status = "connecting"
                     => runs[k].pc \in {"asking", "served", "minted", "connecting", "expired"}
                /\ console.status = "closed" => runs[k].pc = "over"
                /\ console.status = "open" => runs[k].pc = "open"
                /\ runs[k].pc \in {"connecting", "open"}
                     => console.shown = tickets[runs[k].ticket].path
BY RunAssumption
DEF ConsoleInvariant, ConsoleTypes, TicketInvariant, TypeOK, OneLiveSocket, TicketForMode,
    ShowsItsRun

\* The Server reading a request keeps it.
LEMMA ServeKeeps ==
    ASSUME ConsoleInvariant, NEW k \in Sockets, Serve(k)
    PROVE  ConsoleInvariant'
<1> DEFINE r == [runs[k] EXCEPT !.pc = "served"]
<1>1. r \in Run /\ r.pc = "served" /\ r.mode = runs[k].mode
    BY RunFacts DEF Run
<1>2. runs' = [runs EXCEPT ![k] = r] /\ console' = console
    BY RunFacts DEF Serve
<1>3. [Next]_vars
    BY ConsoleDrivesTable DEF NextConsole
<1>4. \A j \in Sockets \ {k} : posts'[j] = posts[j]
    BY RunFacts DEF Serve, ResolvePath
<1>5. posts'[k].path \in Resolve(hosts[console.host], runs[k].mode)
    BY DEF Serve
<1>6. runs[k].mode \in {"auto", posts'[k].path}
    BY <1>5, RunFacts DEF Resolve, Run
<1>7. k = console.run => console.status \notin {"closed", "open"}
    BY RunFacts DEF Serve
<1> HIDE DEF r
<1> QED
    BY <1>1, <1>2, <1>3, <1>4, <1>6, <1>7, RunFacts, RunMoves

\* So does the ticket it mints: no run has it yet.
LEMMA MintsKeeps ==
    ASSUME ConsoleInvariant, NEW k \in Sockets, ServerMints(k)
    PROVE  ConsoleInvariant'
<1>1. PICK t \in Ids :
         /\ tickets[t].st = "unminted" /\ tickets'[t].st = "stored"
         /\ runs' = [runs EXCEPT ![k].pc = "minted", ![k].ticket = t]
    BY DEF ServerMints
<1> DEFINE r == [runs[k] EXCEPT !.pc = "minted", !.ticket = t]
<1>2. r \in Run /\ r.pc = "minted" /\ r.mode = runs[k].mode /\ r.ticket = t
    BY RunFacts DEF Run
<1>3. runs' = [runs EXCEPT ![k] = r] /\ console' = console
    BY <1>1, RunFacts DEF ServerMints
<1>4. [Next]_vars
    BY ConsoleDrivesTable DEF NextConsole
<1>5. posts[k].pc = "resolved" /\ \A j \in Sockets \ {k} : posts'[j] = posts[j]
    BY RunFacts DEF ServerMints, Mint
<1>6. tickets'[t].path = posts[k].path
    <2>1. PICK u \in Ids, later \in Later :
             tickets' = [Purged(now) EXCEPT ![u] =
                 [st |-> "stored", host |-> posts[k].host,
                  path |-> posts[k].path, expiry |-> later + TTL]]
        BY DEF ServerMints, Mint
    <2>2. Purged(now)[t].st = "unminted" /\ Purged(now) \in [Ids -> Ticket]
        BY <1>1, PurgedType DEF Purged, ConsoleInvariant, TicketInvariant
    <2>3. u = t
        BY <1>1, <2>1, <2>2
    <2> QED
        BY <2>1, <2>2, <2>3
<1>7. runs[k].mode \in {"auto", posts[k].path}
    BY <1>5 DEF ConsoleInvariant, ResolvedForMode, ServerMints
<1>8. k = console.run => console.status \notin {"closed", "open"}
    BY RunFacts DEF ServerMints
<1>9. console \in Console
    BY RunFacts
<1>10. /\ r.ticket \in Ids
       /\ tickets'[r.ticket].st # "unminted"
       /\ r.mode \in {"auto", tickets'[r.ticket].path}
    BY <1>1, <1>2, <1>6, <1>7
<1> HIDE DEF r
<1> QED
    BY <1>2, <1>3, <1>4, <1>5, <1>8, <1>9, <1>10, RunMoves

\* A run that makes no socket.
LEMMA OverMoves ==
    ASSUME ConsoleInvariant, [Next]_vars, NEW k \in Sockets, Over(k),
           runs[k].pc \notin {"connecting", "open"},
           \A j \in Sockets \ {k} : posts'[j] = posts[j],
           console' = IF k = console.run THEN [console EXCEPT !.status = "closed"]
                                         ELSE console
    PROVE  ConsoleInvariant'
<1> DEFINE r == [runs[k] EXCEPT !.pc = "over", !.ticket = NoId]
<1>1. r \in Run /\ r.pc = "over" /\ r.mode = runs[k].mode
    BY RunFacts DEF Run
<1>2. runs' = [runs EXCEPT ![k] = r]
    BY RunFacts DEF Over
<1>3. /\ console' \in Console /\ console'.run = console.run /\ console'.mode = console.mode
      /\ k = console.run => console'.status = "closed"
    BY RunFacts DEF Console
<1> HIDE DEF r
<1> QED
    BY <1>1, <1>2, <1>3, RunMoves

\* So does the answer, whether its run is the current one or disposed.
LEMMA OpensKeeps ==
    ASSUME ConsoleInvariant, NEW k \in Sockets, Opens(k)
    PROVE  ConsoleInvariant'
<1>1. [Next]_vars /\ posts' = posts /\ tickets' = tickets
    BY DEF Opens, server, vars
<1>2. CASE k # console.run
    BY <1>1, <1>2, OverMoves DEF Opens
<1>3. CASE k = console.run
    <2> DEFINE r == [runs[k] EXCEPT !.pc = "connecting"]
    <2>1. /\ r \in Run /\ r.pc = "connecting"
          /\ r.mode = runs[k].mode /\ r.ticket = runs[k].ticket
        BY RunFacts DEF Run
    <2>2. runs' = [runs EXCEPT ![k] = r]
        BY <1>3, RunFacts DEF Opens
    <2>3. console' = [console EXCEPT !.ws = k, !.shown = tickets[runs[k].ticket].path]
        BY <1>3 DEF Opens
    <2>4. runs[k].ticket \in Ids /\ tickets[runs[k].ticket].path \in Paths
        BY RunFacts DEF Opens, ConsoleInvariant, TicketInvariant, TypeOK, Ticket
    <2>5. /\ console' \in Console
          /\ console'.run = console.run /\ console'.mode = console.mode
          /\ console'.status = console.status /\ console'.ws = k
          /\ console'.shown = tickets[runs[k].ticket].path
        BY <2>3, <2>4, RunFacts DEF Console
    <2>6. console.status \notin {"closed", "open"}
        BY <1>3, RunFacts DEF Opens
    <2>7. /\ tickets[runs[k].ticket].st # "unminted"
          /\ runs[k].mode \in {"auto", tickets[runs[k].ticket].path}
        BY RunFacts DEF Opens
    <2> HIDE DEF r
    <2> QED
        BY <1>1, <1>3, <2>1, <2>2, <2>4, <2>5, <2>6, <2>7, RunMoves
<1> QED
    BY <1>2, <1>3

\* So does a request that fails.
LEMMA ConnectFailsKeeps ==
    ASSUME ConsoleInvariant, NEW k \in Sockets, ConnectFails(k)
    PROVE  ConsoleInvariant'
<1>1. [Next]_vars /\ \A j \in Sockets \ {k} : posts'[j] = posts[j]
    BY RunAssumption, RunFacts DEF ConnectFails, MintFails, server, vars, Next
<1>2. runs[k].pc \notin {"connecting", "open"}
    BY DEF ConnectFails
<1> QED
    BY <1>1, <1>2, OverMoves DEF ConnectFails

\* So does a login that has run out: the run says nothing more, nor does the console.
LEMMA ExpiresKeeps ==
    ASSUME ConsoleInvariant, NEW k \in Sockets, SessionExpires(k)
    PROVE  ConsoleInvariant'
<1> DEFINE r == [runs[k] EXCEPT !.pc = "expired"]
<1>1. r \in Run /\ r.pc = "expired" /\ r.mode = runs[k].mode
    BY RunFacts DEF Run
<1>2. runs' = [runs EXCEPT ![k] = r] /\ console' = console
    BY RunFacts DEF SessionExpires
<1>3. [Next]_vars /\ posts' = posts
    BY DEF SessionExpires, server, vars
<1>4. k = console.run => console.status \notin {"closed", "open"}
    BY RunFacts DEF SessionExpires
<1> HIDE DEF r
<1> QED
    BY <1>1, <1>2, <1>3, <1>4, RunFacts, RunMoves

\* So do the events of a socket.
LEMMA SocketKeeps ==
    ASSUME ConsoleInvariant, NEW k \in Sockets, OnOpen(k) \/ OnClose(k)
    PROVE  ConsoleInvariant'
<1>1. [Next]_vars /\ posts' = posts /\ tickets' = tickets
    BY DEF OnOpen, OnClose, server, vars
<1>2. runs[k].pc \in {"connecting", "open"}
    BY DEF OnOpen, OnClose
<1>3. k = console.run /\ k = console.ws
    BY <1>2, RunFacts
<1>4. PICK x \in {"open", "over"} :
         /\ runs' = [runs EXCEPT ![k].pc = x]
         /\ \/ x = "open" /\ console' = [console EXCEPT !.status = "open"]
            \/ x = "over" /\ console' = [console EXCEPT !.status = "closed", !.ws = NoRun]
    BY <1>3 DEF OnOpen, OnClose
<1> DEFINE r == [runs[k] EXCEPT !.pc = x]
<1>5. r \in Run /\ r.pc = x /\ r.mode = runs[k].mode /\ r.ticket = runs[k].ticket
    BY RunFacts DEF Run
<1>6. runs' = [runs EXCEPT ![k] = r]
    BY <1>4, RunFacts
<1>7. /\ console' \in Console
      /\ console'.run = console.run /\ console'.mode = console.mode
      /\ console'.shown = console.shown
      /\ \/ x = "open" /\ console'.status = "open" /\ console'.ws = k
         \/ x = "over" /\ console'.status = "closed"
    BY <1>3, <1>4, RunFacts DEF Console
<1>8. /\ runs[k].ticket \in Ids
      /\ tickets[runs[k].ticket].st # "unminted"
      /\ runs[k].mode \in {"auto", tickets[runs[k].ticket].path}
      /\ console.shown = tickets[runs[k].ticket].path
    BY <1>2, <1>3, RunFacts
<1> HIDE DEF r
<1> QED
    BY <1>1, <1>3, <1>5, <1>6, <1>7, <1>8, RunMoves

\* So does every step: ConsoleInvariant is inductive.
LEMMA ConsoleStep ==
    ASSUME ConsoleInvariant, [NextConsole]_allVars
    PROVE  ConsoleInvariant'
<1>1. [Next]_vars
    BY ConsoleDrivesTable DEF allVars, vars
<1>2. CASE ServerSteps \/ RowChanges \/ UNCHANGED allVars
    <2>1. UNCHANGED portal
        BY <1>2 DEF ServerSteps, RowChanges, allVars, portal
    <2>2. \A k \in Sockets : posts'[k].pc = "resolved" => posts'[k] = posts[k]
        <3>1. CASE Restart
            <4>1. \A k \in Sockets : posts[k] \in Post /\ posts'[k] = [posts[k] EXCEPT !.pc = "idle"]
                BY <3>1, RunAssumption, RunFacts DEF Restart
            <4> QED
                BY <4>1 DEF Post
        <3>2. CASE posts' = posts
            BY <3>2
        <3> QED
            BY <1>2, <3>1, <3>2
            DEF ServerSteps, RowChanges, allVars, Tick, Bridge, End, HostChanges
    <2> QED
        BY <1>1, <2>1, <2>2, ServerKeeps
<1>3. ASSUME NEW k \in Sockets, Upgrade(k) \/ Stranger(k) PROVE ConsoleInvariant'
    <2>1. UNCHANGED portal /\ posts' = posts
        BY <1>3 DEF Upgrade, Stranger, Consume
    <2> QED
        BY <1>1, <2>1, ServerKeeps
<1> QED
    BY <1>2, <1>3, PageKeeps, ServeKeeps, MintsKeeps, OpensKeeps, ConnectFailsKeeps,
       ExpiresKeeps, SocketKeeps
    DEF NextConsole

\* It holds in every reachable state.
LEMMA ConsoleHolds == SpecConsole => []ConsoleInvariant
BY ConsoleInit, ConsoleStep, PTL DEF SpecConsole

\* However the tab is switched, reconnected, polled and left, and wherever
\* connect() was waiting, the only live socket is the one on screen.
THEOREM OneSocketOnScreen == SpecConsole => []OneLiveSocket
<1>1. ConsoleInvariant => OneLiveSocket
    BY DEF ConsoleInvariant
<1> QED
    BY <1>1, ConsoleHolds, PTL

\* What the Console says of its connection is true of the run on screen.
THEOREM ConsoleTellsTruth == SpecConsole => []ShownIsTrue
<1>1. ConsoleInvariant => ShownIsTrue
    BY DEF ConsoleInvariant, ConsoleTypes, Console, ShowsItsRun, TicketForMode, ShownIsTrue
<1> QED
    BY <1>1, ConsoleHolds, PTL

\* The Server that serves the tab keeps the promise of one-time tickets, and
\* their lifetime.
THEOREM ConsoleRefinesOneTime == SpecConsole => Refinement /\ TicketLifetime
BY ConsoleIsTicketClient, TableRefinesOneTime, LifetimeKept

=============================================================================

--------------------------- MODULE TerminalTickets ---------------------------
(***************************************************************************)
(* How the Portal opens a Host Console (internal/terminal): POST .../ticket*)
(* decides the path and mints a ticket, the browser upgrades a WebSocket   *)
(* with it, and the handler bridges the socket to the Agent or to SSH.     *)
(*                                                                         *)
(* Many requests run at once; the Host row they look at is changed by      *)
(* others meanwhile.  ticketStore's operations hold its mutex, but each    *)
(* reads the clock twice.                                                  *)
(***************************************************************************)
EXTENDS Naturals, FiniteSets

CONSTANTS
    Ids,         \* ticket ids (24 random bytes)
    Sockets,     \* WebSocket upgrade requests
    Posts,       \* POST requests in progress
    Hosts,
    NoId,        \* no ticket id
    TTL,         \* ticketTTL
    MaxTime,     \* bound on the clock
    MaxRestarts  \* bound on Server restarts

ASSUME NoIdAssumption == NoId \notin Ids
ASSUME ClockAssumption == TTL \in Nat /\ MaxTime \in Nat /\ MaxRestarts \in Nat

VARIABLES
    now,       \* the Server's clock
    tickets,   \* ticketStore.tickets, and what became of the others
    hosts,     \* the Host rows, as the Console sees them
    posts,     \* createTicket handlers
    sockets,   \* websocket handlers
    restarts

vars == <<now, tickets, hosts, posts, sockets, restarts>>

-----------------------------------------------------------------------------
Paths == {"agent", "ssh"}

\* stored: in the map; gone: consumed, purged or lost with the process.
Ticket == [st: {"unminted", "stored", "gone"}, host: Hosts, path: Paths,
           expiry: Nat]

\* agent: no fingerprint, or agent_online; ssh: credential and dial address.
Host == [live: BOOLEAN, agent: {"none", "offline", "online"}, ssh: BOOLEAN]

Post == [pc: {"idle", "resolved"}, host: Hosts, path: Paths]

Socket == [pc: {"idle", "granted", "refused", "bridged", "ended"},
           asked: Ids \cup {NoId}]

\* Sockets that consume has answered with the ticket.
HasTicket(s) == sockets[s].pc \in {"granted", "bridged", "ended"}

\* time.Now() again, a little later.
Later == {t \in {now, now + 1} : t <= MaxTime}

\* Service.resolvePath: the paths a request may get, by its mode.
Resolve(host, mode) ==
    {path \in Paths :
        \/ path = "agent" /\ mode # "ssh" /\ host.agent = "online"
        \/ path = "ssh" /\ mode = "ssh" /\ host.ssh
        \/ path = "ssh" /\ mode = "auto" /\ host.agent # "online" /\ host.ssh}

\* Mutant of Purged: the last second of a ticket is cut off.
PurgedEarly(time) ==
    [t \in Ids |->
        IF tickets[t].st = "stored" /\ time >= tickets[t].expiry
        THEN [tickets[t] EXCEPT !.st = "gone"] ELSE tickets[t]]

\* purgeLocked: every entry whose expiry has passed.
Purged(time) ==
    [t \in Ids |->
        IF tickets[t].st = "stored" /\ time > tickets[t].expiry
        THEN [tickets[t] EXCEPT !.st = "gone"] ELSE tickets[t]]

-----------------------------------------------------------------------------
Init ==
    /\ now = 0
    /\ tickets \in [Ids -> {[st |-> "unminted", host |-> h, path |-> "ssh",
                             expiry |-> 0] : h \in Hosts}]
    /\ hosts \in [Hosts -> Host]
    /\ posts \in [Posts -> {[pc |-> "idle", host |-> h, path |-> "ssh"] :
                              h \in Hosts}]
    /\ sockets = [s \in Sockets |-> [pc |-> "idle", asked |-> NoId]]
    /\ restarts = 0

Tick ==
    /\ now < MaxTime
    /\ now' = now + 1
    /\ UNCHANGED <<tickets, hosts, posts, sockets, restarts>>

\* Operators, Agents and the probe loop change the row (external here; see
\* AgentPresence).
HostChanges ==
    /\ \E h \in Hosts, host \in Host : hosts' = [hosts EXCEPT ![h] = host]
    /\ UNCHANGED <<now, tickets, posts, sockets, restarts>>

\* The table lives in memory; its requests end with the process.
Restart ==
    /\ restarts < MaxRestarts
    /\ restarts' = restarts + 1
    /\ tickets' = [t \in Ids |-> IF tickets[t].st = "stored"
                                 THEN [tickets[t] EXCEPT !.st = "gone"]
                                 ELSE tickets[t]]
    /\ posts' = [p \in Posts |-> [posts[p] EXCEPT !.pc = "idle"]]
    /\ sockets' = [s \in Sockets |->
                     IF sockets[s].pc \in {"granted", "bridged"}
                     THEN [sockets[s] EXCEPT !.pc = "ended"] ELSE sockets[s]]
    /\ UNCHANGED <<now, hosts>>

-----------------------------------------------------------------------------
(* createTicket *)

\* GetEntity and resolvePath; a refused request changes nothing.
ResolvePath(p) ==
    /\ posts[p].pc = "idle"
    /\ \E h \in Hosts, mode \in {"auto", "agent", "ssh"} :
         /\ hosts[h].live
         /\ \E path \in Resolve(hosts[h], mode) :
              posts' = [posts EXCEPT
                          ![p] = [pc |-> "resolved", host |-> h, path |-> path]]
    /\ UNCHANGED <<now, tickets, hosts, sockets, restarts>>

\* ticketStore.mint: purge, then insert under a fresh random id.
Mint(p) ==
    /\ posts[p].pc = "resolved"
    /\ posts' = [posts EXCEPT ![p].pc = "idle"]
    /\ \E t \in Ids, later \in Later :
         /\ tickets[t].st = "unminted"
         /\ now' = later
         /\ tickets' = [Purged(now) EXCEPT ![t] =
              [st |-> "stored", host |-> posts[p].host,
               path |-> posts[p].path, expiry |-> later + TTL]]
    /\ UNCHANGED <<hosts, sockets, restarts>>

\* rand.Read fails, or (bound) the ids have run out.
MintFails(p) ==
    /\ posts[p].pc = "resolved"
    /\ posts' = [posts EXCEPT ![p].pc = "idle"]
    /\ UNCHANGED <<now, tickets, hosts, sockets, restarts>>

-----------------------------------------------------------------------------
(* websocket *)

Answer(s, t, pc) == sockets' = [sockets EXCEPT ![s] = [pc |-> pc, asked |-> t]]

\* Mutant of Consume: the entry stays in the map.
ConsumeKeeps(s) ==
    /\ sockets[s].pc = "idle"
    /\ \E t \in Ids :
         /\ tickets' = Purged(now)
         /\ Answer(s, t, IF tickets'[t].st = "stored" THEN "granted" ELSE "refused")
    /\ UNCHANGED <<now, hosts, posts, restarts>>

\* ticketStore.consume, the first thing the handler does, before the upgrade:
\* purge, look up, delete, and compare the expiry with a second clock reading.
Consume(s) ==
    /\ sockets[s].pc = "idle"
    /\ \E t \in Ids :
         \/ /\ Purged(now)[t].st = "stored"
            /\ tickets' = [Purged(now) EXCEPT ![t].st = "gone"]
            /\ \E later \in Later :
                 /\ now' = later
                 /\ Answer(s, t, IF later > tickets[t].expiry
                                 THEN "refused" ELSE "granted")
         \/ /\ Purged(now)[t].st # "stored"
            /\ tickets' = Purged(now)
            /\ Answer(s, t, "refused")
            /\ UNCHANGED now
    /\ UNCHANGED <<hosts, posts, restarts>>

\* The Host is read again and the session opened over the ticket's path.
Bridge(s) ==
    /\ sockets[s].pc = "granted"
    /\ LET t == tickets[sockets[s].asked] IN
         /\ hosts[t.host].live
         /\ IF t.path = "agent" THEN hosts[t.host].agent # "none"
                                ELSE hosts[t.host].ssh
    /\ sockets' = [sockets EXCEPT ![s].pc = "bridged"]
    /\ UNCHANGED <<now, tickets, hosts, posts, restarts>>

\* The upgrade fails, the Host or its path is gone, OpenShell or the SSH dial
\* fails; or a session that worked is over.
End(s) ==
    /\ sockets[s].pc \in {"granted", "bridged"}
    /\ sockets' = [sockets EXCEPT ![s].pc = "ended"]
    /\ UNCHANGED <<now, tickets, hosts, posts, restarts>>

-----------------------------------------------------------------------------
Next ==
    \/ Tick \/ HostChanges \/ Restart
    \/ \E p \in Posts : ResolvePath(p) \/ Mint(p) \/ MintFails(p)
    \/ \E s \in Sockets : Consume(s) \/ Bridge(s) \/ End(s)

Spec == Init /\ [][Next]_vars

-----------------------------------------------------------------------------
(* Properties *)

TypeOK ==
    /\ now \in 0..MaxTime
    /\ tickets \in [Ids -> Ticket]
    /\ hosts \in [Hosts -> Host]
    /\ posts \in [Posts -> Post]
    /\ sockets \in [Sockets -> Socket]
    /\ restarts \in 0..MaxRestarts

\* However many upgrade requests race with one ticket, one of them gets it -
\* also when it is replayed after the session, or after a restart.
OneSessionPerTicket ==
    \A r, s \in Sockets :
        (HasTicket(r) /\ HasTicket(s) /\ sockets[r].asked = sockets[s].asked)
            => r = s

\* A request that presents a ticket within the lifetime the Portal was told
\* (expires_in) is refused only if the ticket was used or the Server restarted.
TicketHonoured ==
    [][\A s \in Sockets : LET t == sockets'[s].asked IN
         (sockets[s].pc = "idle" /\ sockets'[s].pc = "refused") =>
            \/ tickets[t].st = "unminted"
            \/ now' > tickets[t].expiry
            \/ restarts > 0
            \/ \E r \in Sockets : HasTicket(r) /\ sockets[r].asked = t]_vars

\* No ticket opens a Console after its lifetime.
NeverAfterExpiry ==
    [][\A s \in Sockets :
         (sockets[s].pc = "idle" /\ sockets'[s].pc = "granted")
            => now' <= tickets[sockets'[s].asked].expiry]_vars

\* Both directions of the promise expires_in, against two clock readings.
TicketLifetime == TicketHonoured /\ NeverAfterExpiry

\* The table implements one-time tickets.
Stage == [unminted |-> "unissued", stored |-> "open", gone |-> "closed"]
Status == [t \in Ids |-> Stage[tickets[t].st]]
Holders == [t \in Ids |-> {s \in Sockets : HasTicket(s) /\ sockets[s].asked = t}]

OneTime == INSTANCE OneTimeTickets WITH status <- Status, holders <- Holders

Refinement == OneTime!Spec

\* Inductive: a ticket that a socket has is out of the table, and no second
\* socket has it.
TicketInvariant ==
    /\ TypeOK
    /\ \A s \in Sockets : HasTicket(s) =>
         sockets[s].asked \in Ids /\ tickets[sockets[s].asked].st = "gone"
    /\ \A s \in Sockets : sockets[s].pc = "idle" => sockets[s].asked = NoId
    /\ OneSessionPerTicket
=============================================================================

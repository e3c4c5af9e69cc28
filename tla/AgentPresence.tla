---------------------------- MODULE AgentPresence ----------------------------
(***************************************************************************)
(* How LabKeeper's Server decides that a Host is online.                   *)
(*                                                                         *)
(* Three kinds of goroutine write the same inventory rows:                 *)
(*   - one handler per Agent WebSocket (internal/inventory/hub.go), which  *)
(*     upserts the row on connect, hello and heartbeat and clears its      *)
(*     presence when the socket ends;                                      *)
(*   - Portal requests (create, update, delete of a Host);                 *)
(*   - the probe loop (probe.go), which owns `online` for Hosts whose      *)
(*     Agent is away.                                                      *)
(* There is no transaction: an update is a read of the whole row, a change *)
(* in memory and a later write of ALL its columns (host.repository.go,     *)
(* Select("*").Updates).  Each read and each write is a step of its own    *)
(* here, and the row on its way back to the database is the field `held`   *)
(* of whoever read it.                                                     *)
(*                                                                         *)
(* A row keeps what the properties tell apart: which Agent owns it,        *)
(* agent_online, online, whether the operator gave it an address and       *)
(* whether its reported IPs hold a probeable one.                          *)
(***************************************************************************)
EXTENDS Naturals, FiniteSets

CONSTANTS
    Agents,      \* certificate fingerprints
    Conns,       \* WebSocket connections, each used at most once
    Hosts,       \* row ids (UUIDs), each used at most once
    Portals,     \* concurrent Portal requests
    NoAgent,     \* agent_fingerprint is NULL
    NoConn,      \* no entry in Hub.agents
    Nothing,     \* no row in flight
    Reports,     \* what Agents say of their IPs
    MaxCrashes,  \* bound on Server restarts
    MaxDbErrors  \* bound on failing database calls

ASSUME AgentsAssumption == NoAgent \notin Agents
ASSUME ConnsAssumption == NoConn \notin Conns
ASSUME BoundsAssumption == MaxCrashes \in Nat /\ MaxDbErrors \in Nat

VARIABLES
    server,    \* "down", the steps of Hub.start, or "up"
    hub,       \* Hub.agents: fingerprint -> current connection
    conns,     \* one record per connection: both ends of the socket
    rows,      \* the hosts table
    portal,    \* what each Portal update has read and not yet written
    sweep,     \* MarkAllAgentsOffline: rows listed and still to be rewritten
    targets,   \* probe loop: listed rows not probed yet in this tick
    crashes,   \* Server crashes so far
    dbErrors,  \* failed database calls so far
    straddled  \* history: an edit read a row before BootClear took its presence

vars == <<server, hub, conns, rows, portal, sweep, targets, crashes, dbErrors,
          straddled>>

-----------------------------------------------------------------------------
Row == [st: {"unused", "live", "deleted"}, agent: Agents \cup {NoAgent},
        agentOnline: BOOLEAN, online: BOOLEAN,
        address: BOOLEAN, ips: {"unusable", "usable"}]

Write == [id: Hosts, row: Row]

ASSUME NothingAssumption == Nothing \notin Write

\* What a hello or heartbeat says of the Agent's IPs: the list is absent
\* (`ips` is omitempty, nil keeps the stored list), or it has no probeable
\* address, or it has one.
ASSUME ReportsAssumption ==
    "absent" \in Reports /\ Reports \subseteq {"absent", "unusable", "usable"}

Phases == {"idle", "accepted", "upsertRead", "upsertCreate", "upsertWrite",
           "loop", "heartbeatRead", "heartbeatWrite", "offlineRead",
           "offlineWrite", "unregister", "done"}

\* Between registerAgent and the deferred unregisterAgent.
Registered == Phases \ {"idle", "accepted", "done"}

Conn == [agent: Agents, phase: Phases,
         open: BOOLEAN,                          \* the Agent's end is there
         inbox: {"empty", "hello", "heartbeat"}, \* sent, not yet read
         report: Reports,                        \* IPs of the message handled
         held: Write \cup {Nothing}]

\* hostHasProbeTarget: an operator address, else a probeable reported IP.
HasProbeTarget(row) == row.address \/ row.ips = "usable"

Live(h) == rows[h].st = "live"
OwnedBy(a) == {h \in Hosts : Live(h) /\ rows[h].agent = a}
Fresh == {h \in Hosts : rows[h].st = "unused"}

MergeIPs(row, report) ==
    IF report = "absent" THEN row.ips ELSE report

\* The row an upsert or a heartbeat writes back.
Seen(row, report) ==
    [row EXCEPT !.agentOnline = TRUE, !.online = TRUE,
                !.ips = MergeIPs(row, report)]

\* The row MarkAgentOffline writes back.
Away(row) ==
    [row EXCEPT !.agentOnline = FALSE,
                !.online = IF HasProbeTarget(row) THEN @ ELSE FALSE]

NewAgentRow(a, report) ==
    [st |-> "live", agent |-> a, agentOnline |-> TRUE, online |-> TRUE,
     address |-> FALSE,
     ips |-> IF report = "usable" THEN "usable" ELSE "unusable"]

\* Mutant of UpdateRow: Save, which inserts the row when it is missing.
SaveRow(w) == rows' = [rows EXCEPT ![w.id] = w.row]

\* HostRepository.Update: every column of the row read earlier; an UPDATE that
\* matches no row is not an error.
UpdateRow(w) ==
    rows' = IF Live(w.id) THEN [rows EXCEPT ![w.id] = w.row] ELSE rows

\* A database call that fails (locked, disk full); the callers log and go on.
DbError ==
    /\ dbErrors < MaxDbErrors
    /\ dbErrors' = dbErrors + 1

SetConn(c, conn) == conns' = [conns EXCEPT ![c] = conn]

Goto(c, phase) == SetConn(c, [conns[c] EXCEPT !.phase = phase])

\* The row is read and changed in memory; its write is the handler's next step.
Hold(c, phase, h, row) ==
    SetConn(c, [conns[c] EXCEPT !.phase = phase,
                                !.held = [id |-> h, row |-> row]])

\* The end of one message (or of the upsert on connect): back to ReadJSON.
BackToLoop(c) ==
    SetConn(c, [conns[c] EXCEPT !.phase = "loop", !.report = "absent",
                                !.held = Nothing])

-----------------------------------------------------------------------------
BlankRow == [st |-> "unused", agent |-> NoAgent, agentOnline |-> FALSE,
             online |-> FALSE, address |-> FALSE, ips |-> "unusable"]

IdleConn(a) == [agent |-> a, phase |-> "idle", open |-> FALSE,
                inbox |-> "empty", report |-> "absent", held |-> Nothing]

Init ==
    /\ server = "down"
    /\ hub = [a \in Agents |-> NoConn]
    /\ conns \in [Conns -> {IdleConn(a) : a \in Agents}]
    /\ rows = [h \in Hosts |-> BlankRow]
    /\ portal = [p \in Portals |-> Nothing]
    /\ sweep = {}
    /\ targets = {}
    /\ crashes = 0
    /\ dbErrors = 0
    /\ straddled = FALSE

-----------------------------------------------------------------------------
(* Server lifecycle *)

StartProcess ==
    /\ server = "down"
    /\ server' = "start"
    /\ UNCHANGED <<hub, conns, rows, portal, sweep, targets, crashes, dbErrors,
                   straddled>>

\* ClearAllAgentOnline: one UPDATE over the table.  An edit that has read a row
\* before will write its agent_online back.
BootClear ==
    /\ server = "start"
    /\ server' = "list"
    /\ rows' = [h \in Hosts |->
                  IF Live(h) THEN [rows[h] EXCEPT !.agentOnline = FALSE]
                             ELSE rows[h]]
    /\ straddled' = (straddled \/ \E p \in Portals :
                                     portal[p] # Nothing /\ portal[p].row.agentOnline)
    /\ UNCHANGED <<hub, conns, portal, sweep, targets, crashes, dbErrors>>

\* The rows MarkAllAgentsOffline will rewrite, already changed in memory.
BootList ==
    /\ server = "list"
    /\ server' = "sweep"
    /\ sweep' = {[id |-> h, row |-> [rows[h] EXCEPT !.online = FALSE]] :
                   h \in {g \in Hosts : Live(g) /\ rows[g].online
                                          /\ ~HasProbeTarget(rows[g])}}
    /\ UNCHANGED <<hub, conns, rows, portal, targets, crashes, dbErrors, straddled>>

BootSweep ==
    /\ server = "sweep"
    /\ \E w \in sweep :
         /\ UpdateRow(w)
         /\ sweep' = sweep \ {w}
    /\ UNCHANGED <<server, hub, conns, portal, targets, crashes, dbErrors,
                   straddled>>

\* The listener is open only now: no Agent is served during the sweep.
BootServe ==
    /\ server = "sweep" /\ sweep = {}
    /\ server' = "up"
    /\ UNCHANGED <<hub, conns, rows, portal, sweep, targets, crashes, dbErrors,
                   straddled>>

\* The process ends (crash, kill, or a failing start): memory and sockets are
\* gone, the table stays.
Crash ==
    /\ server # "down"
    /\ crashes < MaxCrashes
    /\ crashes' = crashes + 1
    /\ server' = "down"
    /\ hub' = [a \in Agents |-> NoConn]
    /\ conns' = [c \in Conns |->
                   IF conns[c].phase = "idle" THEN conns[c]
                   ELSE [IdleConn(conns[c].agent) EXCEPT !.phase = "done"]]
    /\ portal' = [p \in Portals |-> Nothing]
    /\ sweep' = {}
    /\ targets' = {}
    /\ UNCHANGED <<rows, dbErrors, straddled>>

-----------------------------------------------------------------------------
(* The Agent's end of the socket: cmd/agent/main.go keeps one connection at *)
(* a time and dials again when it has given the last one up.                *)

Dial(c) ==
    /\ server = "up"
    /\ conns[c].phase = "idle"
    /\ \A d \in Conns : conns[d].agent = conns[c].agent => ~conns[d].open
    /\ SetConn(c, [conns[c] EXCEPT !.phase = "accepted", !.open = TRUE,
                                   !.inbox = "hello"])
    /\ UNCHANGED <<server, hub, rows, portal, sweep, targets, crashes, dbErrors,
                   straddled>>

\* The ticker; the inbox holds one unread message at a time.
SendHeartbeat(c) ==
    /\ conns[c].open
    /\ conns[c].inbox = "empty"
    /\ SetConn(c, [conns[c] EXCEPT !.inbox = "heartbeat"])
    /\ UNCHANGED <<server, hub, rows, portal, sweep, targets, crashes, dbErrors,
                   straddled>>

\* The Agent exits or its network drops.  What it had sent may still arrive;
\* the Server learns of it only at its next read.
LinkDown(c) ==
    /\ conns[c].open
    /\ \E left \in {conns[c].inbox, "empty"} :
         SetConn(c, [conns[c] EXCEPT !.open = FALSE, !.inbox = left])
    /\ UNCHANGED <<server, hub, rows, portal, sweep, targets, crashes, dbErrors,
                   straddled>>

-----------------------------------------------------------------------------
(* The Server's handler of one socket *)

\* registerAgent: the newest connection of a fingerprint takes the slot.  The
\* previous one loses its shells only; its socket and handler stay.
Register(c) ==
    /\ conns[c].phase = "accepted"
    /\ hub' = [hub EXCEPT ![conns[c].agent] = c]
    /\ Goto(c, "upsertRead")
    /\ UNCHANGED <<server, rows, portal, sweep, targets, crashes, dbErrors,
                   straddled>>

\* UpsertFromAgent, first half: GetByFingerprint.
UpsertRead(c) ==
    /\ conns[c].phase = "upsertRead"
    /\ \/ /\ OwnedBy(conns[c].agent) = {}
          /\ Goto(c, "upsertCreate")
          /\ UNCHANGED dbErrors
       \/ /\ \E h \in OwnedBy(conns[c].agent) :
               Hold(c, "upsertWrite", h, Seen(rows[h], conns[c].report))
          /\ UNCHANGED dbErrors
       \/ DbError /\ BackToLoop(c)
    /\ UNCHANGED <<server, hub, rows, portal, sweep, targets, crashes, straddled>>

\* Mutant of UpsertCreate: no UNIQUE constraint on agent_fingerprint.
UpsertCreateTwice(c) ==
    /\ conns[c].phase = "upsertCreate"
    /\ BackToLoop(c)
    /\ \E h \in Fresh :
         rows' = [rows EXCEPT
                    ![h] = NewAgentRow(conns[c].agent, conns[c].report)]
    /\ UNCHANGED <<server, hub, portal, sweep, targets, crashes, dbErrors,
                   straddled>>

\* UpsertFromAgent on an unknown fingerprint: INSERT, which the UNIQUE
\* agent_fingerprint column refuses when another handler was first.
UpsertCreate(c) ==
    /\ conns[c].phase = "upsertCreate"
    /\ BackToLoop(c)
    /\ \/ /\ OwnedBy(conns[c].agent) = {}
          /\ \E h \in Fresh :
               rows' = [rows EXCEPT
                          ![h] = NewAgentRow(conns[c].agent, conns[c].report)]
          /\ UNCHANGED dbErrors
       \/ /\ OwnedBy(conns[c].agent) # {}
          /\ UNCHANGED <<rows, dbErrors>>
       \/ DbError /\ UNCHANGED rows
    /\ UNCHANGED <<server, hub, portal, sweep, targets, crashes, straddled>>

\* UpsertFromAgent on a known fingerprint, second half: the full-row UPDATE.
UpsertWrite(c) ==
    /\ conns[c].phase = "upsertWrite"
    /\ BackToLoop(c)
    /\ \/ UpdateRow(conns[c].held) /\ UNCHANGED dbErrors
       \/ DbError /\ UNCHANGED rows
    /\ UNCHANGED <<server, hub, portal, sweep, targets, crashes, straddled>>

\* ReadJSON returns a message.
Receive(c) ==
    /\ conns[c].phase = "loop"
    /\ conns[c].inbox # "empty"
    /\ \E report \in Reports :
         SetConn(c, [conns[c] EXCEPT
            !.phase = IF conns[c].inbox = "hello"
                      THEN "upsertRead" ELSE "heartbeatRead",
            !.inbox = "empty",
            !.report = report])
    /\ UNCHANGED <<server, hub, rows, portal, sweep, targets, crashes, dbErrors,
                   straddled>>

\* Mutant of HeartbeatRead: a heartbeat refreshes last_seen and IPs only.
HeartbeatKeepsPresence(c) ==
    /\ conns[c].phase = "heartbeatRead"
    /\ IF OwnedBy(conns[c].agent) = {}
       THEN Goto(c, "upsertRead")
       ELSE \E h \in OwnedBy(conns[c].agent) :
              Hold(c, "heartbeatWrite", h, rows[h])
    /\ UNCHANGED <<server, hub, rows, portal, sweep, targets, crashes, dbErrors,
                   straddled>>

\* Mutant of HeartbeatRead: a heartbeat for a row that is gone is dropped.
HeartbeatOfLiveRow(c) ==
    /\ conns[c].phase = "heartbeatRead"
    /\ IF OwnedBy(conns[c].agent) = {}
       THEN BackToLoop(c)
       ELSE \E h \in OwnedBy(conns[c].agent) :
              Hold(c, "heartbeatWrite", h, Seen(rows[h], conns[c].report))
    /\ UNCHANGED <<server, hub, rows, portal, sweep, targets, crashes, dbErrors,
                   straddled>>

\* Heartbeat, first half; a heartbeat for a row that is gone falls back to
\* UpsertFromAgent.
HeartbeatRead(c) ==
    /\ conns[c].phase = "heartbeatRead"
    /\ \/ /\ OwnedBy(conns[c].agent) = {}
          /\ Goto(c, "upsertRead")
          /\ UNCHANGED dbErrors
       \/ /\ \E h \in OwnedBy(conns[c].agent) :
               Hold(c, "heartbeatWrite", h, Seen(rows[h], conns[c].report))
          /\ UNCHANGED dbErrors
       \/ DbError /\ BackToLoop(c)
    /\ UNCHANGED <<server, hub, rows, portal, sweep, targets, crashes, straddled>>

HeartbeatWrite(c) ==
    /\ conns[c].phase = "heartbeatWrite"
    /\ BackToLoop(c)
    /\ \/ UpdateRow(conns[c].held) /\ UNCHANGED dbErrors
       \/ DbError /\ UNCHANGED rows
    /\ UNCHANGED <<server, hub, portal, sweep, targets, crashes, straddled>>

\* ReadJSON fails: the peer is gone and what it sent has been read.  The
\* deferred calls run in reverse order, MarkAgentOffline first.
ReadError(c) ==
    /\ conns[c].phase = "loop"
    /\ ~conns[c].open
    /\ conns[c].inbox = "empty"
    /\ Goto(c, "offlineRead")
    /\ UNCHANGED <<server, hub, rows, portal, sweep, targets, crashes, dbErrors,
                   straddled>>

\* MarkAgentOffline looks the row up by fingerprint, whoever serves it now.
OfflineRead(c) ==
    /\ conns[c].phase = "offlineRead"
    /\ \/ /\ OwnedBy(conns[c].agent) = {}
          /\ Goto(c, "unregister")
          /\ UNCHANGED dbErrors
       \/ /\ \E h \in OwnedBy(conns[c].agent) :
               Hold(c, "offlineWrite", h, Away(rows[h]))
          /\ UNCHANGED dbErrors
       \/ DbError /\ Goto(c, "unregister")
    /\ UNCHANGED <<server, hub, rows, portal, sweep, targets, crashes, straddled>>

OfflineWrite(c) ==
    /\ conns[c].phase = "offlineWrite"
    /\ SetConn(c, [conns[c] EXCEPT !.phase = "unregister", !.held = Nothing])
    /\ \/ UpdateRow(conns[c].held) /\ UNCHANGED dbErrors
       \/ DbError /\ UNCHANGED rows
    /\ UNCHANGED <<server, hub, portal, sweep, targets, crashes, straddled>>

\* Mutant of Unregister: the handler ends without giving its slot up.
UnregisterForgotten(c) ==
    /\ conns[c].phase = "unregister"
    /\ Goto(c, "done")
    /\ UNCHANGED <<server, hub, rows, portal, sweep, targets, crashes, dbErrors,
                   straddled>>

\* Mutant of Unregister: the slot is freed whoever holds it.
UnregisterAnyone(c) ==
    /\ conns[c].phase = "unregister"
    /\ hub' = [hub EXCEPT ![conns[c].agent] = NoConn]
    /\ Goto(c, "done")
    /\ UNCHANGED <<server, rows, portal, sweep, targets, crashes, dbErrors,
                   straddled>>

\* unregisterAgent: only the current connection gives the slot up.
Unregister(c) ==
    /\ conns[c].phase = "unregister"
    /\ hub' = IF hub[conns[c].agent] = c
              THEN [hub EXCEPT ![conns[c].agent] = NoConn] ELSE hub
    /\ Goto(c, "done")
    /\ UNCHANGED <<server, rows, portal, sweep, targets, crashes, dbErrors,
                   straddled>>

-----------------------------------------------------------------------------
(* Portal requests                                                          *)

\* The modules of the API are registered before the Hub's start hook is, and the
\* framework may serve them before that hook has ended.
ApiUp == server # "down"

PortalCreate ==
    /\ ApiUp
    /\ Portals # {}
    /\ \E h \in Fresh, address \in BOOLEAN :
         /\ Fresh # {h}  \* bound: leave an id for the Agent's own row
         /\ rows' = [rows EXCEPT
                       ![h] = [BlankRow EXCEPT !.st = "live",
                                               !.address = address]]
    /\ UNCHANGED <<server, hub, conns, portal, sweep, targets, crashes, dbErrors,
                   straddled>>

\* Service.Update, first half: GetByID and the request's fields, of which
\* only the address matters here (kept, set or cleared).
PortalUpdateRead(p) ==
    /\ ApiUp
    /\ portal[p] = Nothing
    /\ \E h \in Hosts, address \in BOOLEAN :
         /\ Live(h)
         /\ portal' = [portal EXCEPT
              ![p] = [id |-> h, row |-> [rows[h] EXCEPT !.address = address]]]
    /\ UNCHANGED <<server, hub, conns, rows, sweep, targets, crashes, dbErrors,
                   straddled>>

\* Service.Update, second half: every column of the row it read.
PortalUpdateWrite(p) ==
    /\ portal[p] # Nothing
    /\ portal' = [portal EXCEPT ![p] = Nothing]
    /\ UpdateRow(portal[p])
    /\ UNCHANGED <<server, hub, conns, sweep, targets, crashes, dbErrors, straddled>>

PortalDelete ==
    /\ ApiUp
    /\ Portals # {}
    /\ Fresh # {}  \* bound: the Agent can still be given a new row
    /\ \E h \in Hosts :
         /\ Live(h)
         /\ rows' = [rows EXCEPT ![h].st = "deleted"]
    /\ UNCHANGED <<server, hub, conns, portal, sweep, targets, crashes, dbErrors,
                   straddled>>

-----------------------------------------------------------------------------
(* The probe loop: one goroutine, started after the Hub *)

\* ListProbeTargets.  A tick that finds nothing changes nothing.
ProbeList ==
    /\ server = "up"
    /\ targets = {}
    /\ targets' = {h \in Hosts : /\ Live(h)
                                 /\ ~rows[h].agentOnline
                                 /\ HasProbeTarget(rows[h])}
    /\ UNCHANGED <<server, hub, conns, rows, portal, sweep, crashes, dbErrors,
                   straddled>>

\* Mutant of ProbeApply: the UPDATE lacks its agent_online = false condition.
ProbeApplyAlways ==
    /\ \E h \in targets, answered \in BOOLEAN :
         /\ targets' = targets \ {h}
         /\ rows' = IF Live(h) THEN [rows EXCEPT ![h].online = answered] ELSE rows
    /\ UNCHANGED <<server, hub, conns, portal, sweep, crashes, dbErrors, straddled>>

\* Up to two seconds after the list: one conditional UPDATE,
\* WHERE id = ? AND agent_online = false.
ProbeApply ==
    /\ \E h \in targets, answered \in BOOLEAN :
         /\ targets' = targets \ {h}
         /\ rows' = IF Live(h) /\ ~rows[h].agentOnline
                    THEN [rows EXCEPT ![h].online = answered] ELSE rows
    /\ UNCHANGED <<server, hub, conns, portal, sweep, crashes, dbErrors, straddled>>

-----------------------------------------------------------------------------
Boot == StartProcess \/ BootClear \/ BootList \/ BootSweep \/ BootServe

Handler(c) ==
    \/ Register(c)
    \/ UpsertRead(c) \/ UpsertCreate(c) \/ UpsertWrite(c)
    \/ Receive(c)
    \/ HeartbeatRead(c) \/ HeartbeatWrite(c)
    \/ ReadError(c)
    \/ OfflineRead(c) \/ OfflineWrite(c) \/ Unregister(c)

Agent(c) == Dial(c) \/ SendHeartbeat(c) \/ LinkDown(c)

Portal ==
    \/ PortalCreate \/ PortalDelete
    \/ \E p \in Portals : PortalUpdateRead(p) \/ PortalUpdateWrite(p)

Probe == ProbeList \/ ProbeApply

Next ==
    \/ Boot \/ Crash
    \/ \E c \in Conns : Handler(c) \/ Agent(c)
    \/ Portal
    \/ Probe

Spec == Init /\ [][Next]_vars

\* The Go scheduler runs every goroutine that can run; a dead peer is noticed
\* at last (TCP keepalive of net.Listen); the Agent's ticker keeps firing.
\* Nothing makes a link drop, an operator act or the process crash.
Fairness ==
    /\ WF_vars(Boot)
    /\ \A c \in Conns : WF_vars(Handler(c)) /\ WF_vars(SendHeartbeat(c))
    /\ \A p \in Portals : WF_vars(PortalUpdateWrite(p))

FairSpec == Spec /\ Fairness

-----------------------------------------------------------------------------
(* Properties *)

\* Every variable stays in its domain.
TypeOK ==
    /\ server \in {"down", "start", "list", "sweep", "up"}
    /\ hub \in [Agents -> Conns \cup {NoConn}]
    /\ conns \in [Conns -> Conn]
    /\ rows \in [Hosts -> Row]
    /\ portal \in [Portals -> Write \cup {Nothing}]
    /\ sweep \in SUBSET Write
    /\ targets \in SUBSET Hosts
    /\ crashes \in 0..MaxCrashes
    /\ dbErrors \in 0..MaxDbErrors
    /\ straddled \in BOOLEAN

Consistent(row) == row.agentOnline => row.online

\* A Host whose Agent is shown connected is shown online.
AgentOnlineImpliesOnline ==
    \A h \in Hosts : Live(h) => Consistent(rows[h])

\* No interleaving of handlers, edits, probes and restarts, each writing whole rows
\* it read earlier, tears the two columns apart, but one: an edit that carries the
\* agent_online it read over BootClear, and that the sweep then lists.
OnlyStraddlingEditsTear == straddled \/ AgentOnlineImpliesOnline

\* The hub's slot of a fingerprint is a connection of that fingerprint whose
\* handler is still there to answer a Console: the exit path never leaves a
\* dead entry behind.
HubEntryServed ==
    \A a \in Agents : hub[a] # NoConn =>
        conns[hub[a]].agent = a /\ conns[hub[a]].phase \in Registered

\* However many sockets of one Agent race on their first upsert, one inventory
\* row carries its fingerprint.
OneRowPerAgent ==
    \A a \in Agents : Cardinality(OwnedBy(a)) <= 1

\* A slot is lost only to a newer connection, to the exit of the connection
\* that holds it, or to the end of the process: the late exit of a replaced
\* connection does not take the live one off the hub.
SlotLostOnlyToNewer ==
    [][\A a \in Agents : LET c == hub[a] IN
         (c # NoConn /\ hub'[a] # c) =>
            \/ server' = "down"
            \/ conns[c].phase = "unregister"
            \/ hub'[a] # NoConn /\ conns[hub'[a]].phase = "accepted"]_vars

\* A deleted Host stays deleted although handlers, the sweep and Portal
\* updates may still write the row they read before.
DeletedStaysDeleted ==
    [][\A h \in Hosts : rows[h].st = "deleted" => rows'[h].st = "deleted"]_vars

\* While an Agent's link stays up the Portal shows it connected again and again,
\* whatever a late disconnect, an edit or a failing call did to its row, and when
\* its Host was deleted under it.
PresenceComesBack ==
    \A c \in Conns :
        <>[](conns[c].open) =>
            []<>(\E h \in OwnedBy(conns[c].agent) : rows[h].agentOnline)

\* The handler of a dropped link ends, and with it its claim on the hub.
DroppedLinkIsReleased ==
    \A c \in Conns :
        (conns[c].phase # "idle" /\ ~conns[c].open) ~>
            (conns[c].phase = "done" /\ \A a \in Agents : hub[a] # c)

Served(a) == \E c \in Conns : conns[c].agent = a /\ conns[c].phase \notin {"idle", "done"}

\* With no socket of an Agent left and no request in flight, its row does not
\* claim presence (README: "On disconnect or Server restart, agent_online
\* clears").
NoPresenceWithoutSocket ==
    \A a \in Agents :
        (server = "up" /\ ~Served(a) /\ \A p \in Portals : portal[p] = Nothing)
            => \A h \in OwnedBy(a) : ~rows[h].agentOnline

\* An Agent whose only running handler sits in its read loop on an open
\* link, with nothing left to process and no request in flight, is shown connected
\* (README: "agent_online tracks WebSocket presence").
PresenceTracksSocket ==
    \A c \in Conns :
        (/\ conns[c].phase = "loop" /\ conns[c].open
         /\ conns[c].inbox = "empty"
         /\ \A d \in Conns \ {c} : conns[d].phase \in {"idle", "done"}
         /\ \A p \in Portals : portal[p] = Nothing)
            => \A h \in OwnedBy(conns[c].agent) : rows[h].agentOnline

\* A Host shown online has somebody who would notice it going away: its
\* Agent's socket or the probe loop.
OnlineHasObserver ==
    \A h \in Hosts :
        (server = "up" /\ Live(h) /\ rows[h].online)
            => rows[h].agentOnline \/ HasProbeTarget(rows[h])

-----------------------------------------------------------------------------
(* Inductive invariants (proved in AgentPresenceProofs) *)

WritePhases == {"upsertWrite", "heartbeatWrite", "offlineWrite"}

\* Every row that somebody has read and will write back.
InFlight ==
    ({conns[c].held : c \in Conns} \cup {portal[p] : p \in Portals} \cup sweep)
        \ {Nothing}

\* A pending write cannot move a row to another Agent nor bring a row into
\* being: it still carries the owner its row has now.
Faithful(w) ==
    /\ w.row.st = "live"
    /\ rows[w.id].st # "unused"
    /\ w.row.agent = rows[w.id].agent

\* What every writer preserves, whenever the API starts: in-flight rows are
\* faithful and no two live rows carry one fingerprint.
TableInvariant ==
    /\ TypeOK
    /\ \A c \in Conns : conns[c].phase \in WritePhases => conns[c].held # Nothing
    /\ \A w \in InFlight : Faithful(w)
    /\ \A g, h \in Hosts :
         (Live(g) /\ Live(h) /\ rows[g].agent = rows[h].agent
            /\ rows[g].agent # NoAgent) => g = h

\* What keeps agent_online and online together: it holds of the rows in flight as
\* well as of the table; while the Server starts no handler is at work, and from
\* BootClear on no row and no write under way claims presence, unless an edit
\* straddled it.
PresenceInvariant ==
    /\ server # "up" => \A c \in Conns : conns[c].phase \in {"idle", "done"}
    /\ server # "sweep" => sweep = {}
    /\ ~straddled =>
         /\ \A h \in Hosts : Consistent(rows[h])
         /\ \A w \in InFlight : Consistent(w.row)
         /\ server \in {"list", "sweep"} =>
              /\ \A h \in Hosts : Live(h) => ~rows[h].agentOnline
              /\ \A w \in sweep : ~w.row.agentOnline
              /\ \A p \in Portals : portal[p] # Nothing => ~portal[p].row.agentOnline
=============================================================================

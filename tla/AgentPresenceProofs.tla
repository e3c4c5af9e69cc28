------------------------- MODULE AgentPresenceProofs -------------------------
(***************************************************************************)
(* What AgentPresence guarantees for any number of Agents, sockets, rows   *)
(* and Portal requests, any number of crashes and of failing database      *)
(* calls.                                                                  *)
(*                                                                         *)
(* TableInvariant is inductive; on top of it PresenceInvariant is, which   *)
(* speaks of the two columns as long as no edit has straddled BootClear.   *)
(***************************************************************************)
EXTENDS AgentPresence, FiniteSetTheorems, TLAPS

-----------------------------------------------------------------------------
(* Type correctness *)

\* The rows the handlers compute from a stored row are rows.
LEMMA RowShapes ==
    ASSUME NEW row \in Row, NEW report \in Reports, NEW a \in Agents
    PROVE  /\ Seen(row, report) \in Row
           /\ Away(row) \in Row
           /\ NewAgentRow(a, report) \in Row
           /\ BlankRow \in Row
  BY ReportsAssumption
     DEF Seen, Away, NewAgentRow, BlankRow, MergeIPs, HasProbeTarget, Row

\* A full-row UPDATE keeps the table a table.
LEMMA UpdateRowType ==
    ASSUME rows \in [Hosts -> Row], NEW w \in Write, UpdateRow(w)
    PROVE  rows' \in [Hosts -> Row]
  BY DEF UpdateRow, Write, Live

\* The ways a handler's record changes while it works on a row.
LEMMA ConnShapes ==
    ASSUME NEW conn \in Conn, NEW phase \in Phases, NEW w \in Write,
           NEW a \in Agents
    PROVE  /\ [conn EXCEPT !.phase = phase] \in Conn
           /\ [conn EXCEPT !.phase = phase, !.held = w] \in Conn
           /\ [conn EXCEPT !.phase = phase, !.held = Nothing] \in Conn
           /\ [conn EXCEPT !.phase = "loop", !.report = "absent",
                           !.held = Nothing] \in Conn
           /\ IdleConn(a) \in Conn
           /\ [IdleConn(a) EXCEPT !.phase = "done"] \in Conn
<1>1. "absent" \in Reports /\ Nothing \in Write \cup {Nothing}
      /\ w \in Write \cup {Nothing} /\ {"loop", "done", "idle"} \subseteq Phases
  BY ReportsAssumption DEF Phases
<1> QED
  BY <1>1 DEF Conn, IdleConn

\* The initial state is of the types.
LEMMA InitType == Init => TypeOK
<1> SUFFICES ASSUME Init PROVE TypeOK
  OBVIOUS
<1>1. conns \in [Conns -> Conn]
  <2>1. \A a \in Agents : IdleConn(a) \in Conn
    BY ReportsAssumption DEF IdleConn, Conn, Phases
  <2> QED
    BY <2>1 DEF Init
<1>2. rows \in [Hosts -> Row]
  BY DEF Init, BlankRow, Row
<1>3. crashes \in 0..MaxCrashes /\ dbErrors \in 0..MaxDbErrors
  BY BoundsAssumption DEF Init
<1>4. /\ server \in {"down", "start", "list", "sweep", "up"}
      /\ hub \in [Agents -> Conns \cup {NoConn}]
      /\ portal \in [Portals -> Write \cup {Nothing}]
      /\ sweep \in SUBSET Write
      /\ targets \in SUBSET Hosts
      /\ straddled \in BOOLEAN
  BY DEF Init
<1> QED
  BY <1>1, <1>2, <1>3, <1>4 DEF TypeOK

\* A handler about to write holds a row: together with TypeOK this makes
\* every step of a handler well typed.
Holding == \A c \in Conns : conns[c].phase \in WritePhases => conns[c].held # Nothing

\* A step of a handler leaves the rest of the Server alone, changes one
\* connection record, and keeps the domains.
LEMMA HandlerType ==
    ASSUME TypeOK, Holding, NEW c \in Conns, Handler(c)
    PROVE  TypeOK' /\ Holding'
<1>1. /\ conns \in [Conns -> Conn] /\ conns[c] \in Conn
      /\ rows \in [Hosts -> Row]
      /\ dbErrors \in 0..MaxDbErrors
      /\ hub \in [Agents -> Conns \cup {NoConn}]
  BY DEF TypeOK
<1>2. /\ conns[c].agent \in Agents /\ conns[c].report \in Reports
      /\ conns[c].held \in Write \cup {Nothing}
  BY <1>1 DEF Conn
<1> DEFINE Goal ==
      /\ \E conn \in Conn : /\ SetConn(c, conn)
                            /\ conn.phase \in WritePhases => conn.held # Nothing
      /\ rows' \in [Hosts -> Row]
      /\ dbErrors' \in 0..MaxDbErrors
      /\ hub' \in [Agents -> Conns \cup {NoConn}]
      /\ UNCHANGED <<server, portal, sweep, targets, crashes, straddled>>
<1>3. ASSUME Goal PROVE TypeOK' /\ Holding'
  <2>1. PICK conn \in Conn : /\ SetConn(c, conn)
                             /\ conn.phase \in WritePhases => conn.held # Nothing
    BY <1>3
  <2>2. conns' \in [Conns -> Conn]
    BY <1>1, <2>1 DEF SetConn
  <2>3. \A d \in Conns : conns'[d] = IF d = c THEN conn ELSE conns[d]
    BY <1>1, <2>1 DEF SetConn
  <2>4. Holding'
    BY <2>1, <2>3 DEF Holding
  <2> QED
    BY <1>3, <2>2, <2>4 DEF TypeOK
<1> SUFFICES Goal
  BY <1>3
<1>4. DbError => dbErrors' \in 0..MaxDbErrors
  BY <1>1, BoundsAssumption DEF DbError
<1> DEFINE Typed == \E conn \in Conn :
                 /\ SetConn(c, conn)
                 /\ conn.phase \in WritePhases => conn.held # Nothing
<1>5. ASSUME NEW phase \in Phases \ WritePhases, Goto(c, phase)
      PROVE  Typed
  <2>1. [conns[c] EXCEPT !.phase = phase] \in Conn
    BY <1>1 DEF Conn
  <2>2. [conns[c] EXCEPT !.phase = phase].phase = phase
    BY <1>1 DEF Conn
  <2> QED
    BY <1>5, <2>1, <2>2 DEF Goto
<1>6. ASSUME BackToLoop(c) PROVE Typed
  <2> DEFINE conn == [conns[c] EXCEPT !.phase = "loop", !.report = "absent",
                                      !.held = Nothing]
  <2>1. conn \in Conn
    BY <1>1, ReportsAssumption DEF Conn, Phases
  <2>2. conn.phase = "loop"
    BY <1>1 DEF Conn
  <2> QED
    BY <1>6, <2>1, <2>2 DEF BackToLoop, WritePhases
<1>7. ASSUME NEW phase \in WritePhases, NEW h \in Hosts, NEW row \in Row,
             Hold(c, phase, h, row)
      PROVE  Typed
  <2> DEFINE w == [id |-> h, row |-> row]
  <2> DEFINE conn == [conns[c] EXCEPT !.phase = phase, !.held = w]
  <2>1. w \in Write /\ w # Nothing
    BY NothingAssumption DEF Write
  <2>2. conn \in Conn
    BY <1>1, <2>1 DEF Conn, Phases, WritePhases
  <2>3. conn.held = w
    BY <1>1 DEF Conn
  <2> QED
    BY <1>7, <2>1, <2>2, <2>3 DEF Hold
<1>8. ASSUME NEW h \in OwnedBy(conns[c].agent)
      PROVE  h \in Hosts /\ Seen(rows[h], conns[c].report) \in Row
                         /\ Away(rows[h]) \in Row
  <2>1. h \in Hosts /\ rows[h] \in Row
    BY <1>1, <1>8 DEF OwnedBy
  <2> QED
    BY <1>2, <2>1, RowShapes
<1>9. conns[c].phase \in WritePhases /\ UpdateRow(conns[c].held)
        => rows' \in [Hosts -> Row]
  BY <1>1, <1>2, UpdateRowType DEF Holding
<1>10. CASE Register(c)
  <2>1. Typed
    BY <1>10, <1>5 DEF Register, Phases, WritePhases
  <2> QED
    BY <1>1, <1>2, <1>10, <2>1 DEF Register
<1>11. CASE UpsertRead(c)
  <2>1. Typed
    BY <1>11, <1>5, <1>6, <1>7, <1>8 DEF UpsertRead, Phases, WritePhases
  <2> QED
    BY <1>1, <1>4, <1>11, <2>1 DEF UpsertRead
<1>12. CASE UpsertCreate(c)
  <2>1. Typed
    BY <1>12, <1>6 DEF UpsertCreate
  <2>2. \A h \in Hosts : NewAgentRow(conns[c].agent, conns[c].report) \in Row
    BY <1>1, <1>2, RowShapes
  <2>3. rows' \in [Hosts -> Row]
    BY <1>1, <1>12, <2>2 DEF UpsertCreate, Fresh
  <2> QED
    BY <1>1, <1>4, <1>12, <2>1, <2>3 DEF UpsertCreate
<1>13. CASE UpsertWrite(c) \/ HeartbeatWrite(c)
  <2>1. Typed
    BY <1>13, <1>6 DEF UpsertWrite, HeartbeatWrite
  <2>2. rows' \in [Hosts -> Row]
    BY <1>1, <1>9, <1>13 DEF UpsertWrite, HeartbeatWrite, WritePhases
  <2> QED
    BY <1>1, <1>4, <1>13, <2>1, <2>2 DEF UpsertWrite, HeartbeatWrite
<1>14. CASE Receive(c)
  <2>1. ASSUME NEW report \in Reports, NEW phase \in {"upsertRead", "heartbeatRead"}
        PROVE  LET conn == [conns[c] EXCEPT !.phase = phase, !.inbox = "empty",
                                            !.report = report]
               IN  conn \in Conn /\ conn.phase \notin WritePhases
    BY <1>1 DEF Conn, Phases, WritePhases
  <2>2. Typed
    BY <1>14, <2>1 DEF Receive
  <2> QED
    BY <1>1, <1>14, <2>2 DEF Receive
<1>15. CASE HeartbeatRead(c)
  <2>1. Typed
    BY <1>15, <1>5, <1>6, <1>7, <1>8 DEF HeartbeatRead, Phases, WritePhases
  <2> QED
    BY <1>1, <1>4, <1>15, <2>1 DEF HeartbeatRead
<1>16. CASE ReadError(c)
  <2>1. Typed
    BY <1>16, <1>5 DEF ReadError, Phases, WritePhases
  <2> QED
    BY <1>1, <1>16, <2>1 DEF ReadError
<1>17. CASE OfflineRead(c)
  <2>1. Typed
    BY <1>17, <1>5, <1>7, <1>8 DEF OfflineRead, Phases, WritePhases
  <2> QED
    BY <1>1, <1>4, <1>17, <2>1 DEF OfflineRead
<1>18. CASE OfflineWrite(c)
  <2> DEFINE conn == [conns[c] EXCEPT !.phase = "unregister", !.held = Nothing]
  <2>1. conn \in Conn /\ conn.phase \notin WritePhases
    BY <1>1 DEF Conn, Phases, WritePhases
  <2>2. Typed
    BY <1>18, <2>1 DEF OfflineWrite
  <2>3. rows' \in [Hosts -> Row]
    BY <1>1, <1>9, <1>18 DEF OfflineWrite, WritePhases
  <2> QED
    BY <1>1, <1>4, <1>18, <2>2, <2>3 DEF OfflineWrite
<1>19. CASE Unregister(c)
  <2>1. Typed
    BY <1>19, <1>5 DEF Unregister, Phases, WritePhases
  <2> QED
    BY <1>1, <1>2, <1>19, <2>1 DEF Unregister
<1> QED
  BY <1>10, <1>11, <1>12, <1>13, <1>14, <1>15, <1>16, <1>17, <1>18, <1>19
  DEF Handler

\* The Agent's steps keep the types.
LEMMA AgentType ==
    ASSUME TypeOK, Holding, NEW c \in Conns, Agent(c)
    PROVE  TypeOK' /\ Holding'
<1>1. conns \in [Conns -> Conn] /\ conns[c] \in Conn
  BY DEF TypeOK
<1>2. ASSUME NEW conn \in Conn, SetConn(c, conn),
             conn.phase \in WritePhases =>
                conn.phase = conns[c].phase /\ conn.held = conns[c].held
      PROVE  conns' \in [Conns -> Conn] /\ Holding'
  <2>1. \A d \in Conns : conns'[d] = IF d = c THEN conn ELSE conns[d]
    BY <1>1, <1>2 DEF SetConn
  <2> QED
    BY <1>1, <1>2, <2>1 DEF Holding, SetConn
<1>3. UNCHANGED <<server, hub, rows, portal, sweep, targets, crashes, dbErrors,
                  straddled>>
  BY DEF Agent, Dial, SendHeartbeat, LinkDown
<1>4. CASE Dial(c)
  <2> DEFINE conn == [conns[c] EXCEPT !.phase = "accepted", !.open = TRUE,
                                      !.inbox = "hello"]
  <2>1. conn \in Conn /\ conn.phase \notin WritePhases
    BY <1>1 DEF Conn, Phases, WritePhases
  <2> QED
    BY <1>2, <1>3, <1>4, <2>1 DEF Dial, TypeOK
<1>5. CASE SendHeartbeat(c)
  <2> DEFINE conn == [conns[c] EXCEPT !.inbox = "heartbeat"]
  <2>1. conn \in Conn /\ conn.phase = conns[c].phase /\ conn.held = conns[c].held
    BY <1>1 DEF Conn
  <2> QED
    BY <1>2, <1>3, <1>5, <2>1 DEF SendHeartbeat, TypeOK
<1>6. CASE LinkDown(c)
  <2>1. PICK left \in {conns[c].inbox, "empty"} :
           SetConn(c, [conns[c] EXCEPT !.open = FALSE, !.inbox = left])
    BY <1>6 DEF LinkDown
  <2> DEFINE conn == [conns[c] EXCEPT !.open = FALSE, !.inbox = left]
  <2>2. conn \in Conn /\ conn.phase = conns[c].phase /\ conn.held = conns[c].held
    BY <1>1 DEF Conn
  <2> QED
    BY <1>2, <1>3, <2>1, <2>2 DEF TypeOK
<1> QED
  BY <1>4, <1>5, <1>6 DEF Agent

\* So do the steps of a Server that starts.
LEMMA BootType ==
    ASSUME TypeOK, Holding, Boot
    PROVE  TypeOK' /\ Holding'
<1>1. rows \in [Hosts -> Row] /\ sweep \in SUBSET Write
  BY DEF TypeOK
<1>2. Holding'
  BY DEF Holding, Boot, StartProcess, BootClear, BootList, BootSweep, BootServe
<1>3. CASE StartProcess \/ BootServe
  BY <1>2, <1>3 DEF StartProcess, BootServe, TypeOK
<1>4. CASE BootClear
  <2>1. \A h \in Hosts : [rows[h] EXCEPT !.agentOnline = FALSE] \in Row
    BY <1>1 DEF Row
  <2>2. rows' \in [Hosts -> Row]
    BY <1>1, <1>4, <2>1 DEF BootClear
  <2> QED
    BY <1>2, <1>4, <2>2 DEF BootClear, TypeOK
<1>5. CASE BootList
  <2>1. \A h \in Hosts : [rows[h] EXCEPT !.online = FALSE] \in Row
    BY <1>1 DEF Row
  <2>2. sweep' \in SUBSET Write
    BY <1>5, <2>1 DEF BootList, Write
  <2> QED
    BY <1>2, <1>5, <2>2 DEF BootList, TypeOK
<1>6. CASE BootSweep
  <2>1. rows' \in [Hosts -> Row] /\ sweep' \in SUBSET Write
    BY <1>1, <1>6, UpdateRowType DEF BootSweep
  <2> QED
    BY <1>2, <1>6, <2>1 DEF BootSweep, TypeOK
<1> QED
  BY <1>3, <1>4, <1>5, <1>6 DEF Boot

\* So does the end of the process.
LEMMA CrashType ==
    ASSUME TypeOK, Holding, Crash
    PROVE  TypeOK' /\ Holding'
<1>1. conns \in [Conns -> Conn] /\ crashes \in 0..MaxCrashes
  BY DEF TypeOK
<1>2. \A c \in Conns :
        /\ conns[c] \in Conn
        /\ [IdleConn(conns[c].agent) EXCEPT !.phase = "done"] \in Conn
        /\ [IdleConn(conns[c].agent) EXCEPT !.phase = "done"].phase = "done"
  <2> SUFFICES ASSUME NEW c \in Conns
               PROVE  /\ conns[c] \in Conn
                      /\ [IdleConn(conns[c].agent) EXCEPT !.phase = "done"] \in Conn
                      /\ [IdleConn(conns[c].agent) EXCEPT !.phase = "done"].phase = "done"
    OBVIOUS
  <2>1. conns[c] \in Conn /\ conns[c].agent \in Agents
    BY <1>1 DEF Conn
  <2> QED
    BY <2>1, ReportsAssumption DEF IdleConn, Conn, Phases
<1>3. conns' \in [Conns -> Conn]
  BY <1>1, <1>2 DEF Crash
<1>4. \A c \in Conns : conns'[c].phase \notin WritePhases
  BY <1>2 DEF Crash, WritePhases
<1>5. crashes' \in 0..MaxCrashes
  BY <1>1, BoundsAssumption DEF Crash
<1> QED
  BY <1>3, <1>4, <1>5 DEF Crash, TypeOK, Holding

\* So do the Portal and the probe loop.
LEMMA PortalProbeType ==
    ASSUME TypeOK, Holding, Portal \/ Probe
    PROVE  TypeOK' /\ Holding'
<1>1. rows \in [Hosts -> Row] /\ portal \in [Portals -> Write \cup {Nothing}]
      /\ targets \in SUBSET Hosts
  BY DEF TypeOK
<1>2. UNCHANGED <<server, hub, conns, sweep, crashes, dbErrors, straddled>>
  BY DEF Portal, Probe, PortalCreate, PortalDelete, PortalUpdateRead,
         PortalUpdateWrite, ProbeList, ProbeApply
<1>3. Holding'
  BY <1>2 DEF Holding
<1>4. SUFFICES /\ rows' \in [Hosts -> Row]
               /\ portal' \in [Portals -> Write \cup {Nothing}]
               /\ targets' \in SUBSET Hosts
  BY <1>2, <1>3 DEF TypeOK
<1>5. CASE PortalCreate
  <2>1. \A address \in BOOLEAN :
           [BlankRow EXCEPT !.st = "live", !.address = address] \in Row
    BY DEF BlankRow, Row
  <2> QED
    BY <1>1, <1>5, <2>1 DEF PortalCreate, Fresh
<1>6. CASE PortalDelete
  <2>1. \A h \in Hosts : [rows[h] EXCEPT !.st = "deleted"] \in Row
    BY <1>1 DEF Row
  <2> QED
    BY <1>1, <1>6, <2>1 DEF PortalDelete
<1>7. ASSUME NEW p \in Portals, PortalUpdateRead(p)
      PROVE  portal' \in [Portals -> Write \cup {Nothing}]
  <2>1. \A h \in Hosts, address \in BOOLEAN :
           [id |-> h, row |-> [rows[h] EXCEPT !.address = address]] \in Write
    BY <1>1 DEF Row, Write
  <2> QED
    BY <1>1, <1>7, <2>1 DEF PortalUpdateRead
<1>8. ASSUME NEW p \in Portals, PortalUpdateWrite(p)
      PROVE  /\ portal' \in [Portals -> Write \cup {Nothing}]
             /\ rows' \in [Hosts -> Row]
  BY <1>1, <1>8, UpdateRowType DEF PortalUpdateWrite
<1>9. CASE ProbeList
  BY <1>1, <1>9 DEF ProbeList
<1>10. CASE ProbeApply
  <2>1. \A h \in Hosts, answered \in BOOLEAN :
           [rows[h] EXCEPT !.online = answered] \in Row
    BY <1>1 DEF Row
  <2> QED
    BY <1>1, <1>10, <2>1 DEF ProbeApply
<1>11. CASE \E p \in Portals : PortalUpdateRead(p)
  BY <1>1, <1>7, <1>11 DEF PortalUpdateRead
<1>12. CASE \E p \in Portals : PortalUpdateWrite(p)
  BY <1>1, <1>8, <1>12 DEF PortalUpdateWrite
<1> QED
  BY <1>5, <1>6, <1>9, <1>10, <1>11, <1>12 DEF Portal, Probe

\* So does every step.
LEMMA TypeStep ==
    ASSUME TypeOK, Holding, [Next]_vars
    PROVE  TypeOK' /\ Holding'
<1>1. CASE Next
  BY <1>1, BootType, CrashType, HandlerType, AgentType, PortalProbeType DEF Next
<1>2. CASE UNCHANGED vars
  BY <1>2 DEF vars, TypeOK, Holding
<1> QED
  BY <1>1, <1>2

\* Every variable keeps its domain, with any number of Agents, sockets, rows,
\* Portal requests, crashes and failed database calls.
THEOREM TypeCorrect == Spec => []TypeOK
<1>1. Init => TypeOK /\ Holding
  <2> SUFFICES ASSUME Init PROVE Holding
    BY InitType
  <2>1. \A c \in Conns : conns[c].phase = "idle"
    BY DEF Init, IdleConn
  <2> QED
    BY <2>1 DEF Holding, WritePhases
<1>2. TypeOK /\ Holding /\ [Next]_vars => TypeOK' /\ Holding'
  BY TypeStep
<1> QED
  BY <1>1, <1>2, PTL DEF Spec

-----------------------------------------------------------------------------
(* The hub *)

\* What one step does to a connection record: the fingerprint never changes,
\* and a registered handler stays registered unless its exit or the end of the
\* process removes it.
LEMMA ConnStep ==
    ASSUME TypeOK, Next, NEW c \in Conns
    PROVE  /\ conns'[c].agent = conns[c].agent
           /\ conns[c].phase \in Registered =>
                \/ conns'[c].phase \in Registered
                \/ Unregister(c)
                \/ Crash
<1>1. conns \in [Conns -> Conn] /\ conns[c] \in Conn
  BY DEF TypeOK
<1>2. CASE Boot \/ Portal \/ Probe
  BY <1>2 DEF Boot, StartProcess, BootClear, BootList, BootSweep, BootServe,
     Portal, PortalCreate, PortalDelete, PortalUpdateRead, PortalUpdateWrite,
     Probe, ProbeList, ProbeApply
<1>3. CASE Crash
  BY <1>1, <1>3 DEF Crash, IdleConn
<1>4. ASSUME NEW d \in Conns, Agent(d)
      PROVE  /\ conns'[c].agent = conns[c].agent
             /\ conns[c].phase \in Registered => conns'[c].phase \in Registered
  <2>1. CASE Dial(d)
    BY <1>1, <2>1 DEF Dial, SetConn, Conn, Registered, TypeOK
  <2>2. CASE SendHeartbeat(d)
    BY <1>1, <2>2 DEF SendHeartbeat, SetConn, Conn, TypeOK
  <2>3. CASE LinkDown(d)
    BY <1>1, <2>3 DEF LinkDown, SetConn, Conn, TypeOK
  <2> QED
    BY <1>4, <2>1, <2>2, <2>3 DEF Agent
<1>5. ASSUME NEW d \in Conns, Handler(d)
      PROVE  /\ conns'[c].agent = conns[c].agent
             /\ conns[c].phase \in Registered =>
                  conns'[c].phase \in Registered \/ Unregister(c)
  <2>1. \A e \in Conns : conns[e] \in Conn
    BY DEF TypeOK
  <2>2. CASE d # c
    BY <1>1, <1>5, <2>2 DEF TypeOK, Handler, Register, UpsertRead,
       UpsertCreate, UpsertWrite, Receive, HeartbeatRead, HeartbeatWrite,
       ReadError, OfflineRead, OfflineWrite, Unregister, Goto, Hold,
       BackToLoop, SetConn
  <2>3. CASE d = c /\ ~Unregister(c)
    <3>1. \A phase \in Phases : Goto(c, phase) =>
             conns'[c].agent = conns[c].agent /\ conns'[c].phase = phase
      BY <1>1 DEF Goto, SetConn, Conn, TypeOK
    <3>2. BackToLoop(c) =>
             conns'[c].agent = conns[c].agent /\ conns'[c].phase = "loop"
      BY <1>1 DEF BackToLoop, SetConn, Conn, TypeOK
    <3>3. \A h, row : \A phase \in Phases : Hold(c, phase, h, row) =>
             conns'[c].agent = conns[c].agent /\ conns'[c].phase = phase
      BY <1>1 DEF Hold, SetConn, Conn, TypeOK
    <3>4. Receive(c) =>
             conns'[c].agent = conns[c].agent /\ conns'[c].phase \in Registered
      BY <1>1 DEF Receive, SetConn, Conn, TypeOK, Registered, Phases
    <3>5. OfflineWrite(c) =>
             conns'[c].agent = conns[c].agent /\ conns'[c].phase = "unregister"
      BY <1>1 DEF OfflineWrite, SetConn, Conn, TypeOK
    <3> QED
      BY <1>5, <2>3, <3>1, <3>2, <3>3, <3>4, <3>5
      DEF Handler, Register, UpsertRead, UpsertCreate, UpsertWrite,
          HeartbeatRead, HeartbeatWrite, ReadError, OfflineRead,
          Phases, Registered
  <2>4. CASE d = c /\ Unregister(c)
    BY <1>1, <2>4 DEF Unregister, Goto, SetConn, Conn, TypeOK
  <2> QED
    BY <2>2, <2>3, <2>4
<1> QED
  BY <1>2, <1>3, <1>4, <1>5 DEF Next

\* What one step does to the hub: a slot changes only when a connection that
\* has just been accepted takes it, when the exit of its holder frees it, or
\* when the process ends.
LEMMA HubStep ==
    ASSUME TypeOK, Next, NEW a \in Agents
    PROVE  \/ hub'[a] = hub[a]
           \/ \E c \in Conns : /\ Register(c)
                               /\ conns[c].agent = a /\ hub'[a] = c
           \/ Unregister(hub[a]) /\ hub'[a] = NoConn
           \/ Crash /\ hub'[a] = NoConn
<1>1. hub \in [Agents -> Conns \cup {NoConn}]
  BY DEF TypeOK
<1>2. CASE Crash
  BY <1>2 DEF Crash
<1>3. CASE Boot \/ Portal \/ Probe
  BY <1>3 DEF Boot, StartProcess, BootClear, BootList, BootSweep, BootServe,
     Portal, PortalCreate, PortalDelete, PortalUpdateRead, PortalUpdateWrite,
     Probe, ProbeList, ProbeApply
<1>4. ASSUME NEW c \in Conns, Agent(c) PROVE hub' = hub
  BY <1>4 DEF Agent, Dial, SendHeartbeat, LinkDown
<1>5. ASSUME NEW c \in Conns, Register(c)
      PROVE  hub'[a] = hub[a] \/ (conns[c].agent = a /\ hub'[a] = c)
  BY <1>1, <1>5 DEF Register
<1>6. ASSUME NEW c \in Conns, Unregister(c)
      PROVE  hub'[a] = hub[a] \/ (c = hub[a] /\ hub'[a] = NoConn)
  BY <1>1, <1>6 DEF Unregister
<1>7. ASSUME NEW c \in Conns, Handler(c), ~Register(c), ~Unregister(c)
      PROVE  hub' = hub
  BY <1>7 DEF Handler, UpsertRead, UpsertCreate, UpsertWrite, Receive,
     HeartbeatRead, HeartbeatWrite, ReadError, OfflineRead, OfflineWrite
<1> QED
  BY <1>2, <1>3, <1>4, <1>5, <1>6, <1>7 DEF Next

\* The hub never keeps a dead connection: OpenShell always asks a handler that
\* is still there.
THEOREM HubServed == Spec => []HubEntryServed
<1>1. Init => HubEntryServed
  BY DEF Init, HubEntryServed
<1>2. TypeOK /\ HubEntryServed /\ [Next]_vars => HubEntryServed'
  <2>1. ASSUME TypeOK, HubEntryServed, Next PROVE HubEntryServed'
    <3> SUFFICES ASSUME NEW a \in Agents, hub'[a] # NoConn
                 PROVE  /\ conns'[hub'[a]].agent = a
                        /\ conns'[hub'[a]].phase \in Registered
      BY DEF HubEntryServed
    <3>1. CASE hub'[a] = hub[a]
      <4> DEFINE c == hub[a]
      <4>1. c \in Conns /\ conns[c].agent = a /\ conns[c].phase \in Registered
        BY <2>1, <3>1 DEF HubEntryServed, TypeOK
      <4>2. ~Crash
        BY <3>1 DEF Crash
      <4>3. ~Unregister(c)
        BY <2>1, <3>1, <4>1, ConnsAssumption DEF Unregister, TypeOK
      <4> QED
        BY <2>1, <3>1, <4>1, <4>2, <4>3, ConnStep
    <3>2. CASE \E c \in Conns : /\ Register(c)
                                /\ conns[c].agent = a /\ hub'[a] = c
      <4>1. PICK c \in Conns : Register(c) /\ conns[c].agent = a /\ hub'[a] = c
        BY <3>2
      <4>2. conns'[c].phase = "upsertRead" /\ conns'[c].agent = a
        BY <2>1, <4>1 DEF Register, Goto, SetConn, TypeOK, Conn
      <4> QED
        BY <4>1, <4>2 DEF Registered, Phases
    <3> QED
      BY <2>1, <3>1, <3>2, HubStep
  <2>2. CASE UNCHANGED vars
    BY <2>2 DEF vars, HubEntryServed
  <2> QED
    BY <2>1, <2>2
<1> QED
  BY <1>1, <1>2, TypeCorrect, PTL DEF Spec

\* The late exit of a replaced connection never takes the live one off the
\* hub.
THEOREM NewestKeepsSlot == Spec => SlotLostOnlyToNewer
<1> DEFINE Step == \A a \in Agents : LET c == hub[a] IN
             (c # NoConn /\ hub'[a] # c) =>
                \/ server' = "down"
                \/ conns[c].phase = "unregister"
                \/ hub'[a] # NoConn /\ conns[hub'[a]].phase = "accepted"
<1>1. TypeOK /\ [Next]_vars => [Step]_vars
  <2> SUFFICES ASSUME TypeOK, Next, NEW a \in Agents,
                      hub[a] # NoConn, hub'[a] # hub[a]
               PROVE  \/ server' = "down"
                      \/ conns[hub[a]].phase = "unregister"
                      \/ hub'[a] # NoConn /\ conns[hub'[a]].phase = "accepted"
    OBVIOUS
  <2>1. CASE Crash
    BY <2>1 DEF Crash
  <2>2. CASE Unregister(hub[a])
    BY <2>2 DEF Unregister
  <2>3. ASSUME NEW c \in Conns, Register(c), hub'[a] = c
        PROVE  hub'[a] # NoConn /\ conns[hub'[a]].phase = "accepted"
    BY <2>3, ConnsAssumption DEF Register
  <2> QED
    BY <2>1, <2>2, <2>3, HubStep
<1> QED
  BY <1>1, TypeCorrect, PTL DEF Spec, SlotLostOnlyToNewer

-----------------------------------------------------------------------------
(* The table *)

\* A handler or a Portal request that holds a row is in flight.
LEMMA HeldInFlight ==
    ASSUME TypeOK
    PROVE  /\ \A c \in Conns : conns[c].held # Nothing => conns[c].held \in InFlight
           /\ \A p \in Portals : portal[p] # Nothing => portal[p] \in InFlight
           /\ sweep \subseteq InFlight
           /\ InFlight \subseteq Write
  BY NothingAssumption DEF InFlight, TypeOK, Conn

\* What one step adds to the rows in flight: at most a row just read from the
\* table, with its owner and its life unchanged, in a step that writes nothing.
JustRead(w) ==
    /\ UNCHANGED rows
    /\ w.id \in Hosts /\ Live(w.id)
    /\ w.row.st = "live"
    /\ w.row.agent = rows[w.id].agent
    /\ (Consistent(rows[w.id]) /\ (server = "list" => ~rows[w.id].agentOnline))
         => Consistent(w.row)

\* What a handler makes of a row leaves its owner, and the pair consistent.
LEMMA SeenAwayKeepOwner ==
    ASSUME NEW row \in Row, NEW report
    PROVE  /\ Seen(row, report).st = row.st
           /\ Seen(row, report).agent = row.agent
           /\ Away(row).st = row.st
           /\ Away(row).agent = row.agent
           /\ Consistent(Seen(row, report))
           /\ Consistent(Away(row))
  BY DEF Seen, Away, Row, Consistent

\* A row in flight was so before, or has just been read.
LEMMA InFlightStep ==
    ASSUME TypeOK, Next, NEW w \in InFlight'
    PROVE  w \in InFlight \/ JustRead(w)
<1>1. /\ conns \in [Conns -> Conn] /\ rows \in [Hosts -> Row]
      /\ portal \in [Portals -> Write \cup {Nothing}]
  BY DEF TypeOK
<1>2. w # Nothing
  BY DEF InFlight
<1>3. CASE UNCHANGED <<conns, portal, sweep>>
  BY <1>3 DEF InFlight
<1>4. CASE Crash
  BY <1>1, <1>4 DEF Crash, IdleConn, InFlight
<1>5. CASE Boot
  <2>1. CASE BootList
    <3>1. UNCHANGED <<conns, portal>>
      BY <2>1 DEF BootList
    <3>2. CASE w \in sweep'
      <4>1. PICK h \in Hosts : Live(h) /\ w = [id |-> h, row |-> [rows[h] EXCEPT !.online = FALSE]]
        BY <2>1, <3>2 DEF BootList
      <4>2. /\ w.row.st = rows[h].st /\ w.row.agent = rows[h].agent /\ w.id = h
            /\ w.row.agentOnline = rows[h].agentOnline
        BY <1>1, <4>1 DEF Row
      <4> QED
        BY <2>1, <4>1, <4>2 DEF BootList, JustRead, Live, Consistent
    <3> QED
      BY <1>2, <3>1, <3>2 DEF InFlight
  <2>2. CASE BootSweep
    BY <2>2 DEF BootSweep, InFlight
  <2> QED
    BY <1>3, <1>5, <2>1, <2>2 DEF Boot, StartProcess, BootClear, BootServe
<1>6. CASE Portal
  <2>1. ASSUME NEW p \in Portals, PortalUpdateRead(p)
        PROVE  w \in InFlight \/ JustRead(w)
    <3>1. PICK h \in Hosts, address \in BOOLEAN :
            /\ Live(h)
            /\ portal' = [portal EXCEPT
                 ![p] = [id |-> h, row |-> [rows[h] EXCEPT !.address = address]]]
      BY <2>1 DEF PortalUpdateRead
    <3> DEFINE r == [rows[h] EXCEPT !.address = address]
    <3>2. /\ r.st = rows[h].st /\ r.agent = rows[h].agent
          /\ r.agentOnline = rows[h].agentOnline /\ r.online = rows[h].online
      BY <1>1 DEF Row
    <3>3. CASE w = [id |-> h, row |-> r]
      BY <2>1, <3>1, <3>2, <3>3
      DEF PortalUpdateRead, JustRead, Live, Consistent
    <3>4. CASE w # [id |-> h, row |-> r]
      BY <1>1, <2>1, <3>1, <3>4 DEF PortalUpdateRead, InFlight
    <3> QED
      BY <3>3, <3>4
  <2>2. ASSUME NEW p \in Portals, PortalUpdateWrite(p)
        PROVE  w \in InFlight
    BY <1>1, <1>2, <2>2 DEF PortalUpdateWrite, InFlight
  <2> QED
    BY <1>3, <1>6, <2>1, <2>2 DEF Portal, PortalCreate, PortalDelete
<1>7. CASE Probe
  BY <1>3, <1>7 DEF Probe, ProbeList, ProbeApply
<1>8. ASSUME NEW c \in Conns, Agent(c)
      PROVE  w \in InFlight
  <2>1. \A d \in Conns : conns'[d].held = conns[d].held
    <3>1. conns[c] \in Conn
      BY <1>1
    <3>2. CASE Dial(c)
      BY <1>1, <3>1, <3>2 DEF Dial, SetConn, Conn
    <3>3. CASE SendHeartbeat(c)
      BY <1>1, <3>1, <3>3 DEF SendHeartbeat, SetConn, Conn
    <3>4. CASE LinkDown(c)
      BY <1>1, <3>1, <3>4 DEF LinkDown, SetConn, Conn
    <3> QED
      BY <1>8, <3>2, <3>3, <3>4 DEF Agent
  <2> QED
    BY <1>8, <2>1 DEF Agent, Dial, SendHeartbeat, LinkDown, InFlight
<1>9. ASSUME NEW c \in Conns, Handler(c)
      PROVE  w \in InFlight \/ JustRead(w)
  <2> DEFINE Keeps == \A d \in Conns : conns'[d].held \in {conns[d].held, Nothing}
  <2>1. portal' = portal /\ sweep' = sweep
    BY <1>9 DEF Handler, Register, UpsertRead, UpsertCreate, UpsertWrite,
       Receive, HeartbeatRead, HeartbeatWrite, ReadError, OfflineRead,
       OfflineWrite, Unregister
  <2>2. CASE Keeps
    BY <1>2, <2>1, <2>2 DEF InFlight
  <2>3. ASSUME NEW phase, NEW h \in OwnedBy(conns[c].agent), NEW row,
               Hold(c, phase, h, row), UNCHANGED rows,
               row.st = rows[h].st, row.agent = rows[h].agent,
               Consistent(row)
        PROVE  w \in InFlight \/ JustRead(w)
    <3>1. \A d \in Conns : conns'[d].held =
             IF d = c THEN [id |-> h, row |-> row] ELSE conns[d].held
      BY <1>1, <2>3 DEF Hold, SetConn, Conn
    <3>2. CASE w = [id |-> h, row |-> row]
      BY <2>3, <3>2 DEF JustRead, OwnedBy, Live
    <3>3. CASE w # [id |-> h, row |-> row]
      BY <2>1, <3>1, <3>3 DEF InFlight
    <3> QED
      BY <3>2, <3>3
  <2>4. \A h \in OwnedBy(conns[c].agent) :
           /\ Seen(rows[h], conns[c].report).st = rows[h].st
           /\ Seen(rows[h], conns[c].report).agent = rows[h].agent
           /\ Away(rows[h]).st = rows[h].st
           /\ Away(rows[h]).agent = rows[h].agent
           /\ Consistent(Seen(rows[h], conns[c].report))
           /\ Consistent(Away(rows[h]))
    BY <1>1, SeenAwayKeepOwner DEF OwnedBy
  <2>5. \A phase : Goto(c, phase) => Keeps
    BY <1>1 DEF Goto, SetConn, Conn
  <2>6. BackToLoop(c) => Keeps
    BY <1>1 DEF BackToLoop, SetConn, Conn
  <2>7. CASE Register(c) \/ ReadError(c) \/ Unregister(c) \/ UpsertCreate(c)
               \/ UpsertWrite(c) \/ HeartbeatWrite(c)
    BY <2>2, <2>5, <2>6, <2>7 DEF Register, ReadError, Unregister,
       UpsertCreate, UpsertWrite, HeartbeatWrite
  <2>8. CASE Receive(c) \/ OfflineWrite(c)
    <3>1. Keeps
      <4>1. conns[c] \in Conn
        BY <1>1
      <4>2. CASE Receive(c)
        BY <1>1, <4>1, <4>2 DEF Receive, SetConn, Conn
      <4>3. CASE OfflineWrite(c)
        BY <1>1, <4>1, <4>3 DEF OfflineWrite, SetConn, Conn
      <4> QED
        BY <2>8, <4>2, <4>3
    <3> QED
      BY <2>2, <3>1
  <2>9. CASE UpsertRead(c)
    BY <2>2, <2>3, <2>4, <2>5, <2>6, <2>9 DEF UpsertRead
  <2>10. CASE HeartbeatRead(c)
    BY <2>2, <2>3, <2>4, <2>5, <2>6, <2>10 DEF HeartbeatRead
  <2>11. CASE OfflineRead(c)
    BY <2>2, <2>3, <2>4, <2>5, <2>11 DEF OfflineRead
  <2> QED
    BY <1>9, <2>7, <2>8, <2>9, <2>10, <2>11 DEF Handler
<1> QED
  BY <1>4, <1>5, <1>6, <1>7, <1>8, <1>9 DEF Next

\* The ways one step changes the table.
AgentInsert ==
    \E h \in Fresh, a \in Agents, report \in Reports :
        /\ OwnedBy(a) = {}
        /\ rows' = [rows EXCEPT ![h] = NewAgentRow(a, report)]

\* The table changes in these ways only.
LEMMA RowsStep ==
    ASSUME TypeOK, Holding, Next
    PROVE  \/ UNCHANGED rows
           \/ \E w \in InFlight : UpdateRow(w)
           \/ AgentInsert
           \/ PortalCreate \/ PortalDelete \/ ProbeApply \/ BootClear
<1>1. CASE Boot
  BY <1>1, HeldInFlight DEF Boot, StartProcess, BootList, BootSweep, BootServe
<1>2. CASE Crash
  BY <1>2 DEF Crash
<1>3. CASE Portal
  BY <1>3, HeldInFlight DEF Portal, PortalUpdateRead, PortalUpdateWrite
<1>4. CASE Probe
  BY <1>4 DEF Probe, ProbeList
<1>5. ASSUME NEW c \in Conns, Agent(c) PROVE UNCHANGED rows
  BY <1>5 DEF Agent, Dial, SendHeartbeat, LinkDown
<1>6. ASSUME NEW c \in Conns, Handler(c)
      PROVE  UNCHANGED rows \/ (\E w \in InFlight : UpdateRow(w)) \/ AgentInsert
  <2>1. conns[c].held # Nothing => conns[c].held \in InFlight
    BY HeldInFlight
  <2>2. CASE UpsertWrite(c) \/ HeartbeatWrite(c) \/ OfflineWrite(c)
    <3>1. conns[c].held # Nothing
      BY <2>2 DEF Holding, WritePhases, UpsertWrite, HeartbeatWrite, OfflineWrite
    <3> QED
      BY <2>1, <2>2, <3>1 DEF UpsertWrite, HeartbeatWrite, OfflineWrite
  <2>3. CASE UpsertCreate(c)
    <3>1. conns[c].agent \in Agents /\ conns[c].report \in Reports
      BY DEF TypeOK, Conn
    <3> QED
      BY <2>3, <3>1 DEF UpsertCreate, AgentInsert
  <2> QED
    BY <1>6, <2>2, <2>3 DEF Handler, Register, UpsertRead, Receive,
       HeartbeatRead, ReadError, OfflineRead, Unregister
<1> QED
  BY <1>1, <1>2, <1>3, <1>4, <1>5, <1>6 DEF Next

\* A row keeps its owner for ever, and never becomes unused again.
LEMMA OwnerStep ==
    ASSUME TypeOK, Holding, \A w \in InFlight : Faithful(w), Next,
           NEW h \in Hosts, rows[h].st # "unused"
    PROVE  /\ rows'[h].st # "unused"
           /\ rows'[h].agent = rows[h].agent
<1>1. rows \in [Hosts -> Row] /\ rows[h] \in Row
  BY DEF TypeOK
<1>2. ASSUME NEW w \in InFlight, UpdateRow(w)
      PROVE  rows'[h].st # "unused" /\ rows'[h].agent = rows[h].agent
  <2>1. Faithful(w)
    OBVIOUS
  <2> QED
    BY <1>1, <1>2, <2>1 DEF UpdateRow, Faithful, Live
<1>3. ASSUME AgentInsert
      PROVE  rows'[h].st # "unused" /\ rows'[h].agent = rows[h].agent
  BY <1>1, <1>3 DEF AgentInsert, Fresh
<1>4. ASSUME PortalCreate
      PROVE  rows'[h].st # "unused" /\ rows'[h].agent = rows[h].agent
  BY <1>1, <1>4 DEF PortalCreate, Fresh
<1>5. ASSUME PortalDelete
      PROVE  rows'[h].st # "unused" /\ rows'[h].agent = rows[h].agent
  BY <1>1, <1>5 DEF PortalDelete, Row
<1>6. ASSUME ProbeApply
      PROVE  rows'[h].st # "unused" /\ rows'[h].agent = rows[h].agent
  BY <1>1, <1>6 DEF ProbeApply, Row
<1>7. ASSUME BootClear
      PROVE  rows'[h].st # "unused" /\ rows'[h].agent = rows[h].agent
  BY <1>1, <1>7 DEF BootClear, Row
<1> QED
  BY <1>2, <1>3, <1>4, <1>5, <1>6, <1>7, RowsStep

\* A row comes to life only by an insert, which makes it the only row of its
\* Agent, or gives it none.
LEMMA BirthStep ==
    ASSUME TypeOK, Holding, Next, NEW h \in Hosts,
           rows'[h].st = "live", ~Live(h)
    PROVE  /\ \/ rows'[h].agent = NoAgent
              \/ rows'[h].agent \in Agents /\ OwnedBy(rows'[h].agent) = {}
           /\ \A g \in Hosts \ {h} : rows'[g] = rows[g]
<1>1. rows \in [Hosts -> Row] /\ rows[h] \in Row
  BY DEF TypeOK
<1>2. ASSUME NEW w \in InFlight, UpdateRow(w) PROVE FALSE
  BY <1>1, <1>2 DEF UpdateRow, Live
<1>3. ASSUME PortalDelete \/ ProbeApply \/ BootClear PROVE FALSE
  BY <1>1, <1>3 DEF PortalDelete, ProbeApply, BootClear, Live, Row
<1>4. CASE AgentInsert
  <2>1. PICK g \in Fresh, a \in Agents, report \in Reports :
           /\ OwnedBy(a) = {}
           /\ rows' = [rows EXCEPT ![g] = NewAgentRow(a, report)]
    BY <1>4 DEF AgentInsert
  <2>2. g = h
    BY <1>1, <2>1 DEF Live
  <2>3. rows'[h].agent = a
    BY <1>1, <2>1, <2>2 DEF NewAgentRow
  <2> QED
    BY <1>1, <2>1, <2>2, <2>3
<1>5. CASE PortalCreate
  <2>1. PICK g \in Fresh, address \in BOOLEAN :
           rows' = [rows EXCEPT ![g] = [BlankRow EXCEPT !.st = "live",
                                                        !.address = address]]
    BY <1>5 DEF PortalCreate
  <2>2. g = h
    BY <1>1, <2>1 DEF Live
  <2>3. rows'[h].agent = NoAgent
    BY <1>1, <2>1, <2>2 DEF BlankRow
  <2> QED
    BY <1>1, <2>1, <2>2, <2>3
<1> QED
  BY <1>2, <1>3, <1>4, <1>5, RowsStep DEF Live

Unique ==
    \A g, h \in Hosts :
        (Live(g) /\ Live(h) /\ rows[g].agent = rows[h].agent
           /\ rows[g].agent # NoAgent) => g = h

\* TableInvariant is inductive.
LEMMA TableStep ==
    ASSUME TableInvariant, Next
    PROVE  TableInvariant'
<1>1. /\ TypeOK /\ Holding /\ Unique
      /\ \A w \in InFlight : Faithful(w)
  BY DEF TableInvariant, Holding, Unique
<1>2. TypeOK' /\ Holding'
  BY <1>1, TypeStep
<1>3. ASSUME NEW w \in InFlight' PROVE Faithful(w)'
  <2>1. w.id \in Hosts
    BY <1>2, HeldInFlight DEF Write, InFlight, TypeOK, Conn
  <2>2. CASE JustRead(w)
    BY <2>2 DEF JustRead, Faithful, Live
  <2>3. CASE w \in InFlight
    <3>1. Faithful(w)
      BY <1>1, <2>3
    <3>2. rows'[w.id].st # "unused" /\ rows'[w.id].agent = rows[w.id].agent
      BY <1>1, <2>1, <3>1, OwnerStep DEF Faithful
    <3> QED
      BY <3>1, <3>2 DEF Faithful
  <2> QED
    BY <1>1, <2>2, <2>3, InFlightStep
<1>4. Unique'
  <2> SUFFICES ASSUME NEW g \in Hosts, NEW h \in Hosts, Live(g)', Live(h)',
                      rows'[g].agent = rows'[h].agent,
                      rows'[g].agent # NoAgent, g # h
               PROVE  FALSE
    BY DEF Unique
  <2>1. CASE Live(g) /\ Live(h)
    BY <1>1, <2>1, OwnerStep DEF Unique, Live
  <2>2. CASE ~Live(g)
    <3>1. OwnedBy(rows'[g].agent) = {} /\ rows'[h] = rows[h]
      BY <1>1, <2>2, BirthStep DEF Live
    <3> QED
      BY <3>1 DEF OwnedBy, Live
  <2>3. CASE ~Live(h)
    <3>1. OwnedBy(rows'[h].agent) = {} /\ rows'[g] = rows[g]
      BY <1>1, <2>3, BirthStep DEF Live
    <3> QED
      BY <3>1 DEF OwnedBy, Live
  <2> QED
    BY <2>1, <2>2, <2>3
<1> QED
  BY <1>2, <1>3, <1>4 DEF TableInvariant, Holding, Unique

\* Rows in flight never change hands, so no two live rows carry one
\* fingerprint, whatever the interleaving of upserts, edits and deletes.
THEOREM TableCorrect == Spec => []TableInvariant
<1>1. Init => TableInvariant
  <2> SUFFICES ASSUME Init PROVE TableInvariant
    OBVIOUS
  <2>1. \A c \in Conns : conns[c].phase = "idle" /\ conns[c].held = Nothing
    BY DEF Init, IdleConn
  <2>2. InFlight = {}
    BY <2>1 DEF InFlight, Init
  <2>3. \A h \in Hosts : ~Live(h)
    BY DEF Init, BlankRow, Live
  <2> QED
    BY <2>1, <2>2, <2>3, InitType DEF TableInvariant, WritePhases
<1>2. TableInvariant /\ [Next]_vars => TableInvariant'
  <2>1. CASE UNCHANGED vars
    BY <2>1 DEF vars, TableInvariant, TypeOK, InFlight, Faithful, Live
  <2> QED
    BY <2>1, TableStep
<1> QED
  BY <1>1, <1>2, PTL DEF Spec

\* One inventory row per certificate fingerprint.
THEOREM OneRow == Spec => []OneRowPerAgent
<1>1. TableInvariant => OneRowPerAgent
  <2> SUFFICES ASSUME TableInvariant, NEW a \in Agents
               PROVE  Cardinality(OwnedBy(a)) <= 1
    BY DEF OneRowPerAgent
  <2>1. CASE OwnedBy(a) = {}
    BY <2>1, FS_EmptySet
  <2>2. CASE OwnedBy(a) # {}
    <3>1. PICK h \in OwnedBy(a) : TRUE
      BY <2>2
    <3>2. \A g \in OwnedBy(a) : g = h
      BY <3>1, AgentsAssumption DEF TableInvariant, OwnedBy
    <3>3. OwnedBy(a) = {h}
      BY <3>1, <3>2
    <3> QED
      BY <3>3, FS_Singleton
  <2> QED
    BY <2>1, <2>2
<1> QED
  BY <1>1, TableCorrect, PTL

\* A deleted row is never brought back by a write of what was read before.
THEOREM Deleted == Spec => DeletedStaysDeleted
<1> DEFINE Step ==
      \A h \in Hosts : rows[h].st = "deleted" => rows'[h].st = "deleted"
<1>1. TableInvariant /\ [Next]_vars => [Step]_vars
  <2> SUFFICES ASSUME TypeOK, Holding, Next, NEW h \in Hosts,
                      rows[h].st = "deleted"
               PROVE  rows'[h].st = "deleted"
    BY DEF TableInvariant, Holding
  <2>1. rows \in [Hosts -> Row] /\ rows[h] \in Row
    BY DEF TypeOK
  <2>2. ASSUME NEW w \in InFlight, UpdateRow(w) PROVE rows'[h] = rows[h]
    BY <2>1, <2>2 DEF UpdateRow, Live
  <2>3. CASE AgentInsert \/ PortalCreate
    BY <2>1, <2>3 DEF AgentInsert, PortalCreate, Fresh
  <2>4. CASE PortalDelete \/ ProbeApply \/ BootClear
    BY <2>1, <2>4 DEF PortalDelete, ProbeApply, BootClear, Live
  <2> QED
    BY <2>2, <2>3, <2>4, RowsStep
<1> QED
  BY <1>1, TableCorrect, PTL DEF Spec, DeletedStaysDeleted

-----------------------------------------------------------------------------
(* Presence and reachability stay paired *)

\* While the Server is not up no handler is at work.
Quiet == server # "up" => \A c \in Conns : conns[c].phase \in {"idle", "done"}

\* It stays so.
LEMMA QuietStep ==
    ASSUME TypeOK, Quiet, Next
    PROVE  Quiet'
<1>1. CASE Boot
  BY <1>1 DEF Boot, StartProcess, BootClear, BootList, BootSweep, BootServe,
     Quiet
<1>2. CASE Crash
  <2>1. \A c \in Conns : conns'[c].phase \in {"idle", "done"}
    BY <1>2 DEF Crash, IdleConn
  <2> QED
    BY <1>2, <2>1 DEF Crash, Quiet
<1>3. CASE Probe \/ Portal
  BY <1>3 DEF Probe, ProbeList, ProbeApply, Portal, PortalCreate, PortalDelete,
     PortalUpdateRead, PortalUpdateWrite, Quiet
<1>4. ASSUME NEW c \in Conns, Handler(c) PROVE Quiet'
  <2>1. server = "up" /\ UNCHANGED server
    BY <1>4 DEF Quiet, Handler, Register, UpsertRead, UpsertCreate,
       UpsertWrite, Receive, HeartbeatRead, HeartbeatWrite, ReadError,
       OfflineRead, OfflineWrite, Unregister
  <2> QED
    BY <2>1 DEF Quiet
<1>5. ASSUME NEW c \in Conns, Agent(c) PROVE Quiet'
  <2>1. conns \in [Conns -> Conn] /\ conns[c] \in Conn
    BY DEF TypeOK
  <2>2. CASE Dial(c)
    BY <2>2 DEF Dial, Quiet
  <2>3. CASE SendHeartbeat(c)
    BY <2>1, <2>3 DEF SendHeartbeat, SetConn, Conn, Quiet
  <2>4. CASE LinkDown(c)
    BY <2>1, <2>4 DEF LinkDown, SetConn, Conn, Quiet
  <2> QED
    BY <1>5, <2>2, <2>3, <2>4 DEF Agent
<1> QED
  BY <1>1, <1>2, <1>3, <1>4, <1>5 DEF Next

\* What is neither a step of the start nor the end of the process leaves the
\* stage of the start, the sweep and the history alone.
LEMMA AfterStart ==
    ASSUME Next, ~Boot, ~Crash
    PROVE  UNCHANGED <<server, sweep, straddled>>
BY DEF Next, Handler, Register, UpsertRead, UpsertCreate, UpsertWrite, Receive,
   HeartbeatRead, HeartbeatWrite, ReadError, OfflineRead, OfflineWrite, Unregister,
   Agent, Dial, SendHeartbeat, LinkDown, Portal, PortalCreate, PortalDelete,
   PortalUpdateRead, PortalUpdateWrite, Probe, ProbeList, ProbeApply

\* While the Server starts nobody claims presence: neither the table, nor the
\* sweep, nor an edit under way.
NobodyPresent ==
    /\ \A h \in Hosts : Live(h) => ~rows[h].agentOnline
    /\ \A w \in sweep : ~w.row.agentOnline
    /\ \A p \in Portals : portal[p] # Nothing => ~portal[p].row.agentOnline

\* BootClear brings that about, unless an edit straddles it, and what may happen
\* until the Server is up keeps it.
LEMMA SweepStep ==
    ASSUME TypeOK, Quiet, Next, server # "sweep" => sweep = {},
           server \in {"list", "sweep"} => NobodyPresent,
           server' \in {"list", "sweep"}, ~straddled'
    PROVE  NobodyPresent'
<1>1. /\ rows \in [Hosts -> Row] /\ portal \in [Portals -> Write \cup {Nothing}]
      /\ \A h \in Hosts : rows[h] \in Row
  BY DEF TypeOK
<1>2. CASE BootClear
  BY <1>1, <1>2 DEF BootClear, NobodyPresent, Live, Row
<1>3. CASE BootList
  <2>1. NobodyPresent /\ UNCHANGED <<rows, portal>>
    BY <1>3 DEF BootList
  <2>2. ASSUME NEW w \in sweep' PROVE ~w.row.agentOnline
    <3>1. PICK h \in Hosts : Live(h) /\ w = [id |-> h, row |-> [rows[h] EXCEPT !.online = FALSE]]
      BY <1>3, <2>2 DEF BootList
    <3>2. w.row.agentOnline = rows[h].agentOnline
      BY <1>1, <3>1 DEF Row
    <3> QED
      BY <2>1, <3>1, <3>2 DEF NobodyPresent
  <2> QED
    BY <2>1, <2>2 DEF NobodyPresent, Live
<1>4. CASE BootSweep
  <2>1. PICK w \in sweep : UpdateRow(w) /\ sweep' = sweep \ {w}
    BY <1>4 DEF BootSweep
  <2>2. NobodyPresent /\ ~w.row.agentOnline /\ UNCHANGED portal
    BY <1>4, <2>1 DEF BootSweep, NobodyPresent
  <2> QED
    BY <1>1, <2>1, <2>2 DEF UpdateRow, NobodyPresent, Live
<1>5. CASE Boot /\ ~BootClear /\ ~BootList /\ ~BootSweep
  BY <1>5 DEF Boot, StartProcess, BootServe
<1>6. CASE Crash
  BY <1>6 DEF Crash
<1>7. CASE ~Boot /\ ~Crash
  <2>1. UNCHANGED <<server, sweep>> /\ NobodyPresent
    BY <1>7, AfterStart
  <2>2. \A c \in Conns : ~Handler(c)
    BY <2>1 DEF Quiet, Handler, Register, UpsertRead, UpsertCreate, UpsertWrite,
       Receive, HeartbeatRead, HeartbeatWrite, ReadError, OfflineRead, OfflineWrite,
       Unregister
  <2>3. ASSUME UNCHANGED <<rows, portal>> PROVE NobodyPresent'
    BY <2>1, <2>3 DEF NobodyPresent, Live
  <2>4. CASE PortalCreate \/ PortalDelete
    <3>1. UNCHANGED <<sweep, portal>>
      BY <2>4 DEF PortalCreate, PortalDelete
    <3>2. ASSUME PortalCreate, NEW g \in Hosts, rows'[g].st = "live"
          PROVE  ~rows'[g].agentOnline
      <4>1. PICK h \in Fresh, address \in BOOLEAN :
              rows' = [rows EXCEPT ![h] = [BlankRow EXCEPT !.st = "live", !.address = address]]
        BY <3>2 DEF PortalCreate
      <4>2. ~[BlankRow EXCEPT !.st = "live", !.address = address].agentOnline
        BY DEF BlankRow
      <4> QED
        BY <1>1, <2>1, <3>2, <4>1, <4>2 DEF NobodyPresent, Live
    <3>3. ASSUME PortalDelete, NEW g \in Hosts, rows'[g].st = "live"
          PROVE  ~rows'[g].agentOnline
      BY <1>1, <2>1, <3>3 DEF PortalDelete, NobodyPresent, Live, Row
    <3> QED
      BY <2>1, <2>4, <3>1, <3>2, <3>3 DEF NobodyPresent, Live
  <2>5. ASSUME NEW p \in Portals, PortalUpdateRead(p) PROVE NobodyPresent'
    <3>1. PICK h \in Hosts, address \in BOOLEAN :
            /\ Live(h)
            /\ portal' = [portal EXCEPT
                 ![p] = [id |-> h, row |-> [rows[h] EXCEPT !.address = address]]]
      BY <2>5 DEF PortalUpdateRead
    <3>2. [rows[h] EXCEPT !.address = address].agentOnline = rows[h].agentOnline
      BY <1>1 DEF Row
    <3> QED
      BY <1>1, <2>1, <2>5, <3>1, <3>2 DEF PortalUpdateRead, NobodyPresent, Live
  <2>6. ASSUME NEW p \in Portals, PortalUpdateWrite(p) PROVE NobodyPresent'
    BY <1>1, <2>1, <2>6 DEF PortalUpdateWrite, UpdateRow, NobodyPresent, Live
  <2>7. CASE Probe
    BY <1>1, <2>1, <2>3, <2>7 DEF Probe, ProbeList, ProbeApply, NobodyPresent, Live, Row
  <2>8. ASSUME NEW c \in Conns, Agent(c) PROVE NobodyPresent'
    BY <2>3, <2>8 DEF Agent, Dial, SendHeartbeat, LinkDown
  <2> QED
    BY <1>7, <2>2, <2>4, <2>5, <2>6, <2>7, <2>8 DEF Next, Portal
<1> QED
  BY <1>2, <1>3, <1>4, <1>5, <1>6, <1>7

\* PresenceInvariant is inductive.
LEMMA PresenceStep ==
    ASSUME TableInvariant, PresenceInvariant, Next
    PROVE  PresenceInvariant'
<1>1. TypeOK /\ Holding /\ Quiet
  BY DEF TableInvariant, Holding, PresenceInvariant, Quiet
<1>2. rows \in [Hosts -> Row]
  BY <1>1 DEF TypeOK
<1>3. Quiet'
  BY <1>1, QuietStep
<1>4. server' # "sweep" => sweep' = {}
  <2>1. CASE Boot
    BY <2>1 DEF PresenceInvariant, Boot, StartProcess, BootClear, BootList, BootSweep, BootServe
  <2>2. CASE Crash
    BY <2>2 DEF Crash
  <2> QED
    BY <2>1, <2>2, AfterStart DEF PresenceInvariant
<1>5. ASSUME ~straddled'
      PROVE  /\ \A h \in Hosts : Consistent(rows'[h])
             /\ \A w \in InFlight' : Consistent(w.row)
             /\ server' \in {"list", "sweep"} => NobodyPresent'
  <2>1. ~straddled
    BY <1>5, AfterStart DEF Boot, StartProcess, BootClear, BootList, BootSweep, BootServe, Crash
  <2>2. /\ \A h \in Hosts : Consistent(rows[h])
        /\ \A w \in InFlight : Consistent(w.row)
        /\ server \in {"list", "sweep"} => NobodyPresent
    BY <2>1 DEF PresenceInvariant, NobodyPresent
  <2>3. ASSUME NEW h \in Hosts PROVE Consistent(rows'[h])
    <3>1. rows[h] \in Row /\ Consistent(rows[h])
      BY <1>2, <2>2
    <3>2. ASSUME NEW w \in InFlight, UpdateRow(w) PROVE Consistent(rows'[h])
      <4>1. Consistent(w.row)
        BY <2>2
      <4> QED
        BY <1>2, <3>1, <3>2, <4>1 DEF UpdateRow
    <3>3. ASSUME AgentInsert PROVE Consistent(rows'[h])
      BY <1>2, <3>1, <3>3 DEF AgentInsert, NewAgentRow, Consistent
    <3>4. ASSUME PortalCreate PROVE Consistent(rows'[h])
      BY <1>2, <3>1, <3>4 DEF PortalCreate, BlankRow, Consistent
    <3>5. ASSUME PortalDelete PROVE Consistent(rows'[h])
      BY <1>2, <3>1, <3>5 DEF PortalDelete, Row, Consistent
    <3>6. ASSUME ProbeApply PROVE Consistent(rows'[h])
      BY <1>2, <3>1, <3>6 DEF ProbeApply, Row, Consistent
    <3>7. ASSUME BootClear PROVE Consistent(rows'[h])
      BY <1>2, <3>1, <3>7 DEF BootClear, Row, Consistent
    <3> QED
      BY <1>1, <3>1, <3>2, <3>3, <3>4, <3>5, <3>6, <3>7, RowsStep
  <2>4. ASSUME NEW w \in InFlight' PROVE Consistent(w.row)
    <3>1. CASE w \in InFlight
      BY <2>2, <3>1
    <3>2. CASE JustRead(w)
      BY <2>2, <3>2 DEF JustRead, NobodyPresent
    <3> QED
      BY <1>1, <3>1, <3>2, InFlightStep
  <2>5. ASSUME server' \in {"list", "sweep"} PROVE NobodyPresent'
    BY <1>1, <1>5, <2>2, <2>5, SweepStep DEF PresenceInvariant
  <2> QED
    BY <2>3, <2>4, <2>5
<1> QED
  BY <1>3, <1>4, <1>5 DEF PresenceInvariant, Quiet, NobodyPresent

\* The columns agent_online and online never contradict each other, although three
\* kinds of goroutine write whole rows they read earlier and the API may be served
\* while the Server sweeps, unless an edit carried agent_online over BootClear.
THEOREM PresencePaired == Spec => []OnlyStraddlingEditsTear
<1>1. Init => PresenceInvariant
  <2> SUFFICES ASSUME Init PROVE PresenceInvariant
    OBVIOUS
  <2>1. \A c \in Conns : conns[c].phase = "idle" /\ conns[c].held = Nothing
    BY DEF Init, IdleConn
  <2>2. InFlight = {}
    BY <2>1 DEF InFlight, Init
  <2> QED
    BY <2>1, <2>2 DEF Init, PresenceInvariant, BlankRow, Consistent
<1>2. TableInvariant /\ PresenceInvariant /\ [Next]_vars => PresenceInvariant'
  <2>1. CASE UNCHANGED vars
    BY <2>1 DEF vars, PresenceInvariant, InFlight, Live
  <2> QED
    BY <2>1, PresenceStep
<1>3. TypeOK /\ PresenceInvariant => OnlyStraddlingEditsTear
  BY DEF PresenceInvariant, OnlyStraddlingEditsTear, AgentOnlineImpliesOnline, TypeOK
<1> QED
  BY <1>1, <1>2, <1>3, TypeCorrect, TableCorrect, PTL DEF Spec
=============================================================================

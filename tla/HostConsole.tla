----------------------------- MODULE HostConsole -----------------------------
(***************************************************************************)
(* The Console tab of the Portal (HostTerminal.tsx) against the Server's   *)
(* tickets.  Each run of the component's effect asks for a ticket, opens a *)
(* WebSocket with it and follows its events, while a change of mode,       *)
(* Reconectar, a poll that changes what is available, or leaving the tab   *)
(* may dispose it at any await.  Somebody else may present its ticket.     *)
(*                                                                         *)
(* A step is a handler with the render and the effects it causes.  xterm,  *)
(* what the shell writes and the text of errors are left out.              *)
(***************************************************************************)
EXTENDS TerminalTickets

CONSTANTS
    NoRun,       \* no effect, no socket
    MaxChanges   \* bound on changes of the Host row

\* Run k of the effect sends POST k and opens socket k; a socket that no run
\* has opened is another client's.
ASSUME RunAssumption == Posts = Sockets /\ NoRun \notin Sockets
ASSUME ChangesAssumption == MaxChanges \in Nat

VARIABLES
    console,  \* the component
    runs,     \* its effect's runs: connect() and the socket it made
    changes

server == <<now, tickets, hosts, posts, sockets, restarts>>
portal == <<console, runs>>
allVars == <<now, tickets, hosts, posts, sockets, restarts, console, runs, changes>>

-----------------------------------------------------------------------------
\* agent, ssh: what the Host it was given offers; run: the effect that is not
\* disposed; ws: wsRef; shown: activePath.
Console == [up: BOOLEAN, host: Hosts, agent: BOOLEAN, ssh: BOOLEAN,
            mode: {"auto", "agent", "ssh"}, run: Sockets \cup {NoRun},
            ws: Sockets \cup {NoRun}, shown: Paths \cup {"none"},
            status: {"idle", "connecting", "open", "closed"}]

\* asking: the POST travels; served: a handler has it; minted: its answer
\* travels; connecting, open: the socket; over: nothing more will happen; expired:
\* nor will it, since the browser is sent to the login.
Run == [pc: {"unused", "asking", "served", "minted", "connecting", "open", "over",
             "expired"},
        mode: {"auto", "agent", "ssh"}, ticket: Ids \cup {NoId}]

AnyAvailable(c) == c.agent \/ c.ssh

\* HostTerminal reads agent_online, the Credential link and an address.
Offered(c, host) ==
    [c EXCEPT !.agent = (host.agent = "online"), !.ssh = host.ssh]

\* The effect's cleanup: its handlers are dropped and its socket closed.
Cleanup ==
    [k \in Sockets |->
        IF k = console.ws /\ runs[k].pc \in {"connecting", "open"}
        THEN [runs[k] EXCEPT !.pc = "over"] ELSE runs[k]]

\* The effect runs again for the new props and state c.
Effect(c) ==
    IF AnyAvailable(c)
    THEN \E k \in Sockets :
           /\ runs[k].pc = "unused" /\ sockets[k].pc = "idle"
           /\ runs' = [Cleanup EXCEPT ![k].pc = "asking", ![k].mode = c.mode]
           /\ console' = [c EXCEPT !.run = k, !.ws = NoRun,
                                   !.status = "connecting", !.shown = "none"]
    ELSE /\ runs' = Cleanup
         /\ console' = [c EXCEPT !.run = NoRun, !.ws = NoRun]

InitConsole ==
    /\ Init
    /\ console \in [up: {FALSE}, host: Hosts, agent: {FALSE}, ssh: {FALSE},
                    mode: {"auto"}, run: {NoRun}, ws: {NoRun},
                    shown: {"none"}, status: {"idle"}]
    /\ runs = [k \in Sockets |->
                [pc |-> "unused", mode |-> "auto", ticket |-> NoId]]
    /\ changes = 0

-----------------------------------------------------------------------------
(* What the operator and the page do *)

\* The Console tab is opened on a Host the page has read.
Mount ==
    /\ ~console.up
    /\ hosts[console.host].live
    /\ Effect(Offered([console EXCEPT !.up = TRUE, !.mode = "auto",
                                      !.status = "idle", !.shown = "none"],
                      hosts[console.host]))
    /\ UNCHANGED <<server, changes>>

Unmount ==
    /\ console.up
    /\ runs' = Cleanup
    /\ console' = [console EXCEPT !.up = FALSE, !.run = NoRun, !.ws = NoRun]
    /\ UNCHANGED <<server, changes>>

\* The page's poll brings a new Host: only a change of anyAvailable runs the
\* effect again, not one of what the open path needs.
Polled ==
    LET c == Offered(console, hosts[console.host]) IN
    /\ console.up /\ hosts[console.host].live /\ c # console
    /\ IF AnyAvailable(c) = AnyAvailable(console)
       THEN console' = c /\ UNCHANGED runs
       ELSE Effect(c)
    /\ UNCHANGED <<server, changes>>

\* The select disables the paths the Host does not offer.
SetMode ==
    /\ console.up /\ AnyAvailable(console)
    /\ \E mode \in {"auto", "agent", "ssh"} \ {console.mode} :
         /\ mode = "agent" => console.agent
         /\ mode = "ssh" => console.ssh
         /\ Effect([console EXCEPT !.mode = mode])
    /\ UNCHANGED <<server, changes>>

\* Reconectar: a new sessionKey.
Reconnect ==
    /\ console.up /\ AnyAvailable(console)
    /\ Effect(console)
    /\ UNCHANGED <<server, changes>>

-----------------------------------------------------------------------------
(* connect(): the ticket *)

\* A run that makes no socket.
Over(k) == runs' = [runs EXCEPT ![k].pc = "over", ![k].ticket = NoId]

\* createTerminalTicket reaches the Server.
Serve(k) ==
    /\ runs[k].pc = "asking"
    /\ ResolvePath(k)
    /\ posts'[k].host = console.host
    /\ posts'[k].path \in Resolve(hosts[console.host], runs[k].mode)
    /\ runs' = [runs EXCEPT ![k].pc = "served"]
    /\ UNCHANGED <<console, changes>>

ServerMints(k) ==
    /\ runs[k].pc = "served"
    /\ Mint(k)
    /\ \E t \in Ids :
         /\ tickets[t].st = "unminted" /\ tickets'[t].st = "stored"
         /\ runs' = [runs EXCEPT ![k].pc = "minted", ![k].ticket = t]
    /\ UNCHANGED <<console, changes>>

\* Mutant of Opens: a run does not ask whether it was disposed meanwhile.
OpensAnyway(k) ==
    /\ runs[k].pc = "minted"
    /\ runs' = [runs EXCEPT ![k].pc = "connecting"]
    /\ console' = [console EXCEPT !.ws = k,
                                  !.shown = tickets[runs[k].ticket].path]
    /\ UNCHANGED <<server, changes>>

\* The answer arrives.  A disposed run leaves its ticket to expire.
Opens(k) ==
    /\ runs[k].pc = "minted"
    /\ IF k # console.run
       THEN Over(k) /\ UNCHANGED console
       ELSE /\ runs' = [runs EXCEPT ![k].pc = "connecting"]
            /\ console' = [console EXCEPT !.ws = k,
                                          !.shown = tickets[runs[k].ticket].path]
    /\ UNCHANGED <<server, changes>>

\* Mutant of ConnectFails: the catch of a disposed run writes the status.
ConnectFailsAnyway(k) ==
    /\ runs[k].pc \in {"asking", "served", "minted"}
    /\ IF posts[k].pc = "resolved" THEN MintFails(k) ELSE UNCHANGED server
    /\ Over(k)
    /\ console' = [console EXCEPT !.status = "closed"]
    /\ UNCHANGED changes

\* apiFetch has no valid token and starts a login; its SessionExpiredError leaves the
\* Console as it is.  If the login cannot be started either, ConnectFails.
SessionExpires(k) ==
    /\ runs[k].pc = "asking"
    /\ runs' = [runs EXCEPT ![k].pc = "expired"]
    /\ UNCHANGED <<server, console, changes>>

\* The request is refused, or it or its answer is lost (also in a restart).
ConnectFails(k) ==
    /\ runs[k].pc \in {"asking", "served", "minted"}
    /\ IF posts[k].pc = "resolved" THEN MintFails(k) ELSE UNCHANGED server
    /\ Over(k)
    /\ console' = IF k = console.run THEN [console EXCEPT !.status = "closed"]
                                     ELSE console
    /\ UNCHANGED changes

-----------------------------------------------------------------------------
(* The socket *)

\* The upgrade request presents the ticket; the browser sends it even if the
\* page has closed the socket meanwhile.
Upgrade(k) ==
    /\ runs[k].ticket # NoId /\ runs[k].pc \in {"connecting", "over"}
    /\ Consume(k)
    /\ sockets'[k].asked = runs[k].ticket
    /\ UNCHANGED <<portal, changes>>

\* onopen; the guard closes a socket that is not the console's.
OnOpen(k) ==
    /\ runs[k].pc = "connecting" /\ HasTicket(k)
    /\ IF k # console.run \/ console.ws # k
       THEN runs' = [runs EXCEPT ![k].pc = "over"] /\ UNCHANGED console
       ELSE /\ runs' = [runs EXCEPT ![k].pc = "open"]
            /\ console' = [console EXCEPT !.status = "open"]
    /\ UNCHANGED <<server, changes>>

\* onclose: the upgrade was refused, the session is over, or the link is lost.
OnClose(k) ==
    /\ runs[k].pc \in {"connecting", "open"}
    /\ runs' = [runs EXCEPT ![k].pc = "over"]
    /\ console' = IF k # console.run \/ console.ws # k THEN console
                  ELSE [console EXCEPT !.status = "closed", !.ws = NoRun]
    /\ UNCHANGED <<server, changes>>

\* Another client presents a ticket it has seen.
Stranger(s) ==
    /\ runs[s].pc = "unused"
    /\ Consume(s)
    /\ tickets[sockets'[s].asked].st # "unminted"
    /\ UNCHANGED <<portal, changes>>

-----------------------------------------------------------------------------
ServerSteps ==
    /\ \/ Tick \/ Restart
       \/ \E s \in Sockets : Bridge(s) \/ End(s)
    /\ UNCHANGED <<portal, changes>>

RowChanges ==
    /\ changes < MaxChanges
    /\ HostChanges
    /\ changes' = changes + 1
    /\ UNCHANGED portal

NextConsole ==
    \/ Mount \/ Unmount \/ Polled \/ SetMode \/ Reconnect
    \/ ServerSteps \/ RowChanges
    \/ \E k \in Sockets :
         \/ Serve(k) \/ ServerMints(k) \/ Opens(k) \/ ConnectFails(k)
         \/ SessionExpires(k)
         \/ Upgrade(k) \/ OnOpen(k) \/ OnClose(k) \/ Stranger(k)

SpecConsole == InitConsole /\ [][NextConsole]_allVars

-----------------------------------------------------------------------------
(* Properties *)

\* A live browser socket is the one on screen: switching paths, reconnecting
\* or leaving the tab never leaves a shell open behind the page, wherever
\* connect() was waiting.
OneLiveSocket ==
    \A k \in Sockets : runs[k].pc \in {"connecting", "open"} =>
        k = console.run /\ k = console.ws

\* What the console says of its connection is true of the run on screen, and
\* the path of an open one is its ticket's and one its mode allows: no late
\* event of an earlier session shows through.  It says that it connects for ever
\* only if the login has expired.
ShownIsTrue ==
    console.run # NoRun =>
        LET run == runs[console.run] IN
        /\ console.status = "connecting"
             => run.pc \in {"asking", "served", "minted", "connecting", "expired"}
        /\ console.status = "closed" => run.pc = "over"
        /\ console.status = "open" =>
             /\ run.pc = "open"
             /\ console.shown = tickets[run.ticket].path
             /\ console.mode \in {"auto", console.shown}
=============================================================================

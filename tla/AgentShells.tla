----------------------------- MODULE AgentShells -----------------------------
(***************************************************************************)
(* The Host Console over an Agent: Hub.OpenShell and AgentShell on the     *)
(* Server (internal/inventory/hub.go), the bridge to the browser           *)
(* (internal/terminal/controller.go) and the PTYs of the Agent             *)
(* (cmd/agent/shell.go), multiplexed over the Agent's one WebSocket.       *)
(*                                                                         *)
(* Who runs concurrently: one goroutine per Console; the Server's read     *)
(* loop of each link, which also delivers shell output and blocks while    *)
(* the Console does not read it; the handler that registers a newer link   *)
(* and shuts the older one down; the Agent's reader; one pump per PTY.     *)
(* A WebSocket is a FIFO in each direction until it is cut.  No write has a *)
(* deadline: one to an Agent that takes nothing stays in the call, with    *)
(* conn.mu, and so does one to a browser that does not read.               *)
(*                                                                         *)
(* One Agent: links of different fingerprints share nothing here but h.mu. *)
(***************************************************************************)
EXTENDS Naturals, Sequences, SequencesExt

CONSTANTS
    Links,      \* WebSocket connections of the Agent, each used once
    Shells,     \* Console sessions (a fresh UUID each)
    NoLink,     \* no entry in Hub.agents
    Nobody,     \* the read loop is not delivering output
    MaxOutput,  \* bound on the output messages of all PTYs
    MaxInput    \* bound on the keystrokes of one Console

ASSUME NamesAssumption == NoLink \notin Links /\ Nobody \notin Shells
ASSUME BoundsAssumption == MaxOutput \in Nat /\ MaxInput \in Nat

VARIABLES
    hub,      \* Hub.agents[fingerprint]
    link,     \* each link: the wire and the handlers at its two ends
    down,     \* Server -> Agent messages in flight
    up,       \* Agent -> Server messages in flight
    shell,    \* the Server's side of each Console
    pty,      \* the Agent's side of each Console
    deaf      \* Consoles whose bridge stands in a write to the browser

vars == <<hub, link, down, up, shell, pty, deaf>>

-----------------------------------------------------------------------------
Message == [type: {"open", "opened", "error", "data", "close"}, id: Shells]

Link == [wire: {"unused", "up", "cut"},
         full: BOOLEAN,               \* a write of the Server would block
         \* locking: h.mu is held, and conn.mu of the previous link asked for;
         \* registering: h.mu is held while the previous link is shut down
         server: {"none", "accepted", "locking", "registering", "serving",
                  "exiting", "unregister", "gone"},
         \* drained: closeAll has run, the socket is not closed yet
         agent: {"none", "serving", "drained", "gone"},
         busy: Shells \cup {Nobody},  \* output the read loop is delivering
         victims: SUBSET Shells]      \* shells its shutdown still has to end

Shell == [pc: {"idle", "insert", "write", "wait", "bridged", "done"},
          link: Links \cup {NoLink},
          mapped: BOOLEAN,            \* present in agentConn.shells
          closed: BOOLEAN,            \* closeOnce has run
          pipe: {"open", "closed"},   \* stdoutW
          result: {"none", "ok", "err"},  \* openResult, written at most once
          input: 0..MaxInput]

Pty == [live: BOOLEAN, output: 0..MaxOutput]

Mapped(l) == {s \in Shells : shell[s].mapped /\ shell[s].link = l}

\* h.mu is free: nobody is inside registerAgent.
HubUnlocked == \A l \in Links : link[l].server \notin {"locking", "registering"}

\* agentConn.writeJSON on a wire that is up; on a cut one the bytes are lost
\* or the call fails.
Sent(l, type, s) ==
    IF link[l].wire = "up"
    THEN [down EXCEPT ![l] = Append(@, [type |-> type, id |-> s])] ELSE down

SendUp(l, type, s) ==
    up' = IF link[l].wire = "up"
          THEN [up EXCEPT ![l] = Append(@, [type |-> type, id |-> s])] ELSE up

\* conn.mu of l: whoever writes holds it, and every use of the table takes it.
ConnFree(l) == ~link[l].full

\* Mutant of Teardown: the Agent is not told.
TeardownQuietly(s, sh) ==
    /\ sh.closed \/ ConnFree(sh.link)
    /\ shell' = [shell EXCEPT ![s] =
         [sh EXCEPT !.closed = TRUE, !.mapped = FALSE, !.pipe = "closed"]]
    /\ UNCHANGED down

\* Mutant of Teardown: the pipe stays open.
TeardownKeepsPipe(s, sh) ==
    /\ sh.closed \/ ConnFree(sh.link)
    /\ shell' = [shell EXCEPT ![s] =
         IF sh.closed THEN sh ELSE [sh EXCEPT !.closed = TRUE, !.mapped = FALSE]]
    /\ down' = IF sh.closed THEN down ELSE Sent(sh.link, "close", s)

\* AgentShell.teardown of s, whose record is `sh` just before: once only, it
\* tells the Agent, leaves conn.shells and closes the pipe.  It is one step, at
\* the moment its write gets through; until then its caller and every other
\* caller of the Once wait.
Teardown(s, sh) ==
    /\ sh.closed \/ ConnFree(sh.link)
    /\ shell' = [shell EXCEPT ![s] =
         IF sh.closed THEN sh
         ELSE [sh EXCEPT !.closed = TRUE, !.mapped = FALSE, !.pipe = "closed"]]
    /\ down' = IF sh.closed THEN down ELSE Sent(sh.link, "close", s)

\* AgentShell.failOpen: the first verdict stays.
Verdict(sh, result) == [sh EXCEPT !.result = IF @ = "none" THEN result ELSE @]

SetLink(l, field, value) == link' = [link EXCEPT ![l][field] = value]

-----------------------------------------------------------------------------
Init ==
    /\ hub = NoLink
    /\ link = [l \in Links |-> [wire |-> "unused", full |-> FALSE,
                                server |-> "none", agent |-> "none",
                                busy |-> Nobody, victims |-> {}]]
    /\ down = [l \in Links |-> <<>>]
    /\ up = [l \in Links |-> <<>>]
    /\ shell = [s \in Shells |->
                  [pc |-> "idle", link |-> NoLink, mapped |-> FALSE,
                   closed |-> FALSE, pipe |-> "open", result |-> "none",
                   input |-> 0]]
    /\ deaf = {}
    /\ pty = [s \in Shells |-> [live |-> FALSE, output |-> 0]]

-----------------------------------------------------------------------------
(* Links *)

\* The Agent keeps one connection: it dials again when the last one is closed.
Dial(l) ==
    /\ link[l].wire = "unused"
    /\ \A k \in Links : link[k].agent \in {"none", "gone"}
    /\ link' = [link EXCEPT ![l].wire = "up", ![l].server = "accepted",
                            ![l].agent = "serving"]
    /\ UNCHANGED <<hub, down, up, shell, pty, deaf>>

\* The network drops, or either process ends; a blocked write fails.
Cut(l) ==
    /\ link[l].wire = "up"
    /\ link' = [link EXCEPT ![l].wire = "cut", ![l].full = FALSE]
    /\ UNCHANGED <<hub, down, up, shell, pty, deaf>>

\* The Agent, or the network to it, takes nothing; or takes messages again.
Block(l) ==
    /\ link[l].wire = "up"
    /\ SetLink(l, "full", ~link[l].full)
    /\ UNCHANGED <<hub, down, up, shell, pty, deaf>>

\* agentConn.shutdown of k by the handler of l: the map is emptied first...
Drain(l, k, server) ==
    /\ ConnFree(k)
    /\ link' = [link EXCEPT ![l].server = server, ![l].victims = Mapped(k)]
    /\ shell' = [s \in Shells |->
                   IF s \in Mapped(k) THEN [shell[s] EXCEPT !.mapped = FALSE]
                                      ELSE shell[s]]

\* Mutant of ShutdownOne: conn.mu is not given back first, and the teardown of
\* a shell that is not closed yet waits for it.
ShutdownUnderMu(l) ==
    /\ \E s \in link[l].victims :
         /\ shell[s].closed
         /\ link' = [link EXCEPT ![l].victims = @ \ {s}]
    /\ UNCHANGED <<hub, down, up, shell, pty, deaf>>

\* Mutant of ShutdownOne: the shells are dropped, not torn down.
ShutdownDrops(l) ==
    /\ link[l].victims # {}
    /\ SetLink(l, "victims", {})
    /\ UNCHANGED <<hub, down, up, shell, pty, deaf>>

\* ...then each of its shells gets its verdict and is torn down.
ShutdownOne(l) ==
    /\ \E s \in link[l].victims :
         /\ Teardown(s, Verdict(shell[s], "err"))
         /\ link' = [link EXCEPT ![l].victims = @ \ {s}]
    /\ UNCHANGED <<hub, up, pty, deaf>>

\* registerAgent takes h.mu...
RegisterLock(l) ==
    /\ link[l].server = "accepted"
    /\ HubUnlocked
    /\ SetLink(l, "server", "locking")
    /\ UNCHANGED <<hub, down, up, shell, pty, deaf>>

\* ...shuts the previous connection down...
RegisterBegin(l) ==
    /\ link[l].server = "locking"
    /\ IF hub = NoLink
       THEN SetLink(l, "server", "registering") /\ UNCHANGED shell
       ELSE Drain(l, hub, "registering")
    /\ UNCHANGED <<hub, down, up, pty, deaf>>

\* ...and takes the slot over.
RegisterEnd(l) ==
    /\ link[l].server = "registering"
    /\ link[l].victims = {}
    /\ hub' = l
    /\ SetLink(l, "server", "serving")
    /\ UNCHANGED <<down, up, shell, pty, deaf>>

\* ReadJSON fails on a cut link, with or without having read what was left.
ReadError(l) ==
    /\ link[l].server = "serving"
    /\ link[l].wire = "cut"
    /\ link[l].busy = Nobody
    /\ Drain(l, l, "exiting")
    /\ UNCHANGED <<hub, down, up, pty, deaf>>

Unregister(l) ==
    /\ link[l].server = "exiting"
    /\ link[l].victims = {}
    /\ HubUnlocked
    /\ hub' = IF hub = l THEN NoLink ELSE hub
    /\ SetLink(l, "server", "unregister")
    /\ UNCHANGED <<down, up, shell, pty, deaf>>

\* The first deferred call, the last to run: connection.Close.
CloseSocket(l) ==
    /\ link[l].server = "unregister"
    /\ link' = [link EXCEPT ![l].server = "gone"]
    /\ up' = [up EXCEPT ![l] = <<>>]
    /\ UNCHANGED <<hub, down, shell, pty, deaf>>

-----------------------------------------------------------------------------
(* The Server's read loop *)

\* A message of a shell is next, to be looked up under conn.mu.
Reading(l) ==
    /\ link[l].server = "serving"
    /\ link[l].busy = Nobody
    /\ ConnFree(l)
    /\ up[l] # <<>>

\* handleShellOpened
ReadOpened(l) ==
    /\ Reading(l) /\ Head(up[l]).type = "opened"
    /\ LET s == Head(up[l]).id IN
         shell' = IF shell[s].mapped
                  THEN [shell EXCEPT ![s] = Verdict(@, "ok")] ELSE shell
    /\ up' = [up EXCEPT ![l] = Tail(@)]
    /\ UNCHANGED <<hub, link, down, pty, deaf>>

\* handleShellError
ReadShellError(l) ==
    /\ Reading(l) /\ Head(up[l]).type = "error"
    /\ LET s == Head(up[l]).id IN
         IF shell[s].mapped
         THEN Teardown(s, Verdict([shell[s] EXCEPT !.mapped = FALSE], "err"))
         ELSE UNCHANGED <<shell, down>>
    /\ up' = [up EXCEPT ![l] = Tail(@)]
    /\ UNCHANGED <<hub, link, pty, deaf>>

\* handleShellData: io.Pipe has no buffer, so the loop waits for the Console.
ReadData(l) ==
    /\ Reading(l) /\ Head(up[l]).type = "data"
    /\ LET s == Head(up[l]).id IN
         IF shell[s].mapped /\ ~shell[s].closed
         THEN SetLink(l, "busy", s) ELSE UNCHANGED link
    /\ up' = [up EXCEPT ![l] = Tail(@)]
    /\ UNCHANGED <<hub, down, shell, pty, deaf>>

\* Mutant of ReadClose: the entry goes, the shell is not torn down.
ReadCloseForgets(l) ==
    /\ Reading(l) /\ Head(up[l]).type = "close"
    /\ shell' = [shell EXCEPT ![Head(up[l]).id].mapped = FALSE]
    /\ up' = [up EXCEPT ![l] = Tail(@)]
    /\ UNCHANGED <<hub, link, down, pty, deaf>>

\* handleShellClose: torn down, but nobody tells a waiting OpenShell.
ReadClose(l) ==
    /\ Reading(l) /\ Head(up[l]).type = "close"
    /\ LET s == Head(up[l]).id IN
         IF shell[s].mapped
         THEN Teardown(s, [shell[s] EXCEPT !.mapped = FALSE])
         ELSE UNCHANGED <<shell, down>>
    /\ up' = [up EXCEPT ![l] = Tail(@)]
    /\ UNCHANGED <<hub, link, pty, deaf>>

\* The pipe was closed under the blocked write: writeStdout closes the shell.
WriteAborted(l) ==
    /\ link[l].busy # Nobody
    /\ shell[link[l].busy].pipe = "closed"
    /\ Teardown(link[l].busy, shell[link[l].busy])
    /\ SetLink(l, "busy", Nobody)
    /\ UNCHANGED <<hub, up, pty, deaf>>

-----------------------------------------------------------------------------
(* Consoles: OpenShell, then bridgeStreams *)

Lookup(s) ==
    /\ shell[s].pc = "idle"
    /\ HubUnlocked
    /\ shell' = [shell EXCEPT ![s].link = hub,
                              ![s].pc = IF hub = NoLink THEN "done" ELSE "insert"]
    /\ UNCHANGED <<hub, link, down, up, pty, deaf>>

Insert(s) ==
    /\ shell[s].pc = "insert"
    /\ ConnFree(shell[s].link)
    /\ shell' = [shell EXCEPT ![s].pc = "write", ![s].mapped = TRUE]
    /\ UNCHANGED <<hub, link, down, up, pty, deaf>>

\* shell_open is on the wire, or lost on a link not yet known to be cut.  The
\* timer is started behind it.
WriteOpen(s) ==
    /\ shell[s].pc = "write"
    /\ ConnFree(shell[s].link)
    /\ link[shell[s].link].server # "gone"
    /\ down' = Sent(shell[s].link, "open", s)
    /\ shell' = [shell EXCEPT ![s].pc = "wait"]
    /\ UNCHANGED <<hub, link, up, pty, deaf>>

WriteOpenFails(s) ==
    /\ shell[s].pc = "write"
    /\ link[shell[s].link].wire = "cut"
    /\ shell' = [shell EXCEPT ![s].pc = "done", ![s].mapped = FALSE,
                              ![s].pipe = "closed"]
    /\ UNCHANGED <<hub, link, down, up, pty, deaf>>

Opened(s) ==
    /\ shell[s].pc = "wait"
    /\ shell[s].result = "ok"
    /\ shell' = [shell EXCEPT ![s].pc = "bridged"]
    /\ UNCHANGED <<hub, link, down, up, pty, deaf>>

Refused(s) ==
    /\ shell[s].pc = "wait"
    /\ shell[s].result = "err"
    /\ Teardown(s, [shell[s] EXCEPT !.pc = "done"])
    /\ UNCHANGED <<hub, link, up, pty, deaf>>

\* Mutant of GiveUp: no timer; only a request that is gone gives up.
GiveUpWithRequest(s) ==
    /\ shell[s].pc = "wait"
    /\ shell[s].closed
    /\ Teardown(s, [shell[s] EXCEPT !.pc = "done"])
    /\ UNCHANGED <<hub, link, up, pty, deaf>>

\* The 15 s timer or the request's context, at any moment of the wait, also
\* when the verdict has just come.
GiveUp(s) ==
    /\ shell[s].pc = "wait"
    /\ Teardown(s, [shell[s] EXCEPT !.pc = "done"])
    /\ UNCHANGED <<hub, link, up, pty, deaf>>

\* The bridge reads output and writes it to the browser, which may not read.
ReadOutput(s) ==
    /\ shell[s].pc = "bridged"
    /\ shell[s].pipe = "open"
    /\ s \notin deaf
    /\ \E l \in Links :
         /\ link[l].busy = s
         /\ SetLink(l, "busy", Nobody)
    /\ deaf' \in {deaf, deaf \cup {s}}
    /\ UNCHANGED <<hub, down, up, shell, pty>>

\* The browser takes what the bridge stands writing.
BrowserReads(s) ==
    /\ s \in deaf
    /\ deaf' = deaf \ {s}
    /\ UNCHANGED <<hub, link, down, up, shell, pty>>

\* A keystroke: AgentShell.Write.
Input(s) ==
    /\ shell[s].pc = "bridged"
    /\ ~shell[s].closed
    /\ ConnFree(shell[s].link)
    /\ shell[s].input < MaxInput
    /\ down' = Sent(shell[s].link, "data", s)
    /\ shell' = [shell EXCEPT ![s].input = @ + 1]
    /\ UNCHANGED <<hub, link, up, pty, deaf>>

\* The browser goes away, or a write to the Agent fails; bridgeAgent's deferred
\* Close.  The other half of the bridge may stand in a write to the browser.
Leave(s) ==
    /\ shell[s].pc = "bridged"
    /\ Teardown(s, [shell[s] EXCEPT !.pc = "done"])
    /\ deaf' = deaf \ {s}
    /\ UNCHANGED <<hub, link, up, pty>>

\* The bridge reads EOF or the error the pipe was closed with.
EndOfOutput(s) ==
    /\ shell[s].pc = "bridged"
    /\ shell[s].pipe = "closed"
    /\ s \notin deaf
    /\ Teardown(s, [shell[s] EXCEPT !.pc = "done"])
    /\ UNCHANGED <<hub, link, up, pty, deaf>>

-----------------------------------------------------------------------------
(* The Agent *)

AgentReading(l) == link[l].agent \in {"serving", "drained"} /\ down[l] # <<>>

\* Mutant of AgentOpen: output may overtake shell_opened.
AgentOpenPumpsFirst(l) ==
    /\ AgentReading(l) /\ Head(down[l]).type = "open"
    /\ LET s == Head(down[l]).id IN
         /\ pty' = [pty EXCEPT ![s].live = TRUE]
         /\ up' = IF link[l].wire = "up"
                  THEN [up EXCEPT ![l] = @ \o <<[type |-> "data", id |-> s],
                                                [type |-> "opened", id |-> s]>>]
                  ELSE up
    /\ down' = [down EXCEPT ![l] = Tail(@)]
    /\ UNCHANGED <<hub, link, shell, deaf>>

\* shellManager.open: the PTY starts, shell_opened is written, and only then
\* do the pump and the waiter run.
AgentOpen(l) ==
    /\ AgentReading(l) /\ Head(down[l]).type = "open"
    /\ LET s == Head(down[l]).id IN
         \/ /\ pty' = [pty EXCEPT ![s].live = TRUE]
            /\ SendUp(l, "opened", s)
         \/ /\ SendUp(l, "error", s)  \* pty.Start fails
            /\ UNCHANGED pty
         \/ /\ link[l].wire = "cut"   \* the write of shell_opened fails
            /\ UNCHANGED <<pty, up>>
    /\ down' = [down EXCEPT ![l] = Tail(@)]
    /\ UNCHANGED <<hub, link, shell, deaf>>

Outputs == FoldFunction(LAMBDA p, n : p.output + n, 0, pty)

\* closeShell(id, true) of a live PTY: the pump may still send the output it had
\* read, behind the shell_close.
CloseShell(l, s) ==
    \E late \in {0, 1} :
        /\ Outputs + late <= MaxOutput
        /\ pty' = [pty EXCEPT ![s] = [live |-> FALSE, output |-> @.output + late]]
        /\ up' = IF link[l].wire # "up" THEN up
                 ELSE [up EXCEPT ![l] =
                        Append(@, [type |-> "close", id |-> s])
                          \o [i \in 1..late |-> [type |-> "data", id |-> s]]]

\* shellManager.write; writing to a dying PTY closes it and tells the Server.
AgentInput(l) ==
    /\ AgentReading(l) /\ Head(down[l]).type = "data"
    /\ LET s == Head(down[l]).id IN
         \/ UNCHANGED <<pty, up>>
         \/ pty[s].live /\ CloseShell(l, s)
    /\ down' = [down EXCEPT ![l] = Tail(@)]
    /\ UNCHANGED <<hub, link, shell, deaf>>

\* closeShell(id, false).  What the pump may still send of a session the Server
\* has closed is dropped there, and left out here.
AgentClose(l) ==
    /\ AgentReading(l) /\ Head(down[l]).type = "close"
    /\ pty' = [pty EXCEPT ![Head(down[l]).id].live = FALSE]
    /\ down' = [down EXCEPT ![l] = Tail(@)]
    /\ UNCHANGED <<hub, link, up, shell, deaf>>

\* pumpStdout forwards output.
PtyOutput(s) ==
    /\ pty[s].live
    /\ Outputs < MaxOutput
    /\ pty' = [pty EXCEPT ![s].output = @ + 1]
    /\ SendUp(shell[s].link, "data", s)
    /\ UNCHANGED <<hub, link, down, shell, deaf>>

\* The shell process exits: the pump or the waiter, whichever is first, closes
\* the session and tells the Server.
PtyExit(s) ==
    /\ pty[s].live
    /\ CloseShell(shell[s].link, s)
    /\ UNCHANGED <<hub, link, down, shell, deaf>>

\* handleConnection returns: deferred closeAll.
AgentDrain(l) ==
    /\ link[l].agent = "serving"
    /\ link[l].wire = "cut"
    /\ SetLink(l, "agent", "drained")
    /\ pty' = [s \in Shells |->
                 IF shell[s].link = l THEN [pty[s] EXCEPT !.live = FALSE]
                                      ELSE pty[s]]
    /\ UNCHANGED <<hub, down, up, shell, deaf>>

\* connection.Close in main's loop; the reader goroutine ends.
AgentHangUp(l) ==
    /\ link[l].agent = "drained"
    /\ SetLink(l, "agent", "gone")
    /\ down' = [down EXCEPT ![l] = <<>>]
    /\ UNCHANGED <<hub, up, shell, pty, deaf>>

-----------------------------------------------------------------------------
Handler(l) ==
    \/ RegisterLock(l) \/ RegisterBegin(l) \/ RegisterEnd(l) \/ ShutdownOne(l)
    \/ ReadOpened(l) \/ ReadShellError(l) \/ ReadData(l) \/ ReadClose(l)
    \/ WriteAborted(l)
    \/ ReadError(l) \/ Unregister(l) \/ CloseSocket(l)

Console(s) ==
    \/ Lookup(s) \/ Insert(s) \/ WriteOpen(s) \/ WriteOpenFails(s)
    \/ Opened(s) \/ Refused(s) \/ GiveUp(s)
    \/ ReadOutput(s) \/ BrowserReads(s) \/ Input(s) \/ Leave(s) \/ EndOfOutput(s)

AgentReader(l) == AgentOpen(l) \/ AgentInput(l) \/ AgentClose(l)

Agent ==
    \/ \E l \in Links : AgentReader(l) \/ AgentDrain(l) \/ AgentHangUp(l)
    \/ \E s \in Shells : PtyOutput(s) \/ PtyExit(s)

Next ==
    \/ \E l \in Links : Dial(l) \/ Cut(l) \/ Block(l) \/ Handler(l)
    \/ \E s \in Shells : Console(s)
    \/ Agent

Spec == Init /\ [][Next]_vars

\* The Server's goroutines that can run do run, and the timer fires.  No link
\* need drop or take messages again, no Agent need read, no browser need read or
\* leave, no PTY need exit.
Fairness ==
    /\ \A l \in Links : WF_vars(Handler(l))
    /\ \A s \in Shells :
         /\ WF_vars(Insert(s)) /\ WF_vars(WriteOpen(s) \/ WriteOpenFails(s))
         /\ WF_vars(Opened(s) \/ Refused(s) \/ GiveUp(s))
         /\ WF_vars(ReadOutput(s)) /\ WF_vars(EndOfOutput(s))

FairSpec == Spec /\ Fairness

-----------------------------------------------------------------------------
(* Properties *)

TypeOK ==
    /\ hub \in Links \cup {NoLink}
    /\ link \in [Links -> Link]
    /\ \A l \in Links : down[l] \in Seq(Message) /\ up[l] \in Seq(Message)
    /\ shell \in [Shells -> Shell]
    /\ pty \in [Shells -> Pty]
    /\ deaf \subseteq Shells

InFlight(queue, s) == \E m \in ToSet(queue) : m.id = s

\* However a Console ends - refused, timed out, left, output or PTY gone - no
\* PTY stays behind it on a working link that holds the hub's slot: once the
\* Agent has read what was sent, the shell process is gone.  (A link that lost
\* its slot while its wire was up is left out: a shutdown that overtakes a
\* pending shell_open sends shell_close first.)
NoOrphanPty ==
    \A s \in Shells :
        (/\ shell[s].pc = "done" /\ shell[s].link # NoLink
         /\ hub = shell[s].link /\ HubUnlocked
         /\ link[shell[s].link].wire = "up"
         /\ ~InFlight(down[shell[s].link], s)) => ~pty[s].live

\* A finished Console leaves no entry in the connection's table, so late
\* messages for it find nothing.
NoLeakedShell == \A s \in Shells : shell[s].pc = "done" => ~shell[s].mapped

\* A Console that is over leaves nothing at either end.
NothingLeftBehind == NoOrphanPty /\ NoLeakedShell

\* The read loop, which carries every Console and the heartbeats of the Agent,
\* never waits on a Console that has not yet had its verdict and so cannot
\* read.
BlocksOnlyOnOpened ==
    \A l \in Links : link[l].busy # Nobody => shell[link[l].busy].result = "ok"

\* A Console that believes it works has a handler behind its link: none
\* survives the exit of the read loop that fed it, whether its entry was made
\* before or after that exit emptied the table, or was taken over by the
\* shutdown of a newer link.
NoConsoleOnDeadLink ==
    \A s \in Shells :
        (shell[s].pc = "bridged" /\ ~shell[s].closed)
            => link[shell[s].link].server \in {"serving", "exiting"}

\* What the properties below ask of the peers: from some time on no write of the
\* Server to this link blocks, and no bridge stands writing to its browser.
WritesEnd(l) == <>[]ConnFree(l)
AllWritesEnd == \A l \in Links : WritesEnd(l)
BrowsersRead == \A s \in Shells : <>[](s \notin deaf)

\* OpenShell returns, the wait for conn.mu and the write before its timer
\* included, unless the writes of its own link block for ever.
EveryOpenAnswered ==
    \A s \in Shells, l \in Links :
        WritesEnd(l) =>
            (shell[s].pc \in {"insert", "write", "wait"} /\ shell[s].link = l
               ~> shell[s].pc \in {"bridged", "done"})

\* A read loop held up by one Console's output gets free again, unless the
\* browser never reads and never leaves: the Console reads, or ends and closes
\* the pipe under the write.
ReadLoopFreed ==
    AllWritesEnd /\ BrowsersRead =>
        \A l \in Links : link[l].busy # Nobody ~> link[l].busy = Nobody

\* registerAgent gives h.mu back, which every OpenShell takes, though it writes
\* to the connection it replaces while it holds it.
HubLockReleased ==
    AllWritesEnd => (~HubUnlocked ~> HubUnlocked)

\* Exiting the remote shell ends the Console, unless its link is lost first -
\* which ends it too.
PtyExitEndsConsole ==
    AllWritesEnd /\ BrowsersRead =>
        \A s \in Shells :
            (shell[s].pc = "bridged" /\ ~pty[s].live) ~> shell[s].pc = "done"

\* A lost link ends every Console it carried.
CutEndsConsoles ==
    BrowsersRead =>
        \A s \in Shells :
            (shell[s].link # NoLink /\ link[shell[s].link].wire = "cut")
                ~> shell[s].pc = "done"

\* "agent shell open timed out": an OpenShell that got as far as its connection
\* is answered in any case.
OpenTimesOut ==
    \A s \in Shells :
        shell[s].pc \in {"insert", "write", "wait"}
            ~> shell[s].pc \in {"bridged", "done"}

\* The heartbeats behind a Console's output are read in any case.
ReadLoopNeverHeld ==
    \A l \in Links : link[l].busy # Nobody ~> link[l].busy = Nobody
=============================================================================

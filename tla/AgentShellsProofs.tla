-------------------------- MODULE AgentShellsProofs --------------------------
(***************************************************************************)
(* What a Console over an Agent may rely on, for any number of links and   *)
(* Consoles.  The read loop of a link, the handler of a newer link that    *)
(* shuts it down, the Console and the Agent see each other only through    *)
(* the shell's fields and two queues, so the invariant says, for every     *)
(* message in flight, what its arrival will find.                          *)
(*                                                                         *)
(* TypeOK bounds each PTY's output by MaxOutput, which the actions keep by *)
(* a sum over all PTYs; ShellTypes has Nat instead.                        *)
(***************************************************************************)
EXTENDS AgentShells, TLAPS

ShellTypes ==
    /\ hub \in Links \cup {NoLink}
    /\ link \in [Links -> Link]
    /\ down \in [Links -> Seq(Message)]
    /\ up \in [Links -> Seq(Message)]
    /\ shell \in [Shells -> Shell]
    /\ pty \in [Shells -> [live: BOOLEAN, output: Nat]]

\* The stages a link's handler goes through.
LinkStages ==
    \A l \in Links :
        /\ hub = l => link[l].server \in {"serving", "exiting"}
        /\ link[l].server \in {"exiting", "unregister", "gone"} => link[l].wire = "cut"
        /\ link[l].wire = "unused" => link[l].server = "none"
        /\ link[l].agent = "drained" => link[l].wire = "cut"
        /\ link[l].victims # {} => link[l].server \in {"registering", "exiting"}

\* No shell_open has left for this Console.
Unsent(s) == shell[s].pc \in {"idle", "insert", "write"} \/ shell[s].link = NoLink

\* Not in any connection's table so far.
Unlisted(s) == shell[s].pc \in {"idle", "insert"} \/ shell[s].link = NoLink

\* How the fields of a Console belong together.
ShellStages ==
    \A s \in Shells :
        /\ shell[s].pc = "idle" => shell[s].link = NoLink
        /\ shell[s].link = NoLink => shell[s].pc \in {"idle", "done"}
        /\ shell[s].link # NoLink =>
             link[shell[s].link].server \in {"serving", "exiting", "unregister", "gone"}
        /\ Unlisted(s) =>
             ~shell[s].mapped /\ ~shell[s].closed /\ shell[s].result = "none"
        /\ Unsent(s) => shell[s].result # "ok" /\ ~pty[s].live
        /\ shell[s].closed \/ shell[s].pc = "done" => ~shell[s].mapped
        /\ shell[s].mapped => shell[s].result # "err"
        /\ shell[s].pc = "bridged" => shell[s].result = "ok"
        /\ shell[s].pc = "done" /\ ~shell[s].closed /\ shell[s].link # NoLink =>
             link[shell[s].link].wire = "cut"

\* A shell that works is in the table its link's read loop serves, or is about
\* to be torn down by the handler that emptied that table.
Attended ==
    \A s \in Shells : shell[s].result = "ok" /\ ~shell[s].closed =>
        \/ shell[s].mapped /\ link[shell[s].link].server = "serving"
        \/ \E k \in Links : s \in link[k].victims

\* A victim of a handler's own exit is of its own link; one of a newer link's
\* is of a link that cannot unregister before.
Victims ==
    \A k \in Links : \A s \in link[k].victims :
        /\ ~Unlisted(s)
        /\ link[k].server = "exiting" => shell[s].link = k
        /\ link[k].server = "registering" =>
             link[shell[s].link].server \in {"serving", "exiting"}

Opens(q, s, n) == \E j \in 1..n : q[j].type = "opened" /\ q[j].id = s

\* Messages to the Agent are those of Consoles of this link.
DownFits(l, m) ==
    /\ shell[m.id].link = l /\ ~Unlisted(m.id)
    /\ m.type # "close" => ~Unsent(m.id)

DownMessages ==
    \A l \in Links : \A i \in 1..Len(down[l]) : DownFits(l, down[l][i])

\* So are those from it, and output comes behind shell_opened, which is among
\* the n messages before it.
UpFits(l, m, n) ==
    /\ shell[m.id].link = l /\ ~Unsent(m.id)
    /\ m.type = "data" /\ shell[m.id].mapped =>
         shell[m.id].result = "ok" \/ Opens(up[l], m.id, n)

UpMessages ==
    \A l \in Links : \A i \in 1..Len(up[l]) : UpFits(l, up[l][i], i - 1)

\* A PTY runs only behind its shell_opened.
PtyAnnounced ==
    \A s \in Shells :
        LET l == shell[s].link
        IN pty[s].live /\ shell[s].mapped /\ link[l].wire = "up" =>
             shell[s].result = "ok" \/ Opens(up[l], s, Len(up[l]))

\* The link holds the hub's slot, and nobody is taking it over.
Holds(l) == hub = l /\ HubUnlocked /\ link[l].wire = "up"

Closes(q, s, n) == \E j \in n..Len(q) : q[j].type = "close" /\ q[j].id = s

OpensAreClosed(q, s) ==
    \A i \in 1..Len(q) : q[i].type = "open" /\ q[i].id = s => Closes(q, s, i)

\* On such a link the shell_close of a torn down shell is behind its shell_open,
\* and in flight as long as its PTY runs.
ClosesFollow ==
    \A s \in Shells, l \in Links :
        shell[s].link = l /\ Holds(l) /\ shell[s].closed =>
            /\ shell[s].pc # "write"
            /\ OpensAreClosed(down[l], s)
            /\ pty[s].live => Closes(down[l], s, 1)

ShellInvariant ==
    /\ ShellTypes
    /\ LinkStages
    /\ ShellStages
    /\ Attended
    /\ Victims
    /\ BlocksOnlyOnOpened
    /\ DownMessages
    /\ UpMessages
    /\ PtyAnnounced
    /\ ClosesFollow

-----------------------------------------------------------------------------
(* Links and Consoles, one record at a time *)

\* A change of one field of one link.
LEMMA LinkField ==
    ASSUME link \in [Links -> Link], NEW l \in Links
    PROVE  /\ \A v \in {"unused", "up", "cut"} : SetLink(l, "wire", v) =>
                link' \in [Links -> Link] /\ link' = [link EXCEPT ![l].wire = v]
           /\ \A v \in {"locking", "registering", "serving", "unregister", "gone"} :
                SetLink(l, "server", v) =>
                link' \in [Links -> Link] /\ link' = [link EXCEPT ![l].server = v]
           /\ \A v \in {"drained", "gone"} : SetLink(l, "agent", v) =>
                link' \in [Links -> Link] /\ link' = [link EXCEPT ![l].agent = v]
           /\ \A v \in Shells \cup {Nobody} : SetLink(l, "busy", v) =>
                link' \in [Links -> Link] /\ link' = [link EXCEPT ![l].busy = v]
           /\ \A v \in BOOLEAN : SetLink(l, "full", v) =>
                link' \in [Links -> Link] /\ link' = [link EXCEPT ![l].full = v]
BY DEF SetLink, Link

\* What may be said in either direction.
Types == {"open", "opened", "error", "data", "close"}

\* A message is added at the end, or lost on a wire that is not up.
LEMMA SentTo ==
    ASSUME ShellTypes, NEW l \in Links, NEW t \in Types, NEW s \in Shells
    PROVE  /\ Sent(l, t, s) \in [Links -> Seq(Message)]
           /\ \A k \in Links \ {l} : Sent(l, t, s)[k] = down[k]
           /\ link[l].wire = "up" =>
                Sent(l, t, s)[l] = Append(down[l], [type |-> t, id |-> s])
           /\ link[l].wire # "up" => Sent(l, t, s) = down
<1>1. [type |-> t, id |-> s] \in Message
  BY DEF Types, Message
<1>2. Append(down[l], [type |-> t, id |-> s]) \in Seq(Message)
  BY <1>1 DEF ShellTypes
<1> QED BY <1>2 DEF Sent, ShellTypes

\* The same of a message to the Server.
LEMMA SentUp ==
    ASSUME ShellTypes, NEW l \in Links, NEW t \in Types, NEW s \in Shells,
           SendUp(l, t, s)
    PROVE  /\ up' \in [Links -> Seq(Message)]
           /\ \A k \in Links \ {l} : up'[k] = up[k]
           /\ link[l].wire = "up" => up'[l] = Append(up[l], [type |-> t, id |-> s])
           /\ link[l].wire # "up" => up' = up
<1>1. [type |-> t, id |-> s] \in Message
  BY DEF Types, Message
<1>2. Append(up[l], [type |-> t, id |-> s]) \in Seq(Message)
  BY <1>1 DEF ShellTypes
<1> QED BY <1>2 DEF SendUp, ShellTypes

\* closeShell(id, true): shell_close, and the last output behind it if any.
LEMMA CloseShellSends ==
    ASSUME ShellTypes, NEW l \in Links, NEW s \in Shells, CloseShell(l, s)
    PROVE  /\ up' \in [Links -> Seq(Message)]
           /\ \A k \in Links \ {l} : up'[k] = up[k]
           /\ \/ up'[l] = up[l]
              \/ up'[l] = Append(up[l], [type |-> "close", id |-> s])
              \/ up'[l] = Append(Append(up[l], [type |-> "close", id |-> s]),
                                 [type |-> "data", id |-> s])
           /\ link[l].wire # "up" => up' = up
           /\ pty' \in [Shells -> [live: BOOLEAN, output: Nat]]
           /\ \A r \in Shells : pty'[r].live => pty[r].live /\ r # s
<1>1. PICK late \in {0, 1} :
        /\ pty' = [pty EXCEPT ![s] = [live |-> FALSE, output |-> @.output + late]]
        /\ up' = IF link[l].wire # "up" THEN up
                 ELSE [up EXCEPT ![l] =
                        Append(@, [type |-> "close", id |-> s])
                          \o [i \in 1..late |-> [type |-> "data", id |-> s]]]
  BY DEF CloseShell
<1> DEFINE c == [type |-> "close", id |-> s]
           d == [type |-> "data", id |-> s]
           q == Append(up[l], c)
<1>2. c \in Message /\ d \in Message
  BY DEF Message
<1> HIDE DEF c, d
<1>3. q \in Seq(Message)
  BY <1>2 DEF ShellTypes
<1>4. q \o [i \in 1..0 |-> d] = q
  <2> HIDE DEF q
  <2>1. [i \in 1..0 |-> d] \in Seq(Message) /\ Len([i \in 1..0 |-> d]) = 0
    BY <1>2
  <2> QED BY <1>3, <2>1
<1>5. q \o [i \in 1..1 |-> d] = Append(q, d) /\ Append(q, d) \in Seq(Message)
  <2> HIDE DEF q
  <2>1. [i \in 1..1 |-> d] = <<d>>
    OBVIOUS
  <2> QED BY <1>2, <1>3, <2>1
<1>6. late = 0 \/ late = 1
  OBVIOUS
<1>7. /\ up' \in [Links -> Seq(Message)]
      /\ \A k \in Links \ {l} : up'[k] = up[k]
      /\ up'[l] = up[l] \/ up'[l] = q \/ up'[l] = Append(q, d)
      /\ link[l].wire # "up" => up' = up
  <2> HIDE DEF q
  <2>1. up \in [Links -> Seq(Message)] BY DEF ShellTypes
  <2>2. CASE link[l].wire # "up" BY <1>1, <2>1, <2>2
  <2>3. CASE link[l].wire = "up"
    <3>1. up' = [up EXCEPT ![l] = q \o [i \in 1..late |-> d]]
      BY <1>1, <2>3 DEF q, c, d
    <3>2. q \o [i \in 1..late |-> d] = q \/ q \o [i \in 1..late |-> d] = Append(q, d)
      BY <1>4, <1>5, <1>6
    <3> HIDE DEF d
    <3> QED BY <1>3, <1>5, <2>1, <2>3, <3>1, <3>2
  <2> QED BY <2>2, <2>3
<1>8. /\ pty' \in [Shells -> [live: BOOLEAN, output: Nat]]
      /\ \A r \in Shells : pty'[r].live => pty[r].live /\ r # s
  BY <1>1, <1>6 DEF ShellTypes
<1> QED BY <1>7, <1>8 DEF c, d

-----------------------------------------------------------------------------
(* The kinds of steps, by what they do to the shells *)

\* The read loop of l takes a message that does not open a shell.
Takes(l) ==
    /\ link[l].server = "serving"
    /\ up[l] # <<>> /\ Head(up[l]).type # "opened"
    /\ up' = [up EXCEPT ![l] = Tail(@)]

\* Any of the ways a shell is torn down, for the first time or again.
CloseStep(s) ==
    /\ ~Unlisted(s) /\ (shell[s].pc = "write" => ~Holds(shell[s].link))
    /\ hub' = hub /\ pty' = pty
    /\ shell' \in [Shells -> Shell]
    /\ \A r \in Shells \ {s} : shell'[r] = shell[r]
    /\ shell'[s].link = shell[s].link /\ shell'[s].closed /\ ~shell'[s].mapped
    /\ \/ shell'[s].pc = shell[s].pc
       \/ shell[s].pc \in {"wait", "bridged"} /\ shell'[s].pc = "done"
    /\ \/ shell'[s].result = shell[s].result
       \/ shell[s].result = "none" /\ shell'[s].result = "err"
    /\ down' = IF shell[s].closed THEN down ELSE Sent(shell[s].link, "close", s)
    /\ link' \in [Links -> Link]
    /\ \A l \in Links :
         /\ link'[l].wire = link[l].wire /\ link'[l].server = link[l].server
         /\ link'[l].agent = link[l].agent
         /\ link'[l].victims \subseteq link[l].victims
         /\ link[l].victims \ {s} \subseteq link'[l].victims
         /\ link'[l].busy \in {link[l].busy, Nobody}
    /\ up' = up \/ \E l \in Links : Takes(l)

\* What teardown does, given the record it starts from.
LEMMA TeardownEnds ==
    ASSUME ShellTypes, NEW s \in Shells, NEW sh \in Shell, Teardown(s, sh),
           sh.closed => ~sh.mapped
    PROVE  /\ shell' \in [Shells -> Shell]
           /\ \A r \in Shells \ {s} : shell'[r] = shell[r]
           /\ shell'[s].closed /\ ~shell'[s].mapped
           /\ shell'[s].pc = sh.pc /\ shell'[s].link = sh.link
           /\ shell'[s].result = sh.result
           /\ down' = IF sh.closed THEN down ELSE Sent(sh.link, "close", s)
<1> DEFINE n == [sh EXCEPT !.closed = TRUE, !.mapped = FALSE, !.pipe = "closed"]
<1>1. /\ n \in Shell /\ n.closed /\ ~n.mapped
      /\ n.pc = sh.pc /\ n.link = sh.link /\ n.result = sh.result
  BY DEF Shell
<1>2. shell' = [shell EXCEPT ![s] = IF sh.closed THEN sh ELSE n]
  BY DEF Teardown
<1> HIDE DEF n
<1>3. down' = IF sh.closed THEN down ELSE Sent(sh.link, "close", s)
  BY DEF Teardown
<1>4. shell \in [Shells -> Shell]
  BY DEF ShellTypes
<1> QED BY <1>1, <1>2, <1>3, <1>4

\* A verdict changes the result, once, and nothing else.
LEMMA VerdictOf ==
    ASSUME NEW sh \in Shell, NEW v \in {"ok", "err"}
    PROVE  LET n == Verdict(sh, v)
           IN /\ n \in Shell
              /\ n.pc = sh.pc /\ n.link = sh.link
              /\ n.mapped = sh.mapped /\ n.closed = sh.closed
              /\ n.result = IF sh.result = "none" THEN v ELSE sh.result
BY DEF Verdict, Shell

\* A message that was read is gone.
LEMMA HeadTaken ==
    ASSUME ShellTypes, NEW l \in Links, up[l] # <<>>
    PROVE  Head(up[l]) \in Message /\ Head(up[l]).id \in Shells
<1>1. up[l] \in Seq(Message)
  BY DEF ShellTypes
<1>2. Head(up[l]) \in Message
  BY <1>1
<1> QED BY <1>2 DEF Message

\* All eight are of the kind.
LEMMA CloseSteps ==
    ASSUME ShellInvariant,
           \/ \E l \in Links : ShutdownOne(l) \/ WriteAborted(l)
           \/ \E l \in Links :
                (ReadShellError(l) \/ ReadClose(l)) /\ shell[Head(up[l]).id].mapped
           \/ \E s \in Shells : Refused(s) \/ GiveUp(s) \/ Leave(s) \/ EndOfOutput(s)
    PROVE  \E s \in Shells : CloseStep(s)
<1>0. /\ ShellTypes /\ shell \in [Shells -> Shell] /\ link \in [Links -> Link]
      /\ \A s \in Shells : shell[s] \in Shell
      /\ \A s \in Shells : shell[s].closed => ~shell[s].mapped
      /\ NoLink \notin Links /\ Nobody \notin Shells
  BY NamesAssumption DEF ShellInvariant, ShellTypes, ShellStages
<1>1. ASSUME NEW l \in Links, ShutdownOne(l) PROVE \E s \in Shells : CloseStep(s)
  <2>1. PICK s \in link[l].victims :
          /\ Teardown(s, Verdict(shell[s], "err"))
          /\ link' = [link EXCEPT ![l].victims = @ \ {s}]
    BY <1>1 DEF ShutdownOne
  <2>2. s \in Shells /\ ~Unlisted(s)
    BY <1>0, <2>1 DEF Link, ShellInvariant, Victims
  <2>6. ~Holds(shell[s].link)
    <3>1. link[l].server \in {"registering", "exiting"}
      BY <2>1 DEF ShellInvariant, LinkStages
    <3>2. CASE link[l].server = "registering"
      BY <3>2 DEF Holds, HubUnlocked
    <3>3. CASE link[l].server = "exiting"
      <4>1. shell[s].link = l /\ link[l].wire = "cut"
        BY <2>1, <3>3 DEF ShellInvariant, Victims, LinkStages
      <4> QED BY <4>1 DEF Holds
    <3> QED BY <3>1, <3>2, <3>3
  <2>3. /\ Verdict(shell[s], "err") \in Shell
        /\ Verdict(shell[s], "err").pc = shell[s].pc
        /\ Verdict(shell[s], "err").link = shell[s].link
        /\ Verdict(shell[s], "err").mapped = shell[s].mapped
        /\ Verdict(shell[s], "err").closed = shell[s].closed
        /\ Verdict(shell[s], "err").result =
             IF shell[s].result = "none" THEN "err" ELSE shell[s].result
    BY <1>0, <2>2, VerdictOf
  <2>4. /\ shell' \in [Shells -> Shell]
        /\ \A r \in Shells \ {s} : shell'[r] = shell[r]
        /\ shell'[s].closed /\ ~shell'[s].mapped
        /\ shell'[s].pc = shell[s].pc /\ shell'[s].link = shell[s].link
        /\ shell'[s].result = IF shell[s].result = "none" THEN "err" ELSE shell[s].result
        /\ down' = IF shell[s].closed THEN down ELSE Sent(shell[s].link, "close", s)
    BY <1>0, <2>1, <2>2, <2>3, TeardownEnds
  <2>5. /\ link' \in [Links -> Link]
        /\ \A k \in Links :
             /\ link'[k].wire = link[k].wire /\ link'[k].server = link[k].server
             /\ link'[k].agent = link[k].agent
             /\ link'[k].victims \subseteq link[k].victims
             /\ link[k].victims \ {s} \subseteq link'[k].victims
             /\ link'[k].busy \in {link[k].busy, Nobody}
    BY <1>0, <2>1 DEF Link
  <2> QED BY <1>1, <2>2, <2>4, <2>5, <2>6 DEF CloseStep, ShutdownOne
<1>2. ASSUME NEW l \in Links, WriteAborted(l) PROVE \E s \in Shells : CloseStep(s)
  <2> DEFINE s == link[l].busy
  <2>1. s \in Shells /\ shell[s].result = "ok"
    BY <1>0, <1>2 DEF WriteAborted, Link, ShellInvariant, BlocksOnlyOnOpened
  <2>2. ~Unlisted(s) /\ shell[s].pc # "write"
    BY <2>1 DEF ShellInvariant, ShellStages, Unsent
  <2>3. Teardown(s, shell[s]) /\ SetLink(l, "busy", Nobody) /\ UNCHANGED <<hub, up, pty>>
    BY <1>2 DEF WriteAborted
  <2> HIDE DEF s
  <2>4. /\ shell' \in [Shells -> Shell]
        /\ \A r \in Shells \ {s} : shell'[r] = shell[r]
        /\ shell'[s].closed /\ ~shell'[s].mapped
        /\ shell'[s].pc = shell[s].pc /\ shell'[s].link = shell[s].link
        /\ shell'[s].result = shell[s].result
        /\ down' = IF shell[s].closed THEN down ELSE Sent(shell[s].link, "close", s)
    BY <1>0, <2>1, <2>3, TeardownEnds
  <2>5. link' \in [Links -> Link] /\ link' = [link EXCEPT ![l].busy = Nobody]
    BY <1>0, <2>3, LinkField
  <2>6. \A k \in Links :
             /\ link'[k].wire = link[k].wire /\ link'[k].server = link[k].server
             /\ link'[k].agent = link[k].agent
             /\ link'[k].victims = link[k].victims
             /\ link'[k].busy \in {link[k].busy, Nobody}
    BY <1>0, <2>5 DEF Link
  <2> QED BY <2>1, <2>2, <2>3, <2>4, <2>5, <2>6 DEF CloseStep
<1>3. ASSUME NEW l \in Links, ReadShellError(l) \/ ReadClose(l),
             shell[Head(up[l]).id].mapped
      PROVE  \E s \in Shells : CloseStep(s)
  <2> DEFINE s == Head(up[l]).id
             o == [shell[s] EXCEPT !.mapped = FALSE]
  <2>1. Takes(l) /\ s \in Shells /\ UNCHANGED <<hub, link, pty>>
    BY <1>0, <1>3, HeadTaken DEF ReadShellError, ReadClose, Reading, Takes
  <2>2. Teardown(s, o) \/ Teardown(s, Verdict(o, "err"))
    BY <1>3 DEF ReadShellError, ReadClose
  <2>3. shell[s].mapped /\ ~shell[s].closed /\ ~Unlisted(s) /\ shell[s].result # "err"
    BY <1>3, <2>1 DEF ShellInvariant, ShellStages
  <2>8. shell[s].pc # "write"
    <3>1. up[l] \in Seq(Message) /\ up[l] # <<>>
      BY <2>1 DEF ShellInvariant, ShellTypes, Takes
    <3>2. 1 \in 1..Len(up[l]) /\ s = up[l][1].id
      BY <3>1
    <3> QED BY <3>2 DEF ShellInvariant, UpMessages, UpFits, Unsent
  <2> HIDE DEF s
  <2>4. /\ o \in Shell /\ ~o.mapped /\ ~o.closed
        /\ o.pc = shell[s].pc /\ o.link = shell[s].link /\ o.result = shell[s].result
    BY <1>0, <2>1, <2>3 DEF Shell
  <2> HIDE DEF o
  <2>5. \E n \in Shell :
          /\ Teardown(s, n) /\ ~n.mapped /\ ~n.closed
          /\ n.pc = shell[s].pc /\ n.link = shell[s].link
          /\ \/ n.result = shell[s].result
             \/ shell[s].result = "none" /\ n.result = "err"
    <3>1. CASE Teardown(s, o) BY <2>4, <3>1
    <3>2. CASE Teardown(s, Verdict(o, "err")) BY <2>4, <3>2, VerdictOf
    <3> QED BY <2>2, <3>1, <3>2
  <2>6. PICK n \in Shell :
          /\ Teardown(s, n) /\ ~n.mapped /\ ~n.closed
          /\ n.pc = shell[s].pc /\ n.link = shell[s].link
          /\ \/ n.result = shell[s].result
             \/ shell[s].result = "none" /\ n.result = "err"
    BY <2>5
  <2>7. /\ shell' \in [Shells -> Shell]
        /\ \A r \in Shells \ {s} : shell'[r] = shell[r]
        /\ shell'[s].closed /\ ~shell'[s].mapped
        /\ shell'[s].pc = n.pc /\ shell'[s].link = n.link
        /\ shell'[s].result = n.result
        /\ down' = Sent(shell[s].link, "close", s)
    BY <1>0, <2>1, <2>6, TeardownEnds
  <2> QED BY <1>0, <2>1, <2>3, <2>6, <2>7, <2>8 DEF CloseStep
<1>4. ASSUME NEW s \in Shells, Refused(s) \/ GiveUp(s) \/ Leave(s) \/ EndOfOutput(s)
      PROVE  \E r \in Shells : CloseStep(r)
  <2> DEFINE o == [shell[s] EXCEPT !.pc = "done"]
  <2>1. /\ Teardown(s, o) /\ UNCHANGED <<hub, link, up, pty>>
        /\ shell[s].pc \in {"wait", "bridged"}
    BY <1>4 DEF Refused, GiveUp, Leave, EndOfOutput
  <2>2. ~Unlisted(s)
    BY <2>1 DEF ShellInvariant, ShellStages, Unlisted
  <2>3. /\ o \in Shell /\ o.mapped = shell[s].mapped /\ o.closed = shell[s].closed
        /\ o.pc = "done" /\ o.link = shell[s].link /\ o.result = shell[s].result
    BY <1>0 DEF Shell
  <2> HIDE DEF o
  <2>4. /\ shell' \in [Shells -> Shell]
        /\ \A r \in Shells \ {s} : shell'[r] = shell[r]
        /\ shell'[s].closed /\ ~shell'[s].mapped
        /\ shell'[s].pc = "done" /\ shell'[s].link = shell[s].link
        /\ shell'[s].result = shell[s].result
        /\ down' = IF shell[s].closed THEN down ELSE Sent(shell[s].link, "close", s)
    BY <1>0, <2>1, <2>3, TeardownEnds
  <2> QED BY <1>0, <2>1, <2>2, <2>4 DEF CloseStep
<1> QED BY <1>1, <1>2, <1>3, <1>4

\* The link has served: Consoles may be of it.
Carries(l) == link[l].server \in {"serving", "exiting", "unregister", "gone"}

\* No link comes back, nor does the hub's slot.
LinksGoOn ==
    \A l \in Links :
        /\ Carries(l) => Carries(l)'
        /\ link[l].wire = "cut" => link'[l].wire = "cut"
        /\ Carries(l) /\ link'[l].wire = "up" => link[l].wire = "up"
        /\ Carries(l) /\ Holds(l)' => Holds(l)

\* No handler begins a shutdown, none ends one that a victim still waits for.
HandlersGoOn ==
    /\ link' \in [Links -> Link]
    /\ LinksGoOn
    /\ \A l \in Links :
         /\ link[l].server = "serving" => link'[l].server = "serving"
         /\ link'[l].victims = link[l].victims
         /\ link'[l].server = "exiting" => link[l].server = "exiting"
         /\ link'[l].server = "registering" /\ link[l].victims # {} =>
              /\ link[l].server = "registering"
              /\ \A k \in Links : link[k].server \in {"serving", "exiting"} =>
                                    link'[k].server \in {"serving", "exiting"}

\* What a handler is at stays, the message it delivers apart.
SameHandlers ==
    /\ hub' = hub /\ link' \in [Links -> Link]
    /\ \A l \in Links :
         /\ link'[l].wire = link[l].wire /\ link'[l].server = link[l].server
         /\ link'[l].victims = link[l].victims

\* Nothing happens to a Console or a PTY: a handler goes on, a wire changes, a
\* queue is dropped, a message that finds no shell is read.
LinkStep ==
    /\ shell' = shell /\ pty' = pty /\ HandlersGoOn
    /\ \/ down' = down
       \/ \E l \in Links : down' = [down EXCEPT ![l] = <<>>] /\ link'[l].wire = "cut"
    /\ \/ up' = up
       \/ \E l \in Links : up' = [up EXCEPT ![l] = <<>>] /\ link'[l].wire = "cut"
       \/ \E l \in Links :
            /\ up[l] # <<>> /\ up' = [up EXCEPT ![l] = Tail(@)]
            /\ Head(up[l]).type = "opened" => ~shell[Head(up[l]).id].mapped

\* Handlers that stay where they are go on.
LEMMA SameGoOn == SameHandlers => LinksGoOn /\ HandlersGoOn
<1> SUFFICES ASSUME SameHandlers PROVE LinksGoOn /\ HandlersGoOn
  OBVIOUS
<1>1. HubUnlocked' <=> HubUnlocked
  BY DEF SameHandlers, HubUnlocked
<1>2. LinksGoOn
  BY <1>1 DEF SameHandlers, LinksGoOn, Carries, Holds
<1> QED BY <1>2 DEF SameHandlers, HandlersGoOn

\* One handler moves to another stage.
LEMMA ServerGoesOn ==
    ASSUME ShellInvariant, NEW l \in Links,
           \/ RegisterLock(l) \/ RegisterEnd(l) \/ Unregister(l) \/ CloseSocket(l)
           \/ RegisterBegin(l) /\ hub = NoLink
    PROVE  HandlersGoOn
<1>0. /\ link \in [Links -> Link] /\ NoLink \notin Links
      /\ link[l].victims # {} => link[l].server \in {"registering", "exiting"}
      /\ \A k \in Links : hub = k => link[k].server \in {"serving", "exiting"}
  BY NamesAssumption DEF ShellInvariant, ShellTypes, LinkStages
<1>1. PICK v \in {"locking", "registering", "serving", "unregister", "gone"} :
        /\ link' = [link EXCEPT ![l].server = v]
        /\ v = "locking" => RegisterLock(l)
        /\ \/ v = "locking"
           \/ v = "serving" /\ RegisterEnd(l)
           \/ v = "unregister" /\ Unregister(l)
           \/ v = "gone" /\ CloseSocket(l)
           \/ v = "registering" /\ RegisterBegin(l) /\ hub = NoLink
  <2>1. CASE RegisterEnd(l) BY <1>0, <2>1, LinkField DEF RegisterEnd
  <2>2. CASE Unregister(l) BY <1>0, <2>2, LinkField DEF Unregister
  <2>3. CASE CloseSocket(l) BY <2>3 DEF CloseSocket
  <2>4. CASE RegisterBegin(l) /\ hub = NoLink
    BY <1>0, <2>4, LinkField DEF RegisterBegin
  <2>5. CASE RegisterLock(l) BY <1>0, <2>5, LinkField DEF RegisterLock
  <2> QED BY <2>1, <2>2, <2>3, <2>4, <2>5
<1>2. /\ link' \in [Links -> Link]
      /\ \A k \in Links :
           /\ link'[k].wire = link[k].wire /\ link'[k].victims = link[k].victims
           /\ link'[k].server = IF k = l THEN v ELSE link[k].server
  BY <1>0, <1>1 DEF Link
<1>3. CASE v = "serving"
  <2>1. link[l].server = "registering" /\ link[l].victims = {} /\ hub' = l
    BY <1>1, <1>3 DEF RegisterEnd
  <2>2. LinksGoOn
    BY <1>0, <1>2, <1>3, <2>1 DEF LinksGoOn, Carries, Holds, HubUnlocked
  <2> QED BY <1>2, <1>3, <2>1, <2>2 DEF HandlersGoOn
<1>4. CASE v = "unregister"
  <2>1. /\ link[l].server = "exiting" /\ HubUnlocked
        /\ hub' = IF hub = l THEN NoLink ELSE hub
    BY <1>1, <1>4 DEF Unregister
  <2>2. LinksGoOn
    BY <1>0, <1>2, <1>4, <2>1 DEF LinksGoOn, Carries, Holds
  <2> QED BY <1>2, <1>4, <2>1, <2>2 DEF HandlersGoOn, HubUnlocked
<1>5. CASE v = "gone"
  <2>1. link[l].server = "unregister" /\ hub' = hub
    BY <1>1, <1>5 DEF CloseSocket
  <2>2. LinksGoOn
    BY <1>0, <1>2, <1>5, <2>1 DEF LinksGoOn, Carries, Holds, HubUnlocked
  <2> QED BY <1>2, <1>5, <2>1, <2>2 DEF HandlersGoOn
<1>6. CASE v = "registering"
  <2>1. link[l].server = "locking" /\ hub' = hub /\ hub = NoLink
    BY <1>1, <1>6 DEF RegisterBegin
  <2>2. LinksGoOn
    BY <1>0, <1>2, <1>6, <2>1 DEF LinksGoOn, Carries, Holds, HubUnlocked
  <2> QED BY <1>0, <1>2, <1>6, <2>1, <2>2 DEF HandlersGoOn
<1>7. CASE v = "locking"
  <2>1. link[l].server = "accepted" /\ hub' = hub
    BY <1>1, <1>7 DEF RegisterLock
  <2>2. LinksGoOn
    BY <1>0, <1>2, <1>7, <2>1 DEF LinksGoOn, Carries, Holds, HubUnlocked
  <2> QED BY <1>0, <1>2, <1>7, <2>1, <2>2 DEF HandlersGoOn
<1> QED BY <1>1, <1>3, <1>4, <1>5, <1>6, <1>7

\* A wire comes up, or is cut.
LEMMA WireGoesOn ==
    ASSUME ShellInvariant, NEW l \in Links, Dial(l) \/ Cut(l)
    PROVE  HandlersGoOn
<1>0. /\ link \in [Links -> Link] /\ NoLink \notin Links
      /\ link[l].wire = "unused" => link[l].server = "none"
      /\ link[l].victims # {} => link[l].server \in {"registering", "exiting"}
      /\ \A k \in Links : hub = k => link[k].server \in {"serving", "exiting"}
  BY NamesAssumption DEF ShellInvariant, ShellTypes, LinkStages
<1>1. CASE Dial(l)
  <2>1. /\ link' \in [Links -> Link] /\ hub' = hub
        /\ \A k \in Links \ {l} : link'[k] = link[k]
        /\ link'[l].wire = "up" /\ link'[l].server = "accepted"
        /\ link'[l].victims = link[l].victims
        /\ link[l].server = "none" /\ link[l].wire = "unused"
    BY <1>0, <1>1 DEF Dial, Link
  <2>2. LinksGoOn
    BY <1>0, <2>1 DEF LinksGoOn, Carries, Holds, HubUnlocked
  <2> QED BY <1>0, <2>1, <2>2 DEF HandlersGoOn
<1>2. CASE Cut(l)
  <2>1. /\ link' = [link EXCEPT ![l].wire = "cut", ![l].full = FALSE]
        /\ hub' = hub /\ link[l].wire = "up"
    BY <1>2 DEF Cut
  <2> DEFINE n == [link[l] EXCEPT !.wire = "cut", !.full = FALSE]
  <2>4. /\ n \in Link /\ n.wire = "cut"
        /\ n.server = link[l].server /\ n.victims = link[l].victims
    BY <1>0 DEF Link
  <2>5. link' = [link EXCEPT ![l] = n]
    BY <1>0, <2>1
  <2> HIDE DEF n
  <2>2. /\ link' \in [Links -> Link]
        /\ \A k \in Links :
             /\ link'[k].server = link[k].server /\ link'[k].victims = link[k].victims
             /\ link'[k].wire = IF k = l THEN "cut" ELSE link[k].wire
    BY <1>0, <2>4, <2>5
  <2>3. LinksGoOn
    BY <1>0, <2>1, <2>2 DEF LinksGoOn, Carries, Holds, HubUnlocked
  <2> QED BY <1>0, <2>1, <2>2, <2>3 DEF HandlersGoOn
<1> QED BY <1>1, <1>2

\* The actions of the kind LinkStep.
LEMMA LinkSteps ==
    ASSUME ShellInvariant,
           \/ \E l \in Links :
                \/ Dial(l) \/ Cut(l) \/ Block(l)
                \/ RegisterLock(l) \/ RegisterEnd(l) \/ Unregister(l) \/ CloseSocket(l)
                \/ ReadData(l) \/ AgentHangUp(l) \/ (RegisterBegin(l) /\ hub = NoLink)
                \/ /\ ReadOpened(l) \/ ReadShellError(l) \/ ReadClose(l)
                   /\ ~shell[Head(up[l]).id].mapped
           \/ \E s \in Shells : ReadOutput(s) \/ BrowserReads(s)
           \/ UNCHANGED vars
    PROVE  LinkStep
<1>0. /\ link \in [Links -> Link] /\ down \in [Links -> Seq(Message)]
      /\ \A l \in Links :
           /\ link[l].server \in {"exiting", "unregister", "gone"} => link[l].wire = "cut"
           /\ link[l].agent = "drained" => link[l].wire = "cut"
      /\ NoLink \notin Links /\ Nobody \notin Shells
  BY NamesAssumption DEF ShellInvariant, ShellTypes, LinkStages
<1>1. ASSUME NEW l \in Links, Dial(l) \/ Cut(l) PROVE LinkStep
  BY <1>1, WireGoesOn DEF LinkStep, Dial, Cut
<1>2. ASSUME NEW l \in Links, RegisterLock(l) \/ RegisterEnd(l) \/ Unregister(l)
                              \/ (RegisterBegin(l) /\ hub = NoLink)
      PROVE  LinkStep
  BY <1>2, ServerGoesOn DEF LinkStep, RegisterLock, RegisterEnd, Unregister, RegisterBegin
<1>3. ASSUME NEW l \in Links, CloseSocket(l) PROVE LinkStep
  <2>1. HandlersGoOn
    BY <1>3, ServerGoesOn
  <2>2. link'[l].wire = "cut"
    BY <1>0, <1>3, <2>1 DEF CloseSocket, HandlersGoOn, LinksGoOn
  <2> QED BY <1>3, <2>1, <2>2 DEF LinkStep, CloseSocket
<1>4. ASSUME SameHandlers, UNCHANGED <<down, shell, pty>>,
             \/ up' = up
             \/ \E l \in Links :
                  /\ up[l] # <<>> /\ up' = [up EXCEPT ![l] = Tail(@)]
                  /\ Head(up[l]).type = "opened" => ~shell[Head(up[l]).id].mapped
      PROVE  LinkStep
  BY <1>4, SameGoOn DEF LinkStep
<1>5. \A l \in Links, v \in Shells \cup {Nobody} :
        hub' = hub /\ SetLink(l, "busy", v) => SameHandlers
  <2> SUFFICES ASSUME NEW l \in Links, NEW v \in Shells \cup {Nobody},
                      hub' = hub, SetLink(l, "busy", v)
               PROVE  SameHandlers
    OBVIOUS
  <2>1. link' \in [Links -> Link] /\ link' = [link EXCEPT ![l].busy = v]
    BY <1>0, LinkField
  <2>2. \A k \in Links :
          /\ link'[k].wire = link[k].wire /\ link'[k].server = link[k].server
          /\ link'[k].victims = link[k].victims
    BY <1>0, <2>1 DEF Link
  <2> QED BY <2>1, <2>2 DEF SameHandlers
<1>6. hub' = hub /\ link' = link => SameHandlers
  BY <1>0 DEF SameHandlers
<1>7. ASSUME NEW l \in Links, ReadData(l) PROVE LinkStep
  <2>1. /\ up[l] # <<>> /\ up' = [up EXCEPT ![l] = Tail(@)]
        /\ Head(up[l]).type # "opened" /\ Head(up[l]).id \in Shells
        /\ UNCHANGED <<hub, down, shell, pty>>
    BY <1>7, HeadTaken DEF ReadData, Reading, ShellInvariant
  <2>2. SetLink(l, "busy", Head(up[l]).id) \/ link' = link
    BY <1>7 DEF ReadData
  <2>3. SameHandlers
    BY <1>5, <1>6, <2>1, <2>2
  <2> QED BY <1>4, <2>1, <2>3
<1>8. ASSUME NEW l \in Links, AgentHangUp(l) PROVE LinkStep
  <2>1. link' \in [Links -> Link] /\ link' = [link EXCEPT ![l].agent = "gone"]
    BY <1>0, <1>8, LinkField DEF AgentHangUp
  <2>2. \A k \in Links :
          /\ link'[k].server = link[k].server /\ link'[k].victims = link[k].victims
          /\ link'[k].wire = link[k].wire
    BY <1>0, <2>1 DEF Link
  <2>3. SameHandlers
    BY <1>8, <2>1, <2>2 DEF AgentHangUp, SameHandlers
  <2>4. /\ UNCHANGED <<up, shell, pty>> /\ link'[l].wire = "cut"
        /\ down' = [down EXCEPT ![l] = <<>>]
    BY <1>0, <1>8, <2>2 DEF AgentHangUp
  <2> QED BY <1>0, <2>3, <2>4, SameGoOn DEF LinkStep
<1>9. ASSUME NEW s \in Shells, ReadOutput(s) \/ BrowserReads(s) PROVE LinkStep
  BY <1>4, <1>5, <1>6, <1>9 DEF ReadOutput, BrowserReads
<1>10. ASSUME NEW l \in Links, ReadOpened(l) \/ ReadShellError(l) \/ ReadClose(l),
              ~shell[Head(up[l]).id].mapped
       PROVE  LinkStep
  <2>1. /\ up[l] # <<>> /\ up' = [up EXCEPT ![l] = Tail(@)]
        /\ UNCHANGED <<hub, link, down, shell, pty>>
    BY <1>10 DEF ReadOpened, ReadShellError, ReadClose, Reading
  <2> QED BY <1>4, <1>6, <1>10, <2>1
<1>11. ASSUME NEW l \in Links, Block(l) PROVE LinkStep
  <2>1. link' \in [Links -> Link] /\ link' = [link EXCEPT ![l].full = ~link[l].full]
    BY <1>0, <1>11, LinkField DEF Block, Link
  <2>2. \A k \in Links :
          /\ link'[k].wire = link[k].wire /\ link'[k].server = link[k].server
          /\ link'[k].victims = link[k].victims
    BY <1>0, <2>1 DEF Link
  <2> QED BY <1>4, <1>11, <2>1, <2>2 DEF Block, SameHandlers
<1>12. CASE UNCHANGED vars
  BY <1>4, <1>6, <1>12 DEF vars
<1> QED BY <1>1, <1>2, <1>3, <1>7, <1>8, <1>9, <1>10, <1>11, <1>12

\* The handler of l empties the table of k: of its own link, which is cut, or of
\* the link that has the hub's slot.
DrainStep(l, k) ==
    /\ UNCHANGED <<hub, down, up, pty>>
    /\ link' \in [Links -> Link] /\ shell' \in [Shells -> Shell]
    /\ \A j \in Links : /\ link'[j].wire = link[j].wire /\ link'[j].busy = link[j].busy
                         /\ link'[j].agent = link[j].agent
    /\ \A j \in Links \ {l} : link'[j] = link[j]
    /\ link[l].victims = {} /\ link'[l].victims = Mapped(k)
    /\ \/ /\ link[l].server = "locking" /\ link'[l].server = "registering"
          /\ hub = k
       \/ /\ link[l].server = "serving" /\ link'[l].server = "exiting"
          /\ k = l /\ link[l].wire = "cut"
    /\ \A s \in Shells :
         /\ shell'[s].pc = shell[s].pc /\ shell'[s].link = shell[s].link
         /\ shell'[s].closed = shell[s].closed /\ shell'[s].result = shell[s].result
         /\ shell'[s].mapped <=> (shell[s].mapped /\ shell[s].link # k)

\* Both ways to empty a table are of the kind.
LEMMA DrainSteps ==
    ASSUME ShellInvariant, NEW l \in Links,
           ReadError(l) \/ (RegisterBegin(l) /\ hub # NoLink)
    PROVE  \E k \in Links : DrainStep(l, k)
<1>0. /\ link \in [Links -> Link] /\ shell \in [Shells -> Shell]
      /\ hub \in Links \cup {NoLink}
      /\ link[l].victims # {} => link[l].server \in {"registering", "exiting"}
  BY DEF ShellInvariant, ShellTypes, LinkStages
<1>1. PICK k \in Links, v \in {"registering", "exiting"} :
        /\ Drain(l, k, v)
        /\ \/ link[l].server = "locking" /\ v = "registering" /\ hub = k
           \/ link[l].server = "serving" /\ v = "exiting" /\ k = l /\ link[l].wire = "cut"
  BY <1>0 DEF ReadError, RegisterBegin
<1>2. Mapped(k) \in SUBSET Shells
  BY DEF Mapped
<1>3. /\ link' \in [Links -> Link]
      /\ \A j \in Links \ {l} : link'[j] = link[j]
      /\ link'[l].wire = link[l].wire /\ link'[l].busy = link[l].busy
      /\ link'[l].agent = link[l].agent
      /\ link'[l].server = v /\ link'[l].victims = Mapped(k)
  <2> DEFINE n == [link[l] EXCEPT !.server = v, !.victims = Mapped(k)]
  <2>1. /\ n \in Link /\ n.wire = link[l].wire /\ n.busy = link[l].busy
        /\ n.agent = link[l].agent /\ n.server = v /\ n.victims = Mapped(k)
    BY <1>0, <1>2 DEF Link
  <2>2. link' = [link EXCEPT ![l] = n]
    BY <1>0, <1>1 DEF Drain
  <2> HIDE DEF n
  <2> QED BY <1>0, <2>1, <2>2
<1>4. /\ shell' \in [Shells -> Shell]
      /\ \A s \in Shells :
           /\ shell'[s].pc = shell[s].pc /\ shell'[s].link = shell[s].link
           /\ shell'[s].closed = shell[s].closed /\ shell'[s].result = shell[s].result
           /\ shell'[s].mapped <=> (shell[s].mapped /\ shell[s].link # k)
  <2>1. \A s \in Shells :
          LET n == [shell[s] EXCEPT !.mapped = FALSE]
          IN /\ n \in Shell /\ n.pc = shell[s].pc /\ n.link = shell[s].link
             /\ n.closed = shell[s].closed /\ n.result = shell[s].result /\ ~n.mapped
    BY <1>0 DEF Shell
  <2>2. shell' = [s \in Shells |->
                   IF s \in Mapped(k) THEN [shell[s] EXCEPT !.mapped = FALSE]
                                      ELSE shell[s]]
    BY <1>1 DEF Drain
  <2> QED BY <1>0, <2>1, <2>2 DEF Mapped
<1>5. UNCHANGED <<hub, down, up, pty>>
  BY DEF ReadError, RegisterBegin
<1> QED BY <1>0, <1>1, <1>3, <1>4, <1>5 DEF DrainStep

\* The Agent's steps, a dropped queue apart.
AgentActs ==
    \/ \E l \in Links : AgentReader(l) \/ AgentDrain(l)
    \/ \E s \in Shells : PtyOutput(s) \/ PtyExit(s)

\* They change no record of the Server.
AgentStep ==
    /\ AgentActs /\ shell' = shell /\ SameHandlers
    /\ \A l \in Links : link'[l].busy = link[l].busy

\* All of them are of the kind.
LEMMA AgentSteps ==
    ASSUME ShellInvariant, AgentActs
    PROVE  AgentStep
<1>0. link \in [Links -> Link]
  BY DEF ShellInvariant, ShellTypes
<1>1. ASSUME UNCHANGED <<hub, link, shell>> PROVE AgentStep
  BY <1>0, <1>1 DEF AgentStep, SameHandlers
<1>2. ASSUME NEW l \in Links, AgentDrain(l) PROVE AgentStep
  <2>1. link' \in [Links -> Link] /\ link' = [link EXCEPT ![l].agent = "drained"]
    BY <1>0, <1>2, LinkField DEF AgentDrain
  <2>2. \A k \in Links :
          /\ link'[k].server = link[k].server /\ link'[k].victims = link[k].victims
          /\ link'[k].wire = link[k].wire /\ link'[k].busy = link[k].busy
    BY <1>0, <2>1 DEF Link
  <2> QED BY <1>2, <2>1, <2>2 DEF AgentDrain, AgentStep, SameHandlers
<1>3. \A l \in Links : AgentReader(l) => UNCHANGED <<hub, link, shell>>
  BY DEF AgentReader, AgentOpen, AgentInput, AgentClose
<1>4. \A s \in Shells : PtyOutput(s) \/ PtyExit(s) => UNCHANGED <<hub, link, shell>>
  BY DEF PtyOutput, PtyExit
<1> QED BY <1>1, <1>2, <1>3, <1>4 DEF AgentActs

\* A Console goes on, or its verdict is read, with no change elsewhere than in
\* its own record and the queues.
ShellStep(s) ==
    /\ UNCHANGED <<hub, link, pty>>
    /\ shell' \in [Shells -> Shell]
    /\ \A r \in Shells \ {s} : shell'[r] = shell[r]
    /\ shell'[s].closed = shell[s].closed
    /\ \/ /\ UNCHANGED <<down, up>>
          /\ shell[s].pc = "idle" /\ HubUnlocked
          /\ shell'[s].pc = IF hub = NoLink THEN "done" ELSE "insert"
          /\ shell'[s].link = hub
          /\ shell'[s].mapped = shell[s].mapped /\ shell'[s].result = shell[s].result
       \/ /\ UNCHANGED <<down, up>>
          /\ shell[s].pc = "insert" /\ shell'[s].pc = "write"
          /\ shell'[s].link = shell[s].link /\ shell'[s].mapped
          /\ shell'[s].result = shell[s].result
       \/ /\ down' = Sent(shell[s].link, "open", s) /\ up' = up
          /\ shell[s].pc = "write" /\ shell'[s].pc = "wait"
          /\ shell'[s].link = shell[s].link /\ shell'[s].mapped = shell[s].mapped
          /\ shell'[s].result = shell[s].result
       \/ /\ UNCHANGED <<down, up>>
          /\ shell[s].pc = "write" /\ shell'[s].pc = "done"
          /\ link[shell[s].link].wire = "cut"
          /\ shell'[s].link = shell[s].link /\ ~shell'[s].mapped
          /\ shell'[s].result = shell[s].result
       \/ /\ UNCHANGED <<down, up>>
          /\ shell[s].pc = "wait" /\ shell'[s].pc = "bridged"
          /\ shell'[s].link = shell[s].link /\ shell'[s].mapped = shell[s].mapped
          /\ shell'[s].result = shell[s].result /\ shell[s].result = "ok"
       \/ /\ down' = Sent(shell[s].link, "data", s) /\ up' = up
          /\ shell[s].pc = "bridged" /\ shell'[s].pc = "bridged"
          /\ shell'[s].link = shell[s].link /\ shell'[s].mapped = shell[s].mapped
          /\ shell'[s].result = shell[s].result
       \/ /\ shell[s].mapped /\ shell'[s].mapped /\ down' = down
          /\ shell'[s].pc = shell[s].pc /\ shell'[s].link = shell[s].link
          /\ shell'[s].result = IF shell[s].result = "none" THEN "ok" ELSE shell[s].result
          /\ \E l \in Links :
               /\ link[l].server = "serving"
               /\ up[l] # <<>> /\ up' = [up EXCEPT ![l] = Tail(@)]
               /\ Head(up[l]).type = "opened" /\ Head(up[l]).id = s

\* All seven are of the kind.
LEMMA ShellSteps ==
    ASSUME ShellInvariant,
           \/ \E s \in Shells : \/ Lookup(s) \/ Insert(s) \/ WriteOpen(s)
                               \/ WriteOpenFails(s) \/ Opened(s) \/ Input(s)
           \/ \E l \in Links : ReadOpened(l) /\ shell[Head(up[l]).id].mapped
    PROVE  \E s \in Shells : ShellStep(s)
<1>0. /\ shell \in [Shells -> Shell] /\ \A s \in Shells : shell[s] \in Shell
      /\ hub \in Links \cup {NoLink}
  BY DEF ShellInvariant, ShellTypes
<1>1. ASSUME NEW s \in Shells, Lookup(s) PROVE ShellStep(s)
  <2> DEFINE p == IF hub = NoLink THEN "done" ELSE "insert"
             n == [shell[s] EXCEPT !.link = hub, !.pc = p]
  <2>2. shell' = [shell EXCEPT ![s] = n]
    BY <1>0, <1>1 DEF Lookup
  <2>5. p \in {"done", "insert"} /\ shell[s] \in Shell
    BY <1>0
  <2>6. p = IF hub = NoLink THEN "done" ELSE "insert"
    OBVIOUS
  <2> HIDE DEF p
  <2>1. /\ n \in Shell /\ n.pc = p
        /\ n.link = hub /\ n.mapped = shell[s].mapped
        /\ n.result = shell[s].result /\ n.closed = shell[s].closed
    BY <1>0, <2>5 DEF Shell
  <2> HIDE DEF n
  <2>3. /\ shell' \in [Shells -> Shell] /\ shell'[s] = n
        /\ \A r \in Shells \ {s} : shell'[r] = shell[r]
    BY <1>0, <2>1, <2>2
  <2>4. /\ UNCHANGED <<hub, link, down, up, pty>>
        /\ shell[s].pc = "idle" /\ HubUnlocked
    BY <1>1 DEF Lookup
  <2> QED BY <1>1, <2>1, <2>3, <2>4, <2>6 DEF ShellStep
<1>2. ASSUME NEW s \in Shells, Insert(s) PROVE ShellStep(s)
  <2> DEFINE n == [shell[s] EXCEPT !.pc = "write", !.mapped = TRUE]
  <2>1. /\ n \in Shell /\ n.pc = "write" /\ n.link = shell[s].link /\ n.mapped
        /\ n.result = shell[s].result /\ n.closed = shell[s].closed
    BY <1>0 DEF Shell
  <2>2. shell' = [shell EXCEPT ![s] = n]
    BY <1>0, <1>2 DEF Insert
  <2> HIDE DEF n
  <2>3. /\ shell' \in [Shells -> Shell] /\ shell'[s] = n
        /\ \A r \in Shells \ {s} : shell'[r] = shell[r]
    BY <1>0, <2>1, <2>2
  <2>4. UNCHANGED <<hub, link, down, up, pty>> /\ shell[s].pc = "insert"
    BY <1>2 DEF Insert
  <2> QED BY <1>2, <2>1, <2>3, <2>4 DEF ShellStep
<1>3. ASSUME NEW s \in Shells, WriteOpen(s) PROVE ShellStep(s)
  <2> DEFINE n == [shell[s] EXCEPT !.pc = "wait"]
  <2>1. /\ n \in Shell /\ n.pc = "wait" /\ n.link = shell[s].link
        /\ n.mapped = shell[s].mapped
        /\ n.result = shell[s].result /\ n.closed = shell[s].closed
    BY <1>0 DEF Shell
  <2>2. shell' = [shell EXCEPT ![s] = n]
    BY <1>0, <1>3 DEF WriteOpen
  <2> HIDE DEF n
  <2>3. /\ shell' \in [Shells -> Shell] /\ shell'[s] = n
        /\ \A r \in Shells \ {s} : shell'[r] = shell[r]
    BY <1>0, <2>1, <2>2
  <2>4. /\ UNCHANGED <<hub, link, up, pty>> /\ shell[s].pc = "write"
        /\ down' = Sent(shell[s].link, "open", s)
    BY <1>3 DEF WriteOpen
  <2> QED BY <1>3, <2>1, <2>3, <2>4 DEF ShellStep
<1>4. ASSUME NEW s \in Shells, WriteOpenFails(s) PROVE ShellStep(s)
  <2> DEFINE n == [shell[s] EXCEPT !.pc = "done", !.mapped = FALSE, !.pipe = "closed"]
  <2>1. /\ n \in Shell /\ n.pc = "done" /\ n.link = shell[s].link /\ ~n.mapped
        /\ n.result = shell[s].result /\ n.closed = shell[s].closed
    BY <1>0 DEF Shell
  <2>2. shell' = [shell EXCEPT ![s] = n]
    BY <1>0, <1>4 DEF WriteOpenFails
  <2> HIDE DEF n
  <2>3. /\ shell' \in [Shells -> Shell] /\ shell'[s] = n
        /\ \A r \in Shells \ {s} : shell'[r] = shell[r]
    BY <1>0, <2>1, <2>2
  <2>4. /\ UNCHANGED <<hub, link, down, up, pty>> /\ shell[s].pc = "write"
        /\ link[shell[s].link].wire = "cut"
    BY <1>4 DEF WriteOpenFails
  <2> QED BY <1>4, <2>1, <2>3, <2>4 DEF ShellStep
<1>5. ASSUME NEW s \in Shells, Opened(s) PROVE ShellStep(s)
  <2> DEFINE n == [shell[s] EXCEPT !.pc = "bridged"]
  <2>1. /\ n \in Shell /\ n.pc = "bridged" /\ n.link = shell[s].link
        /\ n.mapped = shell[s].mapped
        /\ n.result = shell[s].result /\ n.closed = shell[s].closed
    BY <1>0 DEF Shell
  <2>2. shell' = [shell EXCEPT ![s] = n]
    BY <1>0, <1>5 DEF Opened
  <2> HIDE DEF n
  <2>3. /\ shell' \in [Shells -> Shell] /\ shell'[s] = n
        /\ \A r \in Shells \ {s} : shell'[r] = shell[r]
    BY <1>0, <2>1, <2>2
  <2>4. /\ UNCHANGED <<hub, link, down, up, pty>>
        /\ shell[s].pc = "wait" /\ shell[s].result = "ok"
    BY <1>5 DEF Opened
  <2> QED BY <1>5, <2>1, <2>3, <2>4 DEF ShellStep
<1>6. ASSUME NEW s \in Shells, Input(s) PROVE ShellStep(s)
  <2> DEFINE n == [shell[s] EXCEPT !.input = @ + 1]
  <2>1. /\ n \in Shell /\ n.pc = shell[s].pc /\ n.link = shell[s].link
        /\ n.mapped = shell[s].mapped
        /\ n.result = shell[s].result /\ n.closed = shell[s].closed
    BY <1>0, <1>6, BoundsAssumption DEF Shell, Input
  <2>2. shell' = [shell EXCEPT ![s] = n]
    BY <1>0, <1>6 DEF Input
  <2> HIDE DEF n
  <2>3. /\ shell' \in [Shells -> Shell] /\ shell'[s] = n
        /\ \A r \in Shells \ {s} : shell'[r] = shell[r]
    BY <1>0, <2>1, <2>2
  <2>4. /\ UNCHANGED <<hub, link, up, pty>> /\ shell[s].pc = "bridged"
        /\ down' = Sent(shell[s].link, "data", s)
    BY <1>6 DEF Input
  <2> QED BY <1>6, <2>1, <2>3, <2>4 DEF ShellStep
<1>7. ASSUME NEW l \in Links, ReadOpened(l), shell[Head(up[l]).id].mapped
      PROVE  \E s \in Shells : ShellStep(s)
  <2> DEFINE s == Head(up[l]).id
             n == Verdict(shell[s], "ok")
  <2>1. /\ s \in Shells /\ link[l].server = "serving" /\ up[l] # <<>>
        /\ up' = [up EXCEPT ![l] = Tail(@)] /\ Head(up[l]).type = "opened"
        /\ UNCHANGED <<hub, link, down, pty>>
    BY <1>7, HeadTaken DEF ReadOpened, Reading, ShellInvariant
  <2>2. /\ n \in Shell /\ n.pc = shell[s].pc /\ n.link = shell[s].link
        /\ n.mapped = shell[s].mapped /\ n.closed = shell[s].closed
        /\ n.result = IF shell[s].result = "none" THEN "ok" ELSE shell[s].result
    BY <1>0, <2>1, VerdictOf
  <2>3. shell' = [shell EXCEPT ![s] = n]
    BY <1>0, <1>7, <2>1 DEF ReadOpened
  <2> HIDE DEF n
  <2>4. /\ shell' \in [Shells -> Shell] /\ shell'[s] = n
        /\ \A r \in Shells \ {s} : shell'[r] = shell[r]
    BY <1>0, <2>1, <2>2, <2>3
  <2> QED BY <1>7, <2>1, <2>2, <2>4 DEF ShellStep
<1> QED BY <1>1, <1>2, <1>3, <1>4, <1>5, <1>6, <1>7

\* There are no other kinds.
LEMMA StepKinds ==
    ASSUME ShellInvariant, [Next]_vars
    PROVE  \/ LinkStep
           \/ \E l, k \in Links : DrainStep(l, k)
           \/ \E s \in Shells : CloseStep(s) \/ ShellStep(s)
           \/ AgentStep
<1>1. CASE UNCHANGED vars
  BY <1>1, LinkSteps
<1>2. ASSUME NEW l \in Links, Dial(l) \/ Cut(l) \/ Block(l) \/ Handler(l)
      PROVE  \/ LinkStep
             \/ \E k \in Links : DrainStep(l, k)
             \/ \E s \in Shells : CloseStep(s) \/ ShellStep(s)
  <2>1. CASE \/ Dial(l) \/ Cut(l) \/ Block(l)
             \/ RegisterLock(l) \/ RegisterEnd(l) \/ Unregister(l) \/ CloseSocket(l)
             \/ ReadData(l) \/ (RegisterBegin(l) /\ hub = NoLink)
             \/ /\ ReadOpened(l) \/ ReadShellError(l) \/ ReadClose(l)
                /\ ~shell[Head(up[l]).id].mapped
    BY <2>1, LinkSteps
  <2>2. CASE ReadError(l) \/ (RegisterBegin(l) /\ hub # NoLink)
    BY <2>2, DrainSteps
  <2>3. CASE \/ ShutdownOne(l) \/ WriteAborted(l)
             \/ (ReadShellError(l) \/ ReadClose(l)) /\ shell[Head(up[l]).id].mapped
    BY <2>3, CloseSteps
  <2>4. CASE ReadOpened(l) /\ shell[Head(up[l]).id].mapped
    BY <2>4, ShellSteps
  <2> QED BY <1>2, <2>1, <2>2, <2>3, <2>4 DEF Handler
<1>3. ASSUME NEW s \in Shells, Console(s)
      PROVE  LinkStep \/ \E r \in Shells : CloseStep(r) \/ ShellStep(r)
  BY <1>3, LinkSteps, CloseSteps, ShellSteps DEF Console
<1>4. CASE Agent
  BY <1>4, LinkSteps, AgentSteps DEF Agent, AgentActs
<1> QED BY <1>1, <1>2, <1>3, <1>4 DEF Next

\* Whatever the step, no link comes back.
LEMMA LinksAlwaysGoOn ==
    ASSUME ShellInvariant, [Next]_vars
    PROVE  LinksGoOn /\ link' \in [Links -> Link]
<1>1. CASE LinkStep
  BY <1>1 DEF LinkStep, HandlersGoOn
<1>2. ASSUME NEW l \in Links, NEW k \in Links, DrainStep(l, k)
      PROVE  LinksGoOn /\ link' \in [Links -> Link]
  <2>1. /\ hub' = hub /\ link' \in [Links -> Link]
        /\ \A j \in Links : link'[j].wire = link[j].wire
        /\ \A j \in Links \ {l} : link'[j] = link[j]
        /\ link'[l].server = "registering" \/ link[l].server = "serving"
        /\ Carries(l) => Carries(l)'
    BY <1>2 DEF DrainStep, Carries
  <2> QED BY <2>1 DEF LinksGoOn, Carries, Holds, HubUnlocked
<1>3. ASSUME NEW s \in Shells, CloseStep(s)
      PROVE  LinksGoOn /\ link' \in [Links -> Link]
  BY <1>3 DEF CloseStep, LinksGoOn, Carries, Holds, HubUnlocked
<1>4. ASSUME NEW s \in Shells, ShellStep(s)
      PROVE  LinksGoOn /\ link' \in [Links -> Link]
  <2>1. hub' = hub /\ link' = link
    BY <1>4 DEF ShellStep
  <2> QED BY <2>1 DEF LinksGoOn, Carries, Holds, HubUnlocked, ShellInvariant, ShellTypes
<1>5. CASE AgentStep
  BY <1>5, SameGoOn DEF AgentStep, SameHandlers
<1> QED BY <1>1, <1>2, <1>3, <1>4, <1>5, StepKinds

\* Nor does a Console.
Onward(s) ==
    /\ ~Unlisted(s) => /\ shell'[s].link = shell[s].link /\ ~Unlisted(s)'
                       /\ shell'[s].mapped => shell[s].mapped
    /\ ~Unsent(s) => ~Unsent(s)'
    /\ shell[s].result = "ok" => shell'[s].result = "ok"
    /\ shell[s].closed => shell'[s].closed

\* Whatever the step, no Console goes back.
LEMMA ShellsGoOn ==
    ASSUME ShellInvariant, [Next]_vars
    PROVE  \A s \in Shells : Onward(s)
<1>0. /\ \A s \in Shells : shell[s].pc = "idle" => shell[s].link = NoLink
      /\ shell \in [Shells -> Shell]
  BY DEF ShellInvariant, ShellStages, ShellTypes
<1>1. CASE shell' = shell
  BY <1>1 DEF Onward, Unlisted, Unsent
<1>2. ASSUME NEW l \in Links, NEW k \in Links, DrainStep(l, k)
      PROVE  \A s \in Shells : Onward(s)
  BY <1>2 DEF DrainStep, Onward, Unlisted, Unsent
<1>3. ASSUME NEW s \in Shells, CloseStep(s) PROVE \A r \in Shells : Onward(r)
  BY <1>3 DEF CloseStep, Onward, Unlisted, Unsent
<1>4. ASSUME NEW s \in Shells, ShellStep(s) PROVE \A r \in Shells : Onward(r)
  BY <1>0, <1>4 DEF ShellStep, Onward, Unlisted, Unsent
<1> QED BY <1>1, <1>2, <1>3, <1>4, StepKinds DEF LinkStep, AgentStep

-----------------------------------------------------------------------------
(* The records *)

\* A PTY starts for a shell_open that was sent.
LEMMA PtyStarts ==
    ASSUME ShellInvariant, [Next]_vars, NEW s \in Shells, pty'[s].live, ~pty[s].live
    PROVE  /\ ~Unsent(s)
           /\ LET l == shell[s].link
              IN /\ l \in Links /\ SendUp(l, "opened", s)
                 /\ down[l] # <<>> /\ down[l][1].type = "open" /\ down[l][1].id = s
                 /\ down' = [down EXCEPT ![l] = Tail(@)]
<1>0. /\ pty \in [Shells -> [live: BOOLEAN, output: Nat]] /\ ShellTypes
      /\ \A r \in Shells : pty[r].live => ~Unsent(r)
  BY DEF ShellInvariant, ShellTypes, ShellStages
<1>1. AgentStep
  <2>1. pty' # pty
    OBVIOUS
  <2> QED BY <2>1, StepKinds DEF LinkStep, DrainStep, CloseStep, ShellStep
<1>2. PICK l \in Links : AgentOpen(l)
  <2>1. \A l \in Links : AgentDrain(l) => pty'[s].live = pty[s].live \/ ~pty'[s].live
    BY <1>0 DEF AgentDrain
  <2>2. \A l \in Links : AgentClose(l) \/ AgentInput(l) => (pty'[s].live => pty[s].live)
    <3>1. ASSUME NEW l \in Links, AgentClose(l) PROVE pty'[s].live => pty[s].live
      BY <1>0, <3>1 DEF AgentClose
    <3>2. ASSUME NEW l \in Links, AgentInput(l) PROVE pty'[s].live => pty[s].live
      <4>1. Head(down[l]).id \in Shells
        <5>1. down[l] \in Seq(Message) /\ down[l] # <<>>
          BY <1>0, <3>2 DEF ShellTypes, AgentInput, AgentReading
        <5>2. Head(down[l]) \in Message
          BY <5>1
        <5> QED BY <5>2 DEF Message
      <4>2. CASE pty' = pty BY <4>2
      <4>3. CASE CloseShell(l, Head(down[l]).id)
        BY <1>0, <4>1, <4>3, CloseShellSends
      <4> QED BY <3>2, <4>2, <4>3 DEF AgentInput
    <3> QED BY <3>1, <3>2
  <2>3. \A r \in Shells : PtyOutput(r) => pty'[s].live = pty[s].live
    BY <1>0 DEF PtyOutput
  <2>4. ASSUME NEW r \in Shells, PtyExit(r) PROVE pty'[s].live => pty[s].live
    <3>1. shell[r].link \in Links
      <4>1. ~Unsent(r) /\ shell[r].link \in Links \cup {NoLink}
        BY <1>0, <2>4 DEF PtyExit, ShellTypes, Shell
      <4> QED BY <4>1 DEF Unsent
    <3> QED BY <1>0, <2>4, <3>1, CloseShellSends DEF PtyExit
  <2> QED BY <1>1, <2>1, <2>2, <2>3, <2>4 DEF AgentStep, AgentActs, AgentReader
<1>3. down[l] \in Seq(Message) /\ down[l] # <<>> /\ Head(down[l]).type = "open"
  BY <1>0, <1>2 DEF ShellTypes, AgentOpen, AgentReading
<1>4. Head(down[l]) = down[l][1] /\ 1 \in 1..Len(down[l]) /\ Head(down[l]) \in Message
  BY <1>3
<1>5. Head(down[l]).id = s /\ SendUp(l, "opened", Head(down[l]).id)
  <2>1. \/ pty' = pty
        \/ /\ pty' = [pty EXCEPT ![Head(down[l]).id].live = TRUE]
           /\ SendUp(l, "opened", Head(down[l]).id)
    BY <1>2 DEF AgentOpen
  <2> QED BY <1>0, <2>1
<1>6. shell[s].link = l /\ ~Unsent(s)
  BY <1>3, <1>4, <1>5 DEF ShellInvariant, DownMessages, DownFits
<1> QED BY <1>2, <1>3, <1>4, <1>5, <1>6 DEF AgentOpen

\* The fields of a Console keep together.
LEMMA ShellStagesStep ==
    ASSUME ShellInvariant, [Next]_vars, ShellTypes'
    PROVE  ShellStages'
<1>0. /\ shell \in [Shells -> Shell] /\ NoLink \notin Links
      /\ \A s \in Shells : shell[s].link \in Links \cup {NoLink}
      /\ \A s \in Shells : shell'[s].link \in Links \cup {NoLink}
      /\ hub \in Links \cup {NoLink}
      /\ \A l \in Links : hub = l => Carries(l)
      /\ LinksGoOn
  BY NamesAssumption, LinksAlwaysGoOn
     DEF ShellInvariant, ShellTypes, Shell, LinkStages, Carries
<1>1. ShellStages
  BY DEF ShellInvariant
<1>2. CASE shell' = shell
  <2>1. \A s \in Shells : Unsent(s) => ~pty'[s].live
    <3> SUFFICES ASSUME NEW s \in Shells, Unsent(s), pty'[s].live PROVE FALSE
      OBVIOUS
    <3> QED BY <1>1, PtyStarts DEF ShellStages
  <2>2. \A l \in Links : /\ Carries(l) => Carries(l)'
                         /\ link[l].wire = "cut" => link'[l].wire = "cut"
    BY <1>0 DEF LinksGoOn
  <2> QED BY <1>0, <1>1, <1>2, <2>1, <2>2 DEF ShellStages, Carries, Unsent, Unlisted
<1>3. ASSUME NEW l \in Links, NEW k \in Links, DrainStep(l, k) PROVE ShellStages'
  <2>1. \A s \in Shells :
          /\ shell'[s].pc = shell[s].pc /\ shell'[s].link = shell[s].link
          /\ shell'[s].closed = shell[s].closed /\ shell'[s].result = shell[s].result
          /\ shell'[s].mapped => shell[s].mapped
    BY <1>3 DEF DrainStep
  <2>2. \A j \in Links : /\ Carries(j) => Carries(j)'
                         /\ link[j].wire = "cut" => link'[j].wire = "cut"
    BY <1>0 DEF LinksGoOn
  <2>3. pty' = pty
    BY <1>3 DEF DrainStep
  <2> QED BY <1>0, <1>1, <2>1, <2>2, <2>3 DEF ShellStages, Carries, Unsent, Unlisted
<1>4. ASSUME NEW s \in Shells, CloseStep(s) PROVE ShellStages'
  <2>1. \A j \in Links : /\ Carries(j) => Carries(j)'
                         /\ link[j].wire = "cut" => link'[j].wire = "cut"
    BY <1>0 DEF LinksGoOn
  <2> QED BY <1>0, <1>1, <1>4, <2>1 DEF CloseStep, ShellStages, Carries, Unsent, Unlisted
<1>5. ASSUME NEW s \in Shells, ShellStep(s) PROVE ShellStages'
  <2>1. UNCHANGED <<hub, link, pty>> /\ \A r \in Shells \ {s} : shell'[r] = shell[r]
    BY <1>5 DEF ShellStep
  <2>2. CASE \E l \in Links : /\ up[l] # <<>> /\ Head(up[l]).type = "opened"
                             /\ Head(up[l]).id = s
    <3>1. PICK l \in Links : up[l] # <<>> /\ Head(up[l]).id = s
      BY <2>2
    <3>2. up[l] \in Seq(Message)
      BY DEF ShellInvariant, ShellTypes
    <3>3. up[l][1].id = s /\ 1 \in 1..Len(up[l])
      BY <3>1, <3>2
    <3>4. ~Unsent(s)
      BY <3>3 DEF ShellInvariant, UpMessages, UpFits
    <3> QED BY <1>0, <1>1, <1>5, <2>1, <3>4 DEF ShellStep, ShellStages, Carries, Unsent, Unlisted
  <2>3. CASE ~\E l \in Links : /\ up[l] # <<>> /\ Head(up[l]).type = "opened"
                              /\ Head(up[l]).id = s
    BY <1>0, <1>1, <1>5, <2>1, <2>3 DEF ShellStep, ShellStages, Carries, Unsent, Unlisted
  <2> QED BY <2>2, <2>3
<1> QED BY <1>2, <1>3, <1>4, <1>5, StepKinds DEF LinkStep, AgentStep

\* A shell that works stays served, or in the hands of a handler.
LEMMA AttendedStep ==
    ASSUME ShellInvariant, [Next]_vars, ShellTypes'
    PROVE  Attended'
<1>0. /\ shell \in [Shells -> Shell] /\ NoLink \notin Links
      /\ \A s \in Shells : shell[s].link \in Links \cup {NoLink}
      /\ \A l \in Links : link[l].server = "serving" => link[l].victims = {}
      /\ Attended /\ ShellStages
  BY NamesAssumption DEF ShellInvariant, ShellTypes, Shell, LinkStages
<1>1. ASSUME shell' = shell, HandlersGoOn PROVE Attended'
  <2>1. \A s \in Shells : shell[s].result = "ok" => shell[s].link \in Links
    BY <1>0 DEF ShellStages, Unsent
  <2> QED BY <1>0, <1>1, <2>1 DEF HandlersGoOn, Attended
<1>2. ASSUME NEW l \in Links, NEW k \in Links, DrainStep(l, k) PROVE Attended'
  <2> SUFFICES ASSUME NEW s \in Shells, shell'[s].result = "ok", ~shell'[s].closed
               PROVE  \/ shell'[s].mapped /\ link'[shell'[s].link].server = "serving"
                      \/ \E j \in Links : s \in link'[j].victims
    BY DEF Attended
  <2>1. shell[s].result = "ok" /\ ~shell[s].closed /\ shell'[s].link = shell[s].link
    BY <1>2 DEF DrainStep
  <2>2. shell[s].link \in Links
    BY <1>0, <2>1 DEF ShellStages, Unsent
  <2>3. CASE shell[s].mapped /\ link[shell[s].link].server = "serving"
    <3>1. CASE shell[s].link = k
      BY <1>2, <2>3, <3>1 DEF DrainStep, Mapped
    <3>2. CASE shell[s].link # k
      BY <1>2, <2>1, <2>2, <2>3, <3>2 DEF DrainStep
    <3> QED BY <3>1, <3>2
  <2>4. CASE \E j \in Links : s \in link[j].victims
    BY <1>2, <2>4 DEF DrainStep
  <2> QED BY <1>0, <2>1, <2>3, <2>4 DEF Attended
<1>3. ASSUME NEW s \in Shells, CloseStep(s) PROVE Attended'
  <2> SUFFICES ASSUME NEW r \in Shells, shell'[r].result = "ok", ~shell'[r].closed
               PROVE  \/ shell'[r].mapped /\ link'[shell'[r].link].server = "serving"
                      \/ \E j \in Links : r \in link'[j].victims
    BY DEF Attended
  <2>1. r # s /\ shell'[r] = shell[r]
    BY <1>3 DEF CloseStep
  <2>2. shell[r].link \in Links
    BY <1>0, <2>1 DEF ShellStages, Unsent
  <2>3. link'[shell[r].link].server = link[shell[r].link].server
    BY <1>3, <2>2 DEF CloseStep
  <2>4. \A j \in Links : r \in link[j].victims => r \in link'[j].victims
    BY <1>3, <2>1 DEF CloseStep
  <2> QED BY <1>0, <2>1, <2>3, <2>4 DEF Attended
<1>4. ASSUME NEW s \in Shells, ShellStep(s) PROVE Attended'
  <2> SUFFICES ASSUME NEW r \in Shells, shell'[r].result = "ok", ~shell'[r].closed
               PROVE  \/ shell'[r].mapped /\ link'[shell'[r].link].server = "serving"
                      \/ \E j \in Links : r \in link'[j].victims
    BY DEF Attended
  <2>1. link' = link /\ (r # s => shell'[r] = shell[r])
    BY <1>4 DEF ShellStep
  <2>2. CASE r # s
    BY <1>0, <2>1, <2>2 DEF Attended
  <2>3. CASE r = s /\ shell[s].result = "ok"
    BY <1>0, <1>4, <2>1, <2>3 DEF ShellStep, Attended, ShellStages, Unsent
  <2>4. CASE r = s /\ shell[s].result # "ok"
    <3>1. PICK l \in Links : /\ link[l].server = "serving" /\ up[l] # <<>>
                             /\ Head(up[l]).id = s
                             /\ shell'[s].mapped /\ shell'[s].link = shell[s].link
      BY <1>4, <2>4 DEF ShellStep
    <3>2. up[l] \in Seq(Message)
      BY DEF ShellInvariant, ShellTypes
    <3>3. up[l][1].id = s /\ 1 \in 1..Len(up[l])
      BY <3>1, <3>2
    <3>4. shell[s].link = l
      BY <3>3 DEF ShellInvariant, UpMessages, UpFits
    <3> QED BY <2>1, <2>4, <3>1, <3>4
  <2> QED BY <2>2, <2>3, <2>4
<1> QED BY <1>1, <1>2, <1>3, <1>4, StepKinds, SameGoOn DEF LinkStep, AgentStep

\* Nor do the victims of a shutdown escape it.
LEMMA VictimsStep ==
    ASSUME ShellInvariant, [Next]_vars, ShellTypes'
    PROVE  Victims'
<1>0. /\ NoLink \notin Links
      /\ \A s \in Shells : shell[s].link \in Links \cup {NoLink}
      /\ \A l \in Links : link[l].victims \subseteq Shells
      /\ \A l \in Links : link[l].victims # {} => link[l].server \in {"registering", "exiting"}
      /\ \A l \in Links : hub = l => link[l].server \in {"serving", "exiting"}
      /\ Victims /\ ShellStages
      /\ \A s \in Shells : ~Unlisted(s) => shell'[s].link = shell[s].link /\ ~Unlisted(s)'
  BY NamesAssumption, ShellsGoOn
     DEF ShellInvariant, ShellTypes, Shell, Link, LinkStages, Onward
<1>1. ASSUME shell' = shell, HandlersGoOn PROVE Victims'
  <2> SUFFICES ASSUME NEW k \in Links, NEW s \in link'[k].victims
               PROVE  /\ ~Unlisted(s)'
                      /\ link'[k].server = "exiting" => shell'[s].link = k
                      /\ link'[k].server = "registering" =>
                           link'[shell'[s].link].server \in {"serving", "exiting"}
    BY DEF Victims
  <2>1. s \in link[k].victims /\ s \in Shells /\ ~Unlisted(s)
    BY <1>0, <1>1 DEF HandlersGoOn, Victims
  <2>2. shell[s].link \in Links
    BY <1>0, <2>1 DEF Unlisted
  <2>3. /\ link'[k].server = "exiting" => link[k].server = "exiting"
        /\ link'[k].server = "registering" =>
              /\ link[k].server = "registering"
              /\ link[shell[s].link].server \in {"serving", "exiting"} =>
                                    link'[shell[s].link].server \in {"serving", "exiting"}
    BY <1>1, <2>1, <2>2 DEF HandlersGoOn
  <2> QED BY <1>0, <1>1, <2>1, <2>3 DEF Victims
<1>2. ASSUME NEW l \in Links, NEW j \in Links, DrainStep(l, j) PROVE Victims'
  <2> SUFFICES ASSUME NEW k \in Links, NEW s \in link'[k].victims
               PROVE  /\ ~Unlisted(s)'
                      /\ link'[k].server = "exiting" => shell'[s].link = k
                      /\ link'[k].server = "registering" =>
                           link'[shell'[s].link].server \in {"serving", "exiting"}
    BY DEF Victims
  <2>1. CASE k = l
    <3>1. s \in Mapped(j)
      BY <1>2, <2>1 DEF DrainStep
    <3>2. s \in Shells /\ shell[s].mapped /\ shell[s].link = j /\ ~Unlisted(s)
      BY <1>0, <3>1 DEF Mapped, ShellStages
    <3>3. shell'[s].link = j /\ ~Unlisted(s)'
      BY <1>0, <3>2
    <3>4. CASE link'[l].server = "exiting"
      BY <1>2, <2>1, <3>3, <3>4 DEF DrainStep
    <3>5. CASE link'[l].server = "registering"
      <4>1. hub = j /\ link[l].server = "locking"
        BY <1>2, <3>5 DEF DrainStep
      <4>2. link[j].server \in {"serving", "exiting"} /\ j # l
        BY <1>0, <4>1
      <4>3. link'[j] = link[j]
        BY <1>2, <4>2 DEF DrainStep
      <4> QED BY <2>1, <3>3, <3>5, <4>2, <4>3
    <3> QED BY <1>2, <2>1, <3>3, <3>4, <3>5 DEF DrainStep
  <2>2. CASE k # l
    <3>1. link'[k] = link[k] /\ s \in link[k].victims /\ s \in Shells
      BY <1>0, <1>2, <2>2 DEF DrainStep
    <3>2. ~Unlisted(s) /\ shell'[s].link = shell[s].link /\ shell[s].link \in Links
      BY <1>0, <3>1 DEF Victims, Unlisted
    <3>3. link[shell[s].link].server \in {"serving", "exiting"} =>
            link'[shell[s].link].server \in {"serving", "exiting"}
      BY <1>2, <3>2 DEF DrainStep
    <3> QED BY <1>0, <3>1, <3>2, <3>3 DEF Victims
  <2> QED BY <2>1, <2>2
<1>3. ASSUME NEW r \in Shells, CloseStep(r) PROVE Victims'
  <2> SUFFICES ASSUME NEW k \in Links, NEW s \in link'[k].victims
               PROVE  /\ ~Unlisted(s)'
                      /\ link'[k].server = "exiting" => shell'[s].link = k
                      /\ link'[k].server = "registering" =>
                           link'[shell'[s].link].server \in {"serving", "exiting"}
    BY DEF Victims
  <2>1. s \in link[k].victims /\ s \in Shells /\ ~Unlisted(s)
    BY <1>0, <1>3 DEF CloseStep, Victims
  <2>2. shell[s].link \in Links /\ shell'[s].link = shell[s].link
    BY <1>0, <2>1 DEF Unlisted
  <2>3. /\ link'[k].server = link[k].server
        /\ link'[shell[s].link].server = link[shell[s].link].server
    BY <1>3, <2>2 DEF CloseStep
  <2> QED BY <1>0, <2>1, <2>2, <2>3 DEF Victims
<1>4. ASSUME NEW r \in Shells, ShellStep(r) PROVE Victims'
  <2>1. link' = link
    BY <1>4 DEF ShellStep
  <2>2. \A k \in Links : \A s \in link[k].victims :
          s \in Shells /\ ~Unlisted(s)' /\ shell'[s].link = shell[s].link
    BY <1>0 DEF Victims
  <2> QED BY <1>0, <2>1, <2>2 DEF Victims
<1> QED BY <1>1, <1>2, <1>3, <1>4, StepKinds, SameGoOn DEF LinkStep, AgentStep

\* What the read loop of a link starts to deliver.
LEMMA BusyGoesOn ==
    ASSUME ShellInvariant, [Next]_vars, NEW l \in Links
    PROVE  \/ link'[l].busy \in {link[l].busy, Nobody}
           \/ /\ up[l] # <<>> /\ Head(up[l]).type = "data"
              /\ link'[l].busy = Head(up[l]).id /\ shell[Head(up[l]).id].mapped
<1>0. link \in [Links -> Link]
  BY DEF ShellInvariant, ShellTypes
<1>1. ASSUME NEW k \in Links,
             \/ Dial(k) \/ Cut(k) \/ Block(k)
             \/ RegisterLock(k) \/ RegisterEnd(k) \/ Unregister(k) \/ CloseSocket(k)
             \/ AgentHangUp(k) \/ (RegisterBegin(k) /\ hub = NoLink)
      PROVE  link'[l].busy = link[l].busy
  BY <1>0, <1>1 DEF Dial, Cut, Block, RegisterLock, RegisterEnd, Unregister, CloseSocket, AgentHangUp,
       RegisterBegin, SetLink, Link
<1>2. ASSUME NEW k \in Links, ReadData(k)
      PROVE  \/ link'[l].busy = link[l].busy
             \/ /\ up[l] # <<>> /\ Head(up[l]).type = "data"
                /\ link'[l].busy = Head(up[l]).id /\ shell[Head(up[l]).id].mapped
  <2>1. Head(up[k]).id \in Shells
    BY <1>2, HeadTaken DEF ReadData, Reading, ShellInvariant
  <2>2. CASE link' = link BY <2>2
  <2>3. CASE shell[Head(up[k]).id].mapped /\ SetLink(k, "busy", Head(up[k]).id)
    <3>1. link' = [link EXCEPT ![k].busy = Head(up[k]).id]
      BY <1>0, <2>1, <2>3, LinkField
    <3>2. link'[k].busy = Head(up[k]).id /\ \A j \in Links \ {k} : link'[j] = link[j]
      BY <1>0, <2>1, <3>1 DEF Link
    <3> QED BY <1>2, <2>3, <3>2 DEF ReadData, Reading
  <2> QED BY <1>2, <2>2, <2>3 DEF ReadData
<1>3. ASSUME NEW s \in Shells, ReadOutput(s) \/ BrowserReads(s)
      PROVE  link'[l].busy \in {link[l].busy, Nobody}
  BY <1>0, <1>3 DEF ReadOutput, BrowserReads, SetLink, Link
<1>4. ASSUME NEW j \in Links, NEW k \in Links, DrainStep(j, k)
      PROVE  link'[l].busy = link[l].busy
  BY <1>4 DEF DrainStep
<1>5. ASSUME NEW s \in Shells, CloseStep(s) \/ ShellStep(s)
      PROVE  link'[l].busy \in {link[l].busy, Nobody}
  BY <1>5 DEF CloseStep, ShellStep
<1>6. AgentStep => link'[l].busy = link[l].busy
  BY DEF AgentStep
<1>7. ASSUME NEW k \in Links, ReadOpened(k) \/ ReadShellError(k) \/ ReadClose(k)
      PROVE  link' = link
  BY <1>7 DEF ReadOpened, ReadShellError, ReadClose
<1>8. ASSUME NEW k \in Links, ReadError(k) \/ (RegisterBegin(k) /\ hub # NoLink)
      PROVE  link'[l].busy = link[l].busy
  BY <1>4, <1>8, DrainSteps
<1>9. ASSUME NEW k \in Links, ShutdownOne(k) \/ WriteAborted(k)
      PROVE  link'[l].busy \in {link[l].busy, Nobody}
  BY <1>5, <1>9, CloseSteps
<1>10. ASSUME NEW s \in Shells, Console(s)
       PROVE  link'[l].busy \in {link[l].busy, Nobody}
  BY <1>3, <1>5, <1>10, CloseSteps, ShellSteps DEF Console
<1>11. ASSUME Agent PROVE link'[l].busy = link[l].busy
  BY <1>1, <1>6, <1>11, AgentSteps DEF Agent, AgentActs
<1>12. UNCHANGED vars => link' = link
  BY DEF vars
<1> QED BY <1>1, <1>2, <1>7, <1>8, <1>9, <1>10, <1>11, <1>12 DEF Next, Handler

\* The read loop waits for Consoles that have their verdict.
LEMMA BlocksStep ==
    ASSUME ShellInvariant, [Next]_vars, ShellTypes'
    PROVE  BlocksOnlyOnOpened'
<1> SUFFICES ASSUME NEW l \in Links, link'[l].busy # Nobody
             PROVE  shell'[link'[l].busy].result = "ok"
  BY DEF BlocksOnlyOnOpened
<1>1. link'[l].busy \in Shells /\ \A s \in Shells : Onward(s)
  BY ShellsGoOn DEF ShellTypes, Link
<1>2. CASE link'[l].busy = link[l].busy
  <2>1. shell[link[l].busy].result = "ok"
    BY <1>2 DEF ShellInvariant, BlocksOnlyOnOpened
  <2> QED BY <1>1, <1>2, <2>1 DEF Onward
<1>3. CASE /\ up[l] # <<>> /\ Head(up[l]).type = "data"
           /\ link'[l].busy = Head(up[l]).id /\ shell[Head(up[l]).id].mapped
  <2>1. up[l] \in Seq(Message)
    BY DEF ShellInvariant, ShellTypes
  <2>2. 1 \in 1..Len(up[l]) /\ Head(up[l]) = up[l][1]
    BY <1>3, <2>1
  <2>3. shell[Head(up[l]).id].result = "ok"
    BY <1>3, <2>2 DEF ShellInvariant, UpMessages, UpFits, Opens
  <2> QED BY <1>1, <1>3, <2>3 DEF Onward
<1> QED BY <1>2, <1>3, BusyGoesOn

-----------------------------------------------------------------------------
(* The queues *)

\* What may be added to the messages to the Agent.
DownStep(l) ==
    \/ down'[l] = down[l]
    \/ down'[l] = <<>> /\ link'[l].wire = "cut"
    \/ /\ down[l] # <<>> /\ down'[l] = Tail(down[l])
       /\ down[l][1].type = "close" => ~pty'[down[l][1].id].live
    \/ \E m \in Message :
         /\ down'[l] = Append(down[l], m)
         /\ shell[m.id].link = l /\ ~Unlisted(m.id)
         /\ m.type # "close" => ~Unsent(m.id)'
         /\ m.type = "open" => shell[m.id].pc = "write"

\* An entry of a queue is a message.
LEMMA EntryIsMessage ==
    ASSUME ShellTypes, NEW l \in Links
    PROVE  /\ \A i \in 1..Len(down[l]) : down[l][i] \in Message /\ down[l][i].id \in Shells
           /\ \A i \in 1..Len(up[l]) : up[l][i] \in Message /\ up[l][i].id \in Shells
<1>1. down[l] \in Seq(Message) /\ up[l] \in Seq(Message)
  BY DEF ShellTypes
<1>2. /\ \A i \in 1..Len(down[l]) : down[l][i] \in Message
      /\ \A i \in 1..Len(up[l]) : up[l][i] \in Message
  BY <1>1
<1> QED BY <1>2 DEF Message

\* The queue to the Agent changes in these ways only.
LEMMA DownSteps ==
    ASSUME ShellInvariant, [Next]_vars
    PROVE  down' \in [Links -> Seq(Message)] /\ \A l \in Links : DownStep(l)
<1>0. /\ down \in [Links -> Seq(Message)] /\ ShellTypes /\ NoLink \notin Links
      /\ pty \in [Shells -> [live: BOOLEAN, output: Nat]]
      /\ \A s \in Shells : shell[s].link \in Links \cup {NoLink}
      /\ \A s \in Shells : shell[s].link = NoLink => shell[s].pc \in {"idle", "done"}
  BY NamesAssumption DEF ShellInvariant, ShellTypes, Shell, ShellStages
<1>1. CASE down' = down
  BY <1>0, <1>1 DEF DownStep
<1>2. ASSUME NEW k \in Links, down' = [down EXCEPT ![k] = <<>>], link'[k].wire = "cut"
      PROVE  down' \in [Links -> Seq(Message)] /\ \A l \in Links : DownStep(l)
  <2>1. down'[k] = <<>> /\ \A l \in Links \ {k} : down'[l] = down[l]
    BY <1>0, <1>2
  <2> QED BY <1>0, <1>2, <2>1 DEF DownStep
<1>3. ASSUME NEW s \in Shells, NEW t \in Types, NEW k \in Links, k = shell[s].link,
             down' = Sent(k, t, s), ~Unlisted(s),
             t # "close" => ~Unsent(s)', t = "open" => shell[s].pc = "write"
      PROVE  down' \in [Links -> Seq(Message)] /\ \A l \in Links : DownStep(l)
  <2> DEFINE d == Sent(k, t, s)
  <2>0. /\ d \in [Links -> Seq(Message)]
        /\ \A l \in Links \ {k} : d[l] = down[l]
        /\ link[k].wire = "up" => d[k] = Append(down[k], [type |-> t, id |-> s])
        /\ link[k].wire # "up" => d = down
    BY <1>0, <1>3, SentTo
  <2>4. down' = d
    BY <1>3
  <2> HIDE DEF d
  <2>1. /\ down' \in [Links -> Seq(Message)]
        /\ \A l \in Links \ {k} : down'[l] = down[l]
        /\ \/ down' = down
           \/ down'[k] = Append(down[k], [type |-> t, id |-> s])
    BY <2>0, <2>4
  <2>2. [type |-> t, id |-> s] \in Message
    BY DEF Types, Message
  <2>3. DownStep(k)
    BY <1>3, <2>1, <2>2 DEF DownStep
  <2> QED BY <2>1, <2>3 DEF DownStep
<1>4. ASSUME NEW s \in Shells, CloseStep(s)
      PROVE  down' \in [Links -> Seq(Message)] /\ \A l \in Links : DownStep(l)
  <2>1. CASE shell[s].closed
    BY <1>1, <1>4, <2>1 DEF CloseStep
  <2>2. CASE ~shell[s].closed
    <3>1. down' = Sent(shell[s].link, "close", s) /\ ~Unlisted(s)
      BY <1>4, <2>2 DEF CloseStep
    <3>2. shell[s].link \in Links
      BY <1>0, <3>1 DEF Unlisted
    <3> QED BY <1>3, <3>1, <3>2 DEF Types
  <2> QED BY <2>1, <2>2
<1>5. ASSUME NEW s \in Shells, ShellStep(s)
      PROVE  down' \in [Links -> Seq(Message)] /\ \A l \in Links : DownStep(l)
  <2>1. CASE down' = Sent(shell[s].link, "open", s) /\ shell[s].pc = "write"
             /\ shell'[s].pc = "wait" /\ shell'[s].link = shell[s].link
    <3>1. shell[s].link \in Links /\ ~Unlisted(s) /\ ~Unsent(s)'
      BY <1>0, <2>1 DEF Unlisted, Unsent
    <3> QED BY <1>3, <2>1, <3>1 DEF Types
  <2>2. CASE down' = Sent(shell[s].link, "data", s) /\ shell[s].pc = "bridged"
             /\ shell'[s].pc = "bridged" /\ shell'[s].link = shell[s].link
    <3>1. shell[s].link \in Links /\ ~Unlisted(s) /\ ~Unsent(s)'
      BY <1>0, <2>2 DEF Unlisted, Unsent
    <3> QED BY <1>3, <2>2, <3>1 DEF Types
  <2> QED BY <1>1, <1>5, <2>1, <2>2 DEF ShellStep
<1>6. ASSUME NEW k \in Links, AgentReader(k)
      PROVE  down' \in [Links -> Seq(Message)] /\ \A l \in Links : DownStep(l)
  <2>1. down[k] # <<>> /\ down' = [down EXCEPT ![k] = Tail(@)]
    BY <1>6 DEF AgentReader, AgentOpen, AgentInput, AgentClose, AgentReading
  <2>2. /\ Tail(down[k]) \in Seq(Message) /\ 1 \in 1..Len(down[k])
        /\ Head(down[k]) = down[k][1]
    <3>1. down[k] \in Seq(Message)
      BY <1>0
    <3> QED BY <2>1, <3>1
  <2>3. ASSUME down[k][1].type = "close" PROVE ~pty'[down[k][1].id].live
    <3>1. AgentClose(k)
      BY <1>6, <2>2, <2>3 DEF AgentReader, AgentOpen, AgentInput
    <3>2. pty' = [pty EXCEPT ![down[k][1].id].live = FALSE] /\ down[k][1].id \in Shells
      BY <1>0, <2>2, <3>1, EntryIsMessage DEF AgentClose
    <3> QED BY <1>0, <3>2
  <2>4. DownStep(k)
    BY <1>0, <2>1, <2>3 DEF DownStep
  <2>5. \A l \in Links \ {k} : down'[l] = down[l]
    BY <1>0, <2>1
  <2> QED BY <1>0, <2>1, <2>2, <2>4, <2>5 DEF DownStep
<1>7. ASSUME \/ \E l \in Links : AgentDrain(l)
             \/ \E s \in Shells : PtyOutput(s) \/ PtyExit(s)
      PROVE  down' = down
  BY <1>7 DEF AgentDrain, PtyOutput, PtyExit
<1>8. CASE LinkStep
  BY <1>1, <1>2, <1>8 DEF LinkStep
<1>9. ASSUME NEW l \in Links, NEW k \in Links, DrainStep(l, k) PROVE down' = down
  BY <1>9 DEF DrainStep
<1>10. CASE AgentStep
  BY <1>1, <1>6, <1>7, <1>10 DEF AgentStep, AgentActs
<1> QED BY <1>1, <1>4, <1>5, <1>8, <1>9, <1>10, StepKinds

\* A message that the Agent may add: output of a shell it has announced.
Follows(l, m) == m \in Message /\ UpFits(l, m, Len(up[l]))

\* The Server takes the first message, or the Agent adds some.
UpStep(l) ==
    \/ up'[l] = <<>> /\ link'[l].wire = "cut"
    \/ /\ up[l] # <<>> /\ up'[l] = Tail(up[l])
       /\ up[l][1].type = "opened" /\ shell'[up[l][1].id].mapped =>
            shell'[up[l][1].id].result = "ok"
    \/ /\ Len(up[l]) \in 0..Len(up'[l])
       /\ \A i \in 1..Len(up[l]) : up'[l][i] = up[l][i]
       /\ \A i \in Len(up[l]) + 1..Len(up'[l]) : Follows(l, up'[l][i])

\* What a queue is with two messages more.
LEMMA TwoAppended ==
    ASSUME NEW S, NEW q \in Seq(S), NEW c \in S, NEW d \in S,
           NEW r, r = Append(Append(q, c), d)
    PROVE  /\ Len(q) \in 0..Len(r)
           /\ \A i \in 1..Len(q) : r[i] = q[i]
           /\ \A i \in Len(q) + 1..Len(r) : r[i] \in {c, d}
<1> DEFINE p == Append(q, c)
<1>1. /\ p \in Seq(S) /\ Len(p) = Len(q) + 1 /\ p[Len(q) + 1] = c
      /\ \A i \in 1..Len(q) : p[i] = q[i]
  OBVIOUS
<1>2. Len(q) \in Nat /\ r = Append(p, d)
  OBVIOUS
<1> HIDE DEF p
<1>3. Len(r) = Len(p) + 1 /\ r[Len(p) + 1] = d /\ \A i \in 1..Len(p) : r[i] = p[i]
  BY <1>1, <1>2
<1>4. ASSUME NEW i \in Len(q) + 1..Len(r) PROVE r[i] \in {c, d}
  <2>1. i = Len(q) + 1 \/ i = Len(p) + 1
    BY <1>1, <1>2, <1>3
  <2>2. CASE i = Len(q) + 1
    BY <1>1, <1>2, <1>3, <2>2
  <2> QED BY <1>3, <2>1, <2>2
<1> QED BY <1>1, <1>2, <1>3, <1>4

\* closeShell(id, true) of a PTY that runs adds what may follow.
LEMMA CloseShellFollows ==
    ASSUME ShellInvariant, NEW s \in Shells, NEW l \in Links, l = shell[s].link,
           pty[s].live, CloseShell(l, s)
    PROVE  up' \in [Links -> Seq(Message)] /\ \A k \in Links : UpStep(k)
<1> DEFINE c == [type |-> "close", id |-> s]
           d == [type |-> "data", id |-> s]
<1>1. c \in Message /\ d \in Message /\ c.id = s /\ d.id = s /\ c.type = "close"
  BY DEF Message
<1>2. /\ up' \in [Links -> Seq(Message)]
      /\ \A k \in Links \ {l} : up'[k] = up[k]
      /\ \/ up'[l] = up[l]
         \/ up'[l] = Append(up[l], c)
         \/ up'[l] = Append(Append(up[l], c), d)
      /\ link[l].wire # "up" => up' = up
  BY CloseShellSends DEF ShellInvariant
<1>3. up \in [Links -> Seq(Message)] /\ ~Unsent(s)
  BY DEF ShellInvariant, ShellTypes, ShellStages
<1> HIDE DEF c, d
<1>4. \A k \in Links : up'[k] = up[k] => UpStep(k)
  BY <1>3 DEF UpStep
<1>5. CASE link[l].wire # "up"
  BY <1>2, <1>4, <1>5
<1>6. CASE link[l].wire = "up"
  <2>1. Follows(l, c) /\ Follows(l, d)
    BY <1>1, <1>3, <1>6 DEF Follows, UpFits, ShellInvariant, PtyAnnounced
  <2>2. CASE up'[l] = Append(up[l], c)
    <3>1. /\ Len(up'[l]) = Len(up[l]) + 1 /\ Len(up[l]) \in Nat
          /\ \A i \in 1..Len(up[l]) : up'[l][i] = up[l][i]
          /\ up'[l][Len(up[l]) + 1] = c
      BY <1>1, <1>3, <2>2
    <3>2. UpStep(l)
      BY <2>1, <3>1 DEF UpStep
    <3> QED BY <1>2, <1>4, <3>2
  <2>3. CASE up'[l] = Append(Append(up[l], c), d)
    <3>1. /\ Len(up[l]) \in 0..Len(up'[l])
          /\ \A i \in 1..Len(up[l]) : up'[l][i] = up[l][i]
          /\ \A i \in Len(up[l]) + 1..Len(up'[l]) : up'[l][i] \in {c, d}
      BY <1>1, <1>3, <2>3, TwoAppended
    <3>2. UpStep(l)
      BY <2>1, <3>1 DEF UpStep
    <3> QED BY <1>2, <1>4, <3>2
  <2> QED BY <1>2, <1>4, <2>2, <2>3
<1> QED BY <1>5, <1>6

\* So does a message of its own.
LEMMA SendUpFollows ==
    ASSUME ShellInvariant, NEW s \in Shells, NEW l \in Links, l = shell[s].link,
           NEW t \in Types, SendUp(l, t, s), ~Unsent(s), t = "data" => pty[s].live
    PROVE  up' \in [Links -> Seq(Message)] /\ \A k \in Links : UpStep(k)
<1> DEFINE m == [type |-> t, id |-> s]
<1>1. m \in Message /\ m.id = s /\ m.type = t
  BY DEF Message, Types
<1>2. /\ up' \in [Links -> Seq(Message)]
      /\ \A k \in Links \ {l} : up'[k] = up[k]
      /\ link[l].wire = "up" => up'[l] = Append(up[l], m)
      /\ link[l].wire # "up" => up' = up
  BY SentUp DEF ShellInvariant
<1>3. up \in [Links -> Seq(Message)]
  BY DEF ShellInvariant, ShellTypes
<1> HIDE DEF m
<1>4. \A k \in Links : up'[k] = up[k] => UpStep(k)
  BY <1>3 DEF UpStep
<1>5. CASE link[l].wire # "up"
  BY <1>2, <1>4, <1>5
<1>6. CASE link[l].wire = "up"
  <2>1. Follows(l, m)
    BY <1>1, <1>6 DEF Follows, UpFits, ShellInvariant, PtyAnnounced
  <2>2. /\ Len(up'[l]) = Len(up[l]) + 1 /\ Len(up[l]) \in Nat
        /\ \A i \in 1..Len(up[l]) : up'[l][i] = up[l][i]
        /\ up'[l][Len(up[l]) + 1] = m
    BY <1>1, <1>2, <1>3, <1>6
  <2>3. UpStep(l)
    BY <2>1, <2>2 DEF UpStep
  <2> QED BY <1>2, <1>4, <2>3
<1> QED BY <1>5, <1>6

\* The queue to the Server changes in these ways only.
LEMMA UpSteps ==
    ASSUME ShellInvariant, [Next]_vars
    PROVE  up' \in [Links -> Seq(Message)] /\ \A l \in Links : UpStep(l)
<1>0. /\ up \in [Links -> Seq(Message)] /\ down \in [Links -> Seq(Message)]
      /\ ShellTypes /\ NoLink \notin Links
      /\ \A s \in Shells : shell[s].link \in Links \cup {NoLink}
      /\ \A s \in Shells : shell[s].mapped => shell[s].result # "err"
      /\ \A s \in Shells : shell[s].result \in {"none", "ok", "err"}
      /\ \A s \in Shells : pty[s].live => ~Unsent(s)
  BY NamesAssumption DEF ShellInvariant, ShellTypes, Shell, ShellStages
<1>1. CASE up' = up
  BY <1>0, <1>1 DEF UpStep
<1>2. ASSUME NEW k \in Links, up' = [up EXCEPT ![k] = <<>>], link'[k].wire = "cut"
      PROVE  up' \in [Links -> Seq(Message)] /\ \A l \in Links : UpStep(l)
  <2>1. up'[k] = <<>> /\ \A l \in Links \ {k} : up'[l] = up[l]
    BY <1>0, <1>2
  <2>2. \A l \in Links \ {k} : UpStep(l)
    BY <1>0, <2>1 DEF UpStep
  <2> QED BY <1>0, <1>2, <2>1, <2>2 DEF UpStep
<1>3. ASSUME NEW k \in Links, up[k] # <<>>, up' = [up EXCEPT ![k] = Tail(@)],
             Head(up[k]).type = "opened" /\ shell'[Head(up[k]).id].mapped =>
               shell'[Head(up[k]).id].result = "ok"
      PROVE  up' \in [Links -> Seq(Message)] /\ \A l \in Links : UpStep(l)
  <2>1. up[k] \in Seq(Message)
    BY <1>0
  <2>2. Tail(up[k]) \in Seq(Message) /\ Head(up[k]) = up[k][1]
    BY <1>3, <2>1
  <2>3. up' \in [Links -> Seq(Message)] /\ up'[k] = Tail(up[k])
        /\ \A l \in Links \ {k} : up'[l] = up[l]
    BY <1>0, <1>3, <2>2
  <2>4. \A l \in Links \ {k} : UpStep(l)
    BY <1>0, <2>3 DEF UpStep
  <2>5. UpStep(k)
    BY <1>3, <2>2, <2>3 DEF UpStep
  <2> QED BY <2>3, <2>4, <2>5
<1>4. CASE LinkStep
  <2>1. ASSUME NEW k \in Links, up[k] # <<>>, up' = [up EXCEPT ![k] = Tail(@)],
               Head(up[k]).type = "opened" => ~shell[Head(up[k]).id].mapped
        PROVE  up' \in [Links -> Seq(Message)] /\ \A l \in Links : UpStep(l)
    BY <1>3, <1>4, <2>1 DEF LinkStep
  <2> QED BY <1>1, <1>2, <1>4, <2>1 DEF LinkStep
<1>5. ASSUME NEW l \in Links, NEW k \in Links, DrainStep(l, k) PROVE up' = up
  BY <1>5 DEF DrainStep
<1>6. ASSUME NEW s \in Shells, CloseStep(s)
      PROVE  up' \in [Links -> Seq(Message)] /\ \A l \in Links : UpStep(l)
  BY <1>1, <1>3, <1>6 DEF CloseStep, Takes
<1>7. ASSUME NEW s \in Shells, ShellStep(s)
      PROVE  up' \in [Links -> Seq(Message)] /\ \A l \in Links : UpStep(l)
  <2>1. ASSUME NEW l \in Links, up[l] # <<>>, up' = [up EXCEPT ![l] = Tail(@)],
               Head(up[l]).id = s, shell[s].mapped,
               shell'[s].result = IF shell[s].result = "none" THEN "ok" ELSE shell[s].result
        PROVE  up' \in [Links -> Seq(Message)] /\ \A k \in Links : UpStep(k)
    <3>1. shell'[s].result = "ok"
      BY <1>0, <2>1
    <3> QED BY <1>3, <2>1, <3>1
  <2> QED BY <1>1, <1>7, <2>1 DEF ShellStep
<1>8. ASSUME NEW l \in Links, AgentReader(l)
      PROVE  up' \in [Links -> Seq(Message)] /\ \A k \in Links : UpStep(k)
  <2> DEFINE s == Head(down[l]).id
  <2>1. down[l] # <<>> /\ down[l] \in Seq(Message)
    BY <1>0, <1>8 DEF AgentReader, AgentOpen, AgentInput, AgentClose, AgentReading
  <2>2. /\ Head(down[l]) \in Message /\ Head(down[l]) = down[l][1]
        /\ 1 \in 1..Len(down[l])
    BY <2>1
  <2>3. s \in Shells /\ shell[s].link = l
    BY <2>2 DEF Message, ShellInvariant, DownMessages, DownFits
  <2>4. CASE AgentOpen(l)
    <3>1. ~Unsent(s)
      BY <2>2, <2>4 DEF AgentOpen, ShellInvariant, DownMessages, DownFits
    <3>2. SendUp(l, "opened", s) \/ SendUp(l, "error", s) \/ up' = up
      BY <2>4 DEF AgentOpen
    <3> HIDE DEF s
    <3> QED BY <1>1, <2>3, <3>1, <3>2, SendUpFollows DEF Types
  <2>5. CASE AgentInput(l)
    <3>1. up' = up \/ (pty[s].live /\ CloseShell(l, s))
      BY <2>5 DEF AgentInput
    <3> HIDE DEF s
    <3> QED BY <1>1, <2>3, <3>1, CloseShellFollows
  <2>6. CASE AgentClose(l)
    BY <1>1, <2>6 DEF AgentClose
  <2> QED BY <1>8, <2>4, <2>5, <2>6 DEF AgentReader
<1>9. ASSUME NEW l \in Links, AgentDrain(l) PROVE up' = up
  BY <1>9 DEF AgentDrain
<1>10. ASSUME NEW s \in Shells, PtyOutput(s) \/ PtyExit(s)
       PROVE  up' \in [Links -> Seq(Message)] /\ \A k \in Links : UpStep(k)
  <2>1. pty[s].live /\ ~Unsent(s)
    BY <1>0, <1>10 DEF PtyOutput, PtyExit
  <2>2. shell[s].link \in Links
    BY <1>0, <2>1 DEF Unsent
  <2>3. CASE PtyOutput(s)
    BY <2>1, <2>2, <2>3, SendUpFollows DEF PtyOutput, Types
  <2>4. CASE PtyExit(s)
    BY <2>1, <2>2, <2>4, CloseShellFollows DEF PtyExit
  <2> QED BY <1>10, <2>3, <2>4
<1>11. CASE AgentStep
  BY <1>1, <1>8, <1>9, <1>10, <1>11 DEF AgentStep, AgentActs
<1> QED BY <1>1, <1>4, <1>5, <1>6, <1>7, <1>11, StepKinds

\* What was announced stays so: a Console that is still in the table has taken
\* its shell_opened, or it is in the queue as before.
LEMMA OpensStay ==
    ASSUME ShellTypes, NEW l \in Links, NEW s \in Shells, UpStep(l),
           up' \in [Links -> Seq(Message)], up'[l] # <<>> \/ link'[l].wire # "cut",
           NEW n \in 0..Len(up[l]), Opens(up[l], s, n), shell'[s].mapped
    PROVE  /\ up[l] # <<>> /\ up'[l] = Tail(up[l]) =>
                shell'[s].result = "ok" \/ Opens(up'[l], s, n - 1)
           /\ ~(up[l] # <<>> /\ up'[l] = Tail(up[l])) => Opens(up'[l], s, n)
<1>1. up[l] \in Seq(Message) /\ up'[l] \in Seq(Message)
  BY DEF ShellTypes
<1>2. PICK j \in 1..n : up[l][j].type = "opened" /\ up[l][j].id = s
  BY DEF Opens
<1>3. CASE up[l] # <<>> /\ up'[l] = Tail(up[l])
  <2>1. CASE j = 1
    <3>1. CASE up[l][1].type = "opened" /\ shell'[up[l][1].id].mapped =>
                 shell'[up[l][1].id].result = "ok"
      BY <1>2, <1>3, <2>1, <3>1
    <3>2. CASE /\ Len(up[l]) \in 0..Len(up'[l])
      BY <1>1, <1>3, <3>2
    <3> QED BY <3>1, <3>2 DEF UpStep
  <2>2. CASE j # 1
    <3>1. j - 1 \in 1..n - 1 /\ j - 1 \in 1..Len(up[l]) - 1
      BY <1>2, <2>2
    <3>2. up'[l][j - 1] = up[l][j]
      BY <1>1, <1>3, <3>1
    <3> QED BY <1>2, <1>3, <3>1, <3>2 DEF Opens
  <2> QED BY <2>1, <2>2
<1>4. CASE ~(up[l] # <<>> /\ up'[l] = Tail(up[l]))
  <2>1. \A i \in 1..Len(up[l]) : up'[l][i] = up[l][i]
    BY <1>4 DEF UpStep
  <2>2. j \in 1..Len(up[l])
    BY <1>1, <1>2
  <2> QED BY <1>2, <1>4, <2>1, <2>2 DEF Opens
<1> QED BY <1>3, <1>4

\* Messages to the Server stay those of announced shells.
LEMMA UpMessagesStep ==
    ASSUME ShellInvariant, [Next]_vars, ShellTypes'
    PROVE  UpMessages'
<1> SUFFICES ASSUME NEW l \in Links, NEW i \in 1..Len(up'[l]), NEW m, m = up'[l][i]
             PROVE  UpFits(l, m, i - 1)'
  BY DEF UpMessages, UpFits, Unsent
<1>0. /\ ShellTypes /\ up[l] \in Seq(Message) /\ up'[l] \in Seq(Message)
      /\ up' \in [Links -> Seq(Message)]
      /\ \A s \in Shells : Onward(s)
      /\ UpStep(l)
  BY ShellsGoOn, UpSteps DEF ShellInvariant, ShellTypes
<1>1. m \in Message
  BY <1>0
<1>2. m.id \in Shells /\ Onward(m.id)
  BY <1>0, <1>1 DEF Message
\* It was there, or fits now.
<1>3. ASSUME NEW n \in Nat, UpFits(l, m, n),
             \/ ~Opens(up[l], m.id, n) \/ shell'[m.id].result = "ok"
             \/ Opens(up'[l], m.id, i - 1) \/ ~shell'[m.id].mapped
      PROVE  UpFits(l, m, i - 1)'
  <2>1. /\ shell[m.id].link = l /\ ~Unsent(m.id)
        /\ m.type = "data" /\ shell[m.id].mapped =>
             shell[m.id].result = "ok" \/ Opens(up[l], m.id, n)
    BY <1>3 DEF UpFits
  <2>2. ~Unlisted(m.id)
    BY <2>1 DEF Unsent, Unlisted
  <2>3. /\ shell'[m.id].link = l /\ ~Unsent(m.id)'
        /\ shell'[m.id].mapped => shell[m.id].mapped
        /\ shell[m.id].result = "ok" => shell'[m.id].result = "ok"
    BY <1>2, <2>1, <2>2 DEF Onward
  <2> QED BY <1>3, <2>1, <2>3 DEF UpFits, Opens
<1>4. CASE up'[l] = <<>> /\ link'[l].wire = "cut"
  BY <1>4
<1>5. CASE up[l] # <<>> /\ up'[l] = Tail(up[l])
  <2>4. /\ up[l] \in Seq(Message) /\ up[l] # <<>> /\ m = Tail(up[l])[i]
        /\ i \in 1..Len(Tail(up[l])) /\ up'[l] \in Seq(Message) /\ i \in 1..Len(up'[l])
    BY <1>0, <1>5
  <2>5. Len(up[l]) \in Nat /\ Len(Tail(up[l])) = Len(up[l]) - 1
    BY <2>4
  <2>6. /\ i \in Nat /\ i + 1 \in 1..Len(up[l]) /\ i \in 0..Len(up[l])
        /\ (i + 1) - 1 = i
    BY <2>4, <2>5
  <2>7. m = up[l][i + 1]
    BY <2>4, <2>5
  <2>8. up'[l] # <<>>
    BY <2>4
  <2>1. /\ i + 1 \in 1..Len(up[l]) /\ m = up[l][i + 1] /\ i \in 0..Len(up[l])
        /\ up'[l] # <<>> /\ (i + 1) - 1 = i /\ i \in Nat
    BY <2>6, <2>7, <2>8
  <2>2. UpFits(l, m, i)
    BY <2>1 DEF ShellInvariant, UpMessages
  <2>3. \/ ~Opens(up[l], m.id, i) \/ shell'[m.id].result = "ok"
        \/ Opens(up'[l], m.id, i - 1) \/ ~shell'[m.id].mapped
    BY <1>0, <1>2, <1>5, <2>1, OpensStay
  <2> QED BY <1>3, <2>1, <2>2, <2>3
<1>6. CASE /\ Len(up[l]) \in 0..Len(up'[l])
           /\ \A j \in 1..Len(up[l]) : up'[l][j] = up[l][j]
           /\ \A j \in Len(up[l]) + 1..Len(up'[l]) : Follows(l, up'[l][j])
  <2>1. Len(up[l]) \in Nat /\ Len(up'[l]) \in Nat /\ up'[l] # <<>>
    BY <1>0
  <2>2. ~(up[l] # <<>> /\ up'[l] = Tail(up[l]))
    BY <1>0, <1>6
  <2>3. CASE i \in 1..Len(up[l])
    <3>1. m = up[l][i] /\ i - 1 \in 0..Len(up[l]) /\ i - 1 \in Nat
      BY <1>6, <2>1, <2>3
    <3>2. UpFits(l, m, i - 1)
      BY <2>3, <3>1 DEF ShellInvariant, UpMessages
    <3>3. \/ ~Opens(up[l], m.id, i - 1) \/ shell'[m.id].result = "ok"
          \/ Opens(up'[l], m.id, i - 1) \/ ~shell'[m.id].mapped
      BY <1>0, <1>2, <2>1, <2>2, <3>1, OpensStay
    <3> QED BY <1>3, <3>1, <3>2, <3>3
  <2>4. CASE i \notin 1..Len(up[l])
    <3>1. Follows(l, m) /\ i - 1 \in Len(up[l])..Len(up'[l]) /\ Len(up[l]) \in 0..Len(up[l])
      BY <1>6, <2>1, <2>4
    <3>2. UpFits(l, m, Len(up[l]))
      BY <3>1 DEF Follows
    <3>3. ASSUME Opens(up[l], m.id, Len(up[l])), shell'[m.id].mapped
          PROVE  Opens(up'[l], m.id, i - 1)
      <4>1. Opens(up'[l], m.id, Len(up[l]))
        BY <1>0, <1>2, <2>1, <2>2, <3>1, <3>3, OpensStay
      <4> QED BY <2>1, <3>1, <4>1 DEF Opens
    <3> QED BY <1>3, <2>1, <3>2, <3>3
  <2> QED BY <2>3, <2>4
<1> QED BY <1>0, <1>4, <1>5, <1>6 DEF UpStep

\* A PTY runs only behind its shell_opened, also after the step.
LEMMA PtyAnnouncedStep ==
    ASSUME ShellInvariant, [Next]_vars, ShellTypes'
    PROVE  PtyAnnounced'
<1> SUFFICES ASSUME NEW s \in Shells, pty'[s].live, shell'[s].mapped,
                    link'[shell'[s].link].wire = "up"
             PROVE  \/ shell'[s].result = "ok"
                    \/ Opens(up'[shell'[s].link], s, Len(up'[shell'[s].link]))
  BY DEF PtyAnnounced, Opens
<1> DEFINE l == shell[s].link
<1>0. /\ ShellTypes /\ up \in [Links -> Seq(Message)] /\ up' \in [Links -> Seq(Message)]
      /\ \A k \in Links : UpStep(k)
      /\ Onward(s) /\ LinksGoOn /\ NoLink \notin Links /\ ShellStages
      /\ shell[s].link \in Links \cup {NoLink}
  BY NamesAssumption, ShellsGoOn, UpSteps, LinksAlwaysGoOn
     DEF ShellInvariant, ShellTypes, Shell
<1>1. ~Unsent(s)
  BY <1>0, PtyStarts DEF ShellStages
<1>2. ~Unlisted(s) /\ l \in Links /\ shell'[s].link = l /\ shell[s].mapped
  BY <1>0, <1>1 DEF Unsent, Unlisted, Onward
<1>3. link[l].wire = "up" /\ link'[l].wire # "cut"
  BY <1>0, <1>2 DEF LinksGoOn, ShellStages, Carries
<1>4. CASE ~pty[s].live
  <2> DEFINE o == [type |-> "opened", id |-> s]
  <2>1. SendUp(l, "opened", s)
    BY <1>4, PtyStarts
  <2> HIDE DEF l
  <2>2. up'[l] = Append(up[l], o)
    BY <1>0, <1>2, <1>3, <2>1, SentUp DEF Types
  <2>3. up[l] \in Seq(Message) /\ o \in Message /\ o.type = "opened" /\ o.id = s
    BY <1>0, <1>2 DEF Message
  <2> HIDE DEF o
  <2>4. /\ Len(up'[l]) = Len(up[l]) + 1 /\ Len(up[l]) \in Nat
        /\ up'[l][Len(up[l]) + 1] = o
    BY <2>2, <2>3
  <2> QED BY <1>2, <2>3, <2>4 DEF Opens
<1>5. CASE pty[s].live
  <2>1. shell[s].result = "ok" \/ Opens(up[l], s, Len(up[l]))
    BY <1>2, <1>3, <1>5 DEF ShellInvariant, PtyAnnounced
  <2> HIDE DEF l
  <2>2. up[l] \in Seq(Message) /\ up'[l] \in Seq(Message) /\ Len(up[l]) \in 0..Len(up[l])
    BY <1>0, <1>2
  <2>3. CASE Opens(up[l], s, Len(up[l]))
    <3>1. CASE up[l] # <<>> /\ up'[l] = Tail(up[l])
      <4>1. shell'[s].result = "ok" \/ Opens(up'[l], s, Len(up[l]) - 1)
        BY <1>0, <1>2, <1>3, <2>2, <2>3, <3>1, OpensStay
      <4>2. Len(up'[l]) = Len(up[l]) - 1
        BY <2>2, <3>1
      <4> QED BY <1>2, <4>1, <4>2
    <3>2. CASE ~(up[l] # <<>> /\ up'[l] = Tail(up[l]))
      <4>1. Opens(up'[l], s, Len(up[l]))
        BY <1>0, <1>2, <1>3, <2>2, <2>3, <3>2, OpensStay
      <4>2. Len(up[l]) \in 0..Len(up'[l])
        <5>1. UpStep(l)
          BY <1>0, <1>2
        <5> QED BY <1>3, <3>2, <5>1 DEF UpStep
      <4> QED BY <1>2, <2>2, <4>1, <4>2 DEF Opens
    <3> QED BY <3>1, <3>2
  <2> QED BY <1>0, <1>2, <2>1, <2>3 DEF Onward
<1> QED BY <1>4, <1>5

\* Messages to the Agent stay those of Consoles that have asked.
LEMMA DownMessagesStep ==
    ASSUME ShellInvariant, [Next]_vars, ShellTypes'
    PROVE  DownMessages'
<1> SUFFICES ASSUME NEW l \in Links, NEW i \in 1..Len(down'[l]), NEW m, m = down'[l][i]
             PROVE  DownFits(l, m)'
  BY DEF DownMessages, DownFits, Unlisted, Unsent
<1>0. /\ down[l] \in Seq(Message) /\ down'[l] \in Seq(Message)
      /\ \A s \in Shells : Onward(s)
      /\ DownStep(l)
  BY ShellsGoOn, DownSteps DEF ShellInvariant, ShellTypes
<1>1. m \in Message
  BY <1>0
<1>2. m.id \in Shells /\ Onward(m.id)
  BY <1>0, <1>1 DEF Message
<1>3. ASSUME NEW n \in 1..Len(down[l]), m = down[l][n]
      PROVE  DownFits(l, m)'
  <2>1. DownFits(l, m)
    BY <1>3 DEF ShellInvariant, DownMessages
  <2> QED BY <1>2, <2>1 DEF Onward, DownFits
<1>4. CASE down'[l] = down[l]
  BY <1>3, <1>4
<1>5. CASE down'[l] = <<>>
  BY <1>5
<1>6. CASE down[l] # <<>> /\ down'[l] = Tail(down[l])
  <2>1. i + 1 \in 1..Len(down[l]) /\ m = down[l][i + 1]
    BY <1>0, <1>6
  <2> QED BY <1>3, <2>1
<1>7. ASSUME NEW n \in Message, down'[l] = Append(down[l], n),
             shell[n.id].link = l, ~Unlisted(n.id), n.type # "close" => ~Unsent(n.id)'
      PROVE  DownFits(l, m)'
  <2>1. CASE i \in 1..Len(down[l])
    BY <1>0, <1>3, <1>7, <2>1
  <2>2. CASE i \notin 1..Len(down[l])
    <3>1. m = n
      BY <1>0, <1>7, <2>2
    <3>2. shell[m.id].link = l /\ ~Unlisted(m.id) /\ (m.type # "close" => ~Unsent(m.id)')
      BY <1>7, <3>1
    <3> QED BY <1>2, <3>2 DEF Onward, DownFits
  <2> QED BY <2>1, <2>2
<1> QED BY <1>0, <1>4, <1>5, <1>6, <1>7 DEF DownStep

\* The hub's slot is taken and given up by two actions only.
LEMMA HubSteps ==
    ASSUME [Next]_vars
    PROVE  \/ hub' = hub
           \/ \E l \in Links : RegisterEnd(l) \/ Unregister(l)
<1>1. ASSUME NEW l \in Links, Dial(l) \/ Cut(l) \/ Block(l) \/ Handler(l)
      PROVE  hub' = hub \/ RegisterEnd(l) \/ Unregister(l)
  BY <1>1 DEF Dial, Cut, Block, Handler, RegisterLock, RegisterBegin, ShutdownOne,
       ReadOpened, ReadShellError, ReadData, ReadClose, WriteAborted, ReadError, CloseSocket
<1>2. ASSUME NEW s \in Shells, Console(s) PROVE hub' = hub
  BY <1>2 DEF Console, Lookup, Insert, WriteOpen, WriteOpenFails, Opened, Refused, GiveUp,
       ReadOutput, BrowserReads, Input, Leave, EndOfOutput
<1>3. Agent => hub' = hub
  BY DEF Agent, AgentReader, AgentOpen, AgentInput, AgentClose, AgentDrain, AgentHangUp,
       PtyOutput, PtyExit
<1>4. UNCHANGED vars => hub' = hub
  BY DEF vars
<1> QED BY <1>1, <1>2, <1>3, <1>4 DEF Next

\* The variables keep their domains.
LEMMA ShellTypesStep ==
    ASSUME ShellInvariant, [Next]_vars
    PROVE  ShellTypes'
<1>0. ShellTypes
  BY DEF ShellInvariant
<1>1. hub' \in Links \cup {NoLink}
  BY <1>0, HubSteps DEF ShellTypes, RegisterEnd, Unregister
<1>2. link' \in [Links -> Link] /\ down' \in [Links -> Seq(Message)]
      /\ up' \in [Links -> Seq(Message)]
  BY LinksAlwaysGoOn, DownSteps, UpSteps
<1>3. shell' \in [Shells -> Shell]
  BY <1>0, StepKinds DEF ShellTypes, LinkStep, DrainStep, CloseStep, ShellStep, AgentStep
<1>4. pty' \in [Shells -> [live: BOOLEAN, output: Nat]]
  <2>0. pty \in [Shells -> [live: BOOLEAN, output: Nat]]
    BY <1>0 DEF ShellTypes
  <2>1. ASSUME NEW l \in Links, AgentOpen(l) \/ AgentClose(l)
        PROVE  pty' \in [Shells -> [live: BOOLEAN, output: Nat]]
    BY <2>0, <2>1 DEF AgentOpen, AgentClose
  <2>2. ASSUME NEW l \in Links, AgentInput(l)
        PROVE  pty' \in [Shells -> [live: BOOLEAN, output: Nat]]
    <3>1. down[l] \in Seq(Message) /\ down[l] # <<>>
      BY <1>0, <2>2 DEF ShellTypes, AgentInput, AgentReading
    <3>2. Head(down[l]) \in Message
      BY <3>1
    <3>3. Head(down[l]).id \in Shells
      BY <3>2 DEF Message
    <3> QED BY <1>0, <2>0, <2>2, <3>3, CloseShellSends DEF AgentInput
  <2>3. ASSUME NEW l \in Links, AgentDrain(l)
        PROVE  pty' \in [Shells -> [live: BOOLEAN, output: Nat]]
    BY <2>0, <2>3 DEF AgentDrain
  <2>4. ASSUME NEW s \in Shells, PtyOutput(s)
        PROVE  pty' \in [Shells -> [live: BOOLEAN, output: Nat]]
    BY <2>0, <2>4 DEF PtyOutput
  <2>5. ASSUME NEW s \in Shells, PtyExit(s)
        PROVE  pty' \in [Shells -> [live: BOOLEAN, output: Nat]]
    <3>1. pty[s].live
      BY <2>5 DEF PtyExit
    <3>2. shell[s].link \in Links
      BY <1>0, <3>1 DEF ShellInvariant, ShellStages, Unsent, ShellTypes, Shell
    <3> QED BY <1>0, <2>5, <3>2, CloseShellSends DEF PtyExit
  <2>6. CASE AgentStep
    BY <2>1, <2>2, <2>3, <2>4, <2>5, <2>6 DEF AgentStep, AgentActs, AgentReader
  <2> QED BY <2>0, <2>6, StepKinds DEF LinkStep, DrainStep, CloseStep, ShellStep
<1> QED BY <1>1, <1>2, <1>3, <1>4 DEF ShellTypes

\* What one link may be, in one place.
Staged(l) ==
    /\ hub = l => link[l].server \in {"serving", "exiting"}
    /\ link[l].server \in {"exiting", "unregister", "gone"} => link[l].wire = "cut"
    /\ link[l].wire = "unused" => link[l].server = "none"
    /\ link[l].agent = "drained" => link[l].wire = "cut"
    /\ link[l].victims # {} => link[l].server \in {"registering", "exiting"}

\* A link keeps to the stages of its handlers.
LEMMA LinkStagesStep ==
    ASSUME ShellInvariant, [Next]_vars
    PROVE  LinkStages'
<1>0. /\ link \in [Links -> Link] /\ NoLink \notin Links /\ Nobody \notin Shells
      /\ \A l \in Links : Staged(l) /\ link[l] \in Link
      /\ hub \in Links \cup {NoLink}
  BY NamesAssumption DEF ShellInvariant, ShellTypes, LinkStages, Staged
<1> SUFFICES ASSUME NEW l \in Links PROVE Staged(l)'
  BY DEF LinkStages, Staged
<1>1. ASSUME hub' = hub, link' = link PROVE Staged(l)'
  BY <1>0, <1>1 DEF Staged
<1>2. ASSUME NEW k \in Links, Dial(k) PROVE Staged(l)'
  <2>1. /\ hub' = hub /\ \A j \in Links \ {k} : link'[j] = link[j]
        /\ link'[k].wire = "up" /\ link'[k].server = "accepted"
        /\ link'[k].agent = "serving" /\ link'[k].victims = link[k].victims
        /\ link[k].wire = "unused"
    BY <1>0, <1>2 DEF Dial, Link
  <2>2. Staged(k) /\ Staged(l)
    BY <1>0
  <2> QED BY <2>1, <2>2 DEF Staged
<1>3. ASSUME NEW k \in Links, Cut(k) PROVE Staged(l)'
  <2>1. /\ link' = [link EXCEPT ![k].wire = "cut", ![k].full = FALSE]
        /\ link[k].wire = "up" /\ hub' = hub
    BY <1>3 DEF Cut
  <2>2. /\ \A j \in Links \ {k} : link'[j] = link[j]
        /\ link'[k].wire = "cut" /\ link'[k].server = link[k].server
        /\ link'[k].agent = link[k].agent /\ link'[k].victims = link[k].victims
    BY <1>0, <2>1 DEF Link
  <2> QED BY <1>0, <2>1, <2>2 DEF Staged
<1>4. ASSUME NEW k \in Links, NEW v \in {"locking", "registering", "serving", "unregister", "gone"},
             link' = [link EXCEPT ![k].server = v],
             link[k].victims = {}, v \in {"unregister", "gone"} => link[k].wire = "cut",
             link[k].wire # "unused", hub' = l => (IF l = k THEN v = "serving" ELSE hub = l)
      PROVE  Staged(l)'
  <2>1. /\ \A j \in Links \ {k} : link'[j] = link[j]
        /\ link'[k].wire = link[k].wire /\ link'[k].server = v
        /\ link'[k].agent = link[k].agent /\ link'[k].victims = link[k].victims
    BY <1>0, <1>4 DEF Link
  <2> QED BY <1>0, <1>4, <2>1 DEF Staged
<1>5. ASSUME NEW k \in Links, RegisterEnd(k) PROVE Staged(l)'
  <2>1. link' = [link EXCEPT ![k].server = "serving"]
    BY <1>0, <1>5, LinkField DEF RegisterEnd
  <2>2. link[k].victims = {} /\ link[k].wire # "unused" /\ hub' = k
    BY <1>0, <1>5 DEF RegisterEnd, Staged
  <2> QED BY <1>4, <2>1, <2>2
<1>6. ASSUME NEW k \in Links, Unregister(k) PROVE Staged(l)'
  <2>1. link' = [link EXCEPT ![k].server = "unregister"]
    BY <1>0, <1>6, LinkField DEF Unregister
  <2>2. /\ link[k].victims = {} /\ link[k].wire = "cut"
        /\ hub' = IF hub = k THEN NoLink ELSE hub
    BY <1>0, <1>6 DEF Unregister, Staged
  <2>3. hub' = l => l # k /\ hub = l
    BY <1>0, <2>2
  <2> QED BY <1>4, <2>1, <2>2, <2>3
<1>7. ASSUME NEW k \in Links, CloseSocket(k) PROVE Staged(l)'
  <2>1. link' = [link EXCEPT ![k].server = "gone"] /\ hub' = hub
    BY <1>7 DEF CloseSocket
  <2>2. /\ link[k].victims = {} /\ link[k].wire = "cut" /\ hub # k
    BY <1>0, <1>7 DEF CloseSocket, Staged
  <2>3. hub' = l => l # k /\ hub = l
    BY <2>1, <2>2
  <2> QED BY <1>4, <2>1, <2>2, <2>3
<1>8. ASSUME NEW k \in Links, RegisterBegin(k), hub = NoLink PROVE Staged(l)'
  <2>1. link' = [link EXCEPT ![k].server = "registering"] /\ hub' = hub
    BY <1>0, <1>8, LinkField DEF RegisterBegin
  <2>2. link[k].victims = {} /\ link[k].wire # "unused"
    BY <1>0, <1>8 DEF RegisterBegin, Staged
  <2> QED BY <1>0, <1>4, <1>8, <2>1, <2>2
<1>9. ASSUME NEW k \in Links, NEW v \in Shells \cup {Nobody}, SetLink(k, "busy", v),
             hub' = hub
      PROVE  Staged(l)'
  <2>1. link' = [link EXCEPT ![k].busy = v]
    BY <1>0, <1>9, LinkField
  <2>2. \A j \in Links :
          /\ link'[j].wire = link[j].wire /\ link'[j].server = link[j].server
          /\ link'[j].agent = link[j].agent /\ link'[j].victims = link[j].victims
    BY <1>0, <2>1 DEF Link
  <2> QED BY <1>0, <1>9, <2>2 DEF Staged
<1>10. ASSUME NEW k \in Links, NEW v \in {"drained", "gone"}, SetLink(k, "agent", v),
              hub' = hub, link[k].wire = "cut"
       PROVE  Staged(l)'
  <2>1. link' = [link EXCEPT ![k].agent = v]
    BY <1>0, <1>10, LinkField
  <2>2. /\ \A j \in Links \ {k} : link'[j] = link[j]
        /\ link'[k].wire = link[k].wire /\ link'[k].server = link[k].server
        /\ link'[k].victims = link[k].victims
    BY <1>0, <2>1 DEF Link
  <2> QED BY <1>0, <1>10, <2>2 DEF Staged
<1>11. ASSUME NEW j \in Links, NEW k \in Links, DrainStep(j, k) PROVE Staged(l)'
  <2>1. Staged(l) /\ Staged(j)
    BY <1>0
  <2> QED BY <1>11, <2>1 DEF DrainStep, Staged
<1>12. ASSUME NEW s \in Shells, CloseStep(s) PROVE Staged(l)'
  <2>1. /\ link'[l].wire = link[l].wire /\ link'[l].server = link[l].server
        /\ link'[l].agent = link[l].agent /\ hub' = hub
        /\ link'[l].victims \subseteq link[l].victims
    BY <1>12 DEF CloseStep
  <2> QED BY <1>0, <2>1 DEF Staged
<1>13. ASSUME NEW k \in Links, ReadData(k) PROVE Staged(l)'
  <2>1. Head(up[k]).id \in Shells
    BY <1>13, HeadTaken DEF ReadData, Reading, ShellInvariant
  <2> QED BY <1>1, <1>9, <1>13, <2>1 DEF ReadData
<1>14. ASSUME NEW k \in Links, AgentDrain(k) \/ AgentHangUp(k) PROVE Staged(l)'
  <2>1. link[k].wire = "cut"
    BY <1>0, <1>14 DEF AgentDrain, AgentHangUp, Staged
  <2> QED BY <1>10, <1>14, <2>1 DEF AgentDrain, AgentHangUp
<1>15. ASSUME NEW k \in Links, Handler(k) PROVE Staged(l)'
  <2>1. CASE \/ (ReadOpened(k) \/ ReadShellError(k) \/ ReadClose(k))
                /\ ~shell[Head(up[k]).id].mapped
             \/ ReadOpened(k)
    BY <1>1, <2>1 DEF ReadOpened, ReadShellError, ReadClose
  <2>2. CASE \/ ShutdownOne(k) \/ WriteAborted(k)
             \/ (ReadShellError(k) \/ ReadClose(k)) /\ shell[Head(up[k]).id].mapped
    BY <1>12, <2>2, CloseSteps
  <2>3. CASE ReadError(k) \/ (RegisterBegin(k) /\ hub # NoLink)
    BY <1>11, <2>3, DrainSteps
  <2>4. ASSUME RegisterLock(k) PROVE Staged(l)'
    <3>1. link' = [link EXCEPT ![k].server = "locking"] /\ hub' = hub
      BY <1>0, <2>4, LinkField DEF RegisterLock
    <3>2. link[k].victims = {} /\ link[k].wire # "unused" /\ hub # k
      BY <1>0, <2>4 DEF RegisterLock, Staged
    <3> QED BY <1>4, <3>1, <3>2
  <2> QED BY <1>5, <1>6, <1>7, <1>8, <1>13, <1>15, <2>1, <2>2, <2>3, <2>4 DEF Handler
<1>16. ASSUME NEW s \in Shells, Console(s) PROVE Staged(l)'
  <2>1. CASE ReadOutput(s) \/ BrowserReads(s)
    BY <1>1, <1>9, <2>1 DEF ReadOutput, BrowserReads
  <2>2. CASE Refused(s) \/ GiveUp(s) \/ Leave(s) \/ EndOfOutput(s)
    BY <1>12, <2>2, CloseSteps
  <2>3. ASSUME NEW r \in Shells, ShellStep(r) PROVE Staged(l)'
    BY <1>1, <2>3 DEF ShellStep
  <2> QED BY <1>16, <2>1, <2>2, <2>3, ShellSteps DEF Console
<1>17. CASE Agent
  <2>1. ASSUME NEW k \in Links, AgentReader(k) PROVE Staged(l)'
    BY <1>1, <2>1 DEF AgentReader, AgentOpen, AgentInput, AgentClose
  <2>2. ASSUME NEW s \in Shells, PtyOutput(s) \/ PtyExit(s) PROVE Staged(l)'
    BY <1>1, <2>2 DEF PtyOutput, PtyExit
  <2> QED BY <1>14, <1>17, <2>1, <2>2 DEF Agent
<1>18. ASSUME NEW k \in Links, Block(k) PROVE Staged(l)'
  <2>1. link' = [link EXCEPT ![k].full = ~link[k].full]
    BY <1>18 DEF Block, SetLink
  <2>2. \A j \in Links :
          /\ link'[j].wire = link[j].wire /\ link'[j].server = link[j].server
          /\ link'[j].agent = link[j].agent /\ link'[j].victims = link[j].victims
    BY <1>0, <2>1 DEF Link
  <2> QED BY <1>0, <1>18, <2>2 DEF Block, Staged
<1>19. CASE UNCHANGED vars
  BY <1>1, <1>19 DEF vars
<1> QED BY <1>2, <1>3, <1>15, <1>16, <1>17, <1>18, <1>19 DEF Next

\* Some shell_close of s stays behind position i, unless the Agent takes it.
LEMMA ClosesStay ==
    ASSUME NEW q \in Seq(Message), NEW s \in Shells, NEW i \in 1..Len(q), Closes(q, s, i)
    PROVE  /\ \A m \in Message : Closes(Append(q, m), s, i)
           /\ i # 1 => Closes(Tail(q), s, i - 1)
           /\ ~(q[i].type = "close" /\ q[i].id = s) => Closes(Tail(q), s, i)
<1>1. PICK j \in i..Len(q) : q[j].type = "close" /\ q[j].id = s
  BY DEF Closes
<1>2. ASSUME NEW m \in Message PROVE Closes(Append(q, m), s, i)
  <2>1. j \in i..Len(Append(q, m)) /\ Append(q, m)[j] = q[j]
    BY <1>1, <1>2
  <2> QED BY <1>1, <2>1 DEF Closes
<1>3. q # <<>> /\ Len(Tail(q)) = Len(q) - 1
  OBVIOUS
<1>4. j # 1 => Tail(q)[j - 1] = q[j]
  BY <1>1, <1>3
<1>5. ASSUME i # 1 PROVE Closes(Tail(q), s, i - 1)
  <2>1. j - 1 \in i - 1..Len(Tail(q)) /\ Tail(q)[j - 1] = q[j]
    BY <1>1, <1>3, <1>4, <1>5
  <2> QED BY <1>1, <2>1 DEF Closes
<1>6. ASSUME ~(q[i].type = "close" /\ q[i].id = s) PROVE Closes(Tail(q), s, i)
  <2>1. j # i
    BY <1>1, <1>6
  <2>2. j - 1 \in i..Len(Tail(q)) /\ Tail(q)[j - 1] = q[j]
    BY <1>1, <1>3, <1>4, <2>1
  <2> QED BY <1>1, <2>2 DEF Closes
<1> QED BY <1>2, <1>5, <1>6

\* On the hub's link the shell_close stays behind its shell_open.
LEMMA ClosesFollowStep ==
    ASSUME ShellInvariant, [Next]_vars, ShellTypes'
    PROVE  ClosesFollow'
<1> SUFFICES ASSUME NEW s \in Shells, NEW l \in Links, shell'[s].link = l, Holds(l)',
                    shell'[s].closed
             PROVE  /\ shell'[s].pc # "write"
                    /\ OpensAreClosed(down'[l], s)
                    /\ pty'[s].live => Closes(down'[l], s, 1)
  BY DEF ClosesFollow, OpensAreClosed, Closes
<1>0. /\ ShellTypes /\ NoLink \notin Links /\ ShellStages /\ LinksGoOn /\ Onward(s)
      /\ down[l] \in Seq(Message) /\ down'[l] \in Seq(Message)
      /\ \A r \in Shells : shell[r].link \in Links \cup {NoLink}
  BY NamesAssumption, LinksAlwaysGoOn, ShellsGoOn
     DEF ShellInvariant, ShellTypes, Shell
<1>1. CASE shell[s].closed
  <2>1. ~Unlisted(s) /\ shell[s].link = l
    BY <1>0, <1>1 DEF ShellStages, Onward
  <2>2. Holds(l)
    BY <1>0, <2>1 DEF LinksGoOn, ShellStages, Carries
  <2>3. /\ shell[s].pc # "write"
        /\ OpensAreClosed(down[l], s)
        /\ pty[s].live => Closes(down[l], s, 1)
    BY <1>1, <2>1, <2>2, <1>0 DEF ShellInvariant, ClosesFollow, OpensAreClosed
  <2>4. shell'[s].pc # "write"
    <3>1. shell[s].pc \notin {"idle", "insert", "write"}
      BY <2>1, <2>3 DEF Unlisted
    <3> QED BY <3>1, <1>0, StepKinds
            DEF LinkStep, DrainStep, CloseStep, ShellStep, AgentStep, ShellTypes
  <2>5. DownStep(l)
    BY DownSteps
  <2>6. CASE down'[l] = down[l]
    <3>1. ASSUME pty'[s].live PROVE pty[s].live
      <4> SUFFICES ASSUME ~pty[s].live PROVE FALSE
        OBVIOUS
      <4>1. down[l] # <<>> /\ down' = [down EXCEPT ![l] = Tail(@)]
        BY <2>1, <3>1, PtyStarts
      <4>2. down'[l] = Tail(down[l]) /\ Len(Tail(down[l])) = Len(down[l]) - 1
            /\ Len(down[l]) \in Nat
        BY <1>0, <4>1 DEF ShellTypes
      <4>3. Len(down'[l]) = Len(down[l])
        BY <2>6
      <4> QED BY <4>2, <4>3
    <3> QED BY <2>3, <2>4, <2>6, <3>1
  <2>7. CASE down'[l] = <<>> /\ link'[l].wire = "cut"
    BY <2>7 DEF Holds
  <2>8. CASE /\ down[l] # <<>> /\ down'[l] = Tail(down[l])
             /\ down[l][1].type = "close" => ~pty'[down[l][1].id].live
    <3>1. ASSUME NEW i \in 1..Len(down'[l]), down'[l][i].type = "open", down'[l][i].id = s
          PROVE  Closes(down'[l], s, i)
      <4>1. /\ i + 1 \in 1..Len(down[l]) /\ down[l][i + 1] = down'[l][i]
            /\ i + 1 # 1 /\ (i + 1) - 1 = i
        BY <1>0, <2>8
      <4>2. Closes(down[l], s, i + 1)
        BY <2>3, <3>1, <4>1 DEF OpensAreClosed
      <4>3. Closes(Tail(down[l]), s, (i + 1) - 1)
        BY <1>0, <4>1, <4>2, ClosesStay
      <4> QED BY <2>8, <4>1, <4>3
    <3>2. ASSUME pty'[s].live PROVE Closes(down'[l], s, 1)
      <4>1. 1 \in 1..Len(down[l])
        BY <1>0, <2>8
      <4>2. Closes(down[l], s, 1)
        <5>1. CASE pty[s].live BY <2>3, <5>1
        <5>2. CASE ~pty[s].live
          <6>1. down[l][1].type = "open" /\ down[l][1].id = s
            BY <2>1, <3>2, <5>2, PtyStarts
          <6> QED BY <2>3, <4>1, <6>1 DEF OpensAreClosed
        <5> QED BY <5>1, <5>2
      <4>3. ~(down[l][1].type = "close" /\ down[l][1].id = s)
        BY <2>8, <3>2
      <4> QED BY <1>0, <2>8, <4>1, <4>2, <4>3, ClosesStay
    <3> QED BY <2>4, <3>1, <3>2 DEF OpensAreClosed
  <2>9. ASSUME NEW m \in Message, down'[l] = Append(down[l], m),
               m.type = "open" => shell[m.id].pc = "write"
        PROVE  /\ shell'[s].pc # "write"
               /\ OpensAreClosed(down'[l], s)
               /\ pty'[s].live => Closes(down'[l], s, 1)
    <3>1. ~(m.type = "open" /\ m.id = s)
      BY <2>3, <2>9
    <3>2. /\ Len(down'[l]) = Len(down[l]) + 1 /\ Len(down[l]) \in Nat
          /\ \A i \in 1..Len(down[l]) : down'[l][i] = down[l][i]
          /\ down'[l][Len(down[l]) + 1] = m
      BY <1>0, <2>9
    <3>3. OpensAreClosed(down'[l], s)
      <4> SUFFICES ASSUME NEW i \in 1..Len(down'[l]),
                          down'[l][i].type = "open", down'[l][i].id = s
                   PROVE  Closes(down'[l], s, i)
        BY DEF OpensAreClosed
      <4>1. i \in 1..Len(down[l]) /\ down[l][i] = down'[l][i]
        <5>1. CASE i = Len(down[l]) + 1
          BY <3>1, <3>2, <5>1
        <5>2. CASE i # Len(down[l]) + 1
          <6>1. i \in 1..Len(down[l])
            BY <3>2, <5>2
          <6> QED BY <3>2, <6>1
        <5> QED BY <5>1, <5>2
      <4>2. Closes(down[l], s, i)
        BY <2>3, <4>1 DEF OpensAreClosed
      <4> QED BY <1>0, <2>9, <4>1, <4>2, ClosesStay
    <3>4. ASSUME pty'[s].live PROVE Closes(down'[l], s, 1)
      <4>1. pty[s].live
        <5> SUFFICES ASSUME ~pty[s].live PROVE FALSE
          OBVIOUS
        <5>1. down[l] # <<>> /\ down' = [down EXCEPT ![l] = Tail(@)]
          BY <2>1, <3>4, PtyStarts
        <5>2. down'[l] = Tail(down[l]) /\ Len(Tail(down[l])) = Len(down[l]) - 1
          BY <1>0, <5>1 DEF ShellTypes
        <5> QED BY <3>2, <5>2
      <4>2. Closes(down[l], s, 1)
        BY <2>3, <4>1
      <4>3. 1 \in 1..Len(down[l])
        BY <3>2, <4>2 DEF Closes
      <4> QED BY <1>0, <2>9, <4>2, <4>3, ClosesStay
    <3> QED BY <2>4, <3>3, <3>4
  <2> QED BY <2>5, <2>6, <2>7, <2>8, <2>9, <2>3, <2>4 DEF DownStep
<1>2. CASE ~shell[s].closed
  <2>1. CloseStep(s)
    <3>1. \A r \in Shells : CloseStep(r) => r = s
      BY <1>2 DEF CloseStep
    <3> QED BY <1>2, <3>1, StepKinds DEF LinkStep, DrainStep, ShellStep, AgentStep
  <2>2. /\ ~Unlisted(s) /\ shell[s].link = l
        /\ shell[s].pc = "write" => ~Holds(l)
        /\ shell'[s].pc = shell[s].pc \/ shell'[s].pc = "done"
        /\ down' = Sent(l, "close", s)
    BY <1>2, <2>1 DEF CloseStep
  <2>3. Holds(l)
    BY <1>0, <2>2 DEF LinksGoOn, ShellStages, Carries
  <2> DEFINE c == [type |-> "close", id |-> s]
  <2>4. down'[l] = Append(down[l], c) /\ c \in Message /\ c.type = "close" /\ c.id = s
    <3>1. link[l].wire = "up" => Sent(l, "close", s)[l] = Append(down[l], c)
      BY <1>0, SentTo DEF Types
    <3> QED BY <2>2, <2>3, <3>1 DEF Holds, Message
  <2> HIDE DEF c
  <2>5. /\ Len(down'[l]) = Len(down[l]) + 1 /\ Len(down[l]) \in Nat
        /\ down'[l][Len(down[l]) + 1] = c
    BY <1>0, <2>4
  <2>6. \A i \in 1..Len(down'[l]) : Closes(down'[l], s, i)
    BY <2>4, <2>5 DEF Closes
  <2> QED BY <2>2, <2>3, <2>5, <2>6 DEF OpensAreClosed
<1> QED BY <1>1, <1>2

-----------------------------------------------------------------------------
(* The invariant and what follows from it *)

\* Before the first link there is nothing to keep.
LEMMA InitShellInvariant == Init => ShellInvariant
<1> SUFFICES ASSUME Init PROVE ShellInvariant
  OBVIOUS
<1>1. /\ hub = NoLink
      /\ link \in [Links -> Link] /\ down \in [Links -> Seq(Message)]
      /\ up \in [Links -> Seq(Message)]
      /\ \A l \in Links :
           /\ link[l].wire = "unused" /\ link[l].server = "none"
           /\ link[l].agent = "none" /\ link[l].busy = Nobody /\ link[l].victims = {}
           /\ down[l] = <<>> /\ up[l] = <<>>
  BY DEF Init, Link
<1>2. /\ shell \in [Shells -> Shell]
      /\ \A s \in Shells :
           /\ shell[s].pc = "idle" /\ shell[s].link = NoLink /\ ~shell[s].mapped
           /\ ~shell[s].closed /\ shell[s].result = "none"
  BY BoundsAssumption DEF Init, Shell
<1>3. /\ pty \in [Shells -> [live: BOOLEAN, output: Nat]]
      /\ \A s \in Shells : ~pty[s].live
  BY DEF Init
<1>4. ShellTypes
  BY <1>1, <1>2, <1>3 DEF ShellTypes
<1>5. LinkStages
  BY <1>1, NamesAssumption DEF LinkStages
<1>6. ShellStages
  BY <1>2, <1>3 DEF ShellStages, Unlisted, Unsent
<1>7. Attended /\ Victims /\ BlocksOnlyOnOpened
  BY <1>1, <1>2 DEF Attended, Victims, BlocksOnlyOnOpened
<1>8. DownMessages /\ UpMessages
  BY <1>1 DEF DownMessages, UpMessages
<1>9. PtyAnnounced /\ ClosesFollow
  BY <1>2, <1>3 DEF PtyAnnounced, ClosesFollow
<1> QED BY <1>4, <1>5, <1>6, <1>7, <1>8, <1>9 DEF ShellInvariant

\* The parts of the invariant, one lemma each, make it inductive.
LEMMA NextShellInvariant ==
    ASSUME ShellInvariant, [Next]_vars
    PROVE  ShellInvariant'
<1>1. ShellTypes'
  BY ShellTypesStep
<1>2. LinkStages' /\ ShellStages'
  BY <1>1, LinkStagesStep, ShellStagesStep
<1>3. Attended' /\ Victims' /\ BlocksOnlyOnOpened'
  BY <1>1, AttendedStep, VictimsStep, BlocksStep
<1>4. DownMessages' /\ UpMessages'
  BY <1>1, DownMessagesStep, UpMessagesStep
<1>5. PtyAnnounced' /\ ClosesFollow'
  BY <1>1, PtyAnnouncedStep, ClosesFollowStep
<1> QED BY <1>1, <1>2, <1>3, <1>4, <1>5 DEF ShellInvariant

\* ShellInvariant holds of every reachable state, for any number of links and
\* Consoles and any output: it is the argument for the three theorems below.
LEMMA ShellsInvariant == Spec => []ShellInvariant
<1>1. ShellInvariant /\ [Next]_vars => ShellInvariant'
  BY NextShellInvariant
<1> QED BY <1>1, InitShellInvariant, PTL DEF Spec

\* A Console that believes it works has a handler behind its link, however its
\* insertion into agentConn.shells fell with the exit of the read loop (ReadError)
\* or with the shutdown by a newer link (registerAgent in hub.go): its shell is
\* in the table that is served, or among the victims of the handler at work.
THEOREM ConsolesAreServed == Spec => []NoConsoleOnDeadLink
<1>1. ShellInvariant => NoConsoleOnDeadLink
  <2> SUFFICES ASSUME ShellInvariant, NEW s \in Shells,
                      shell[s].pc = "bridged", ~shell[s].closed
               PROVE  link[shell[s].link].server \in {"serving", "exiting"}
    BY DEF NoConsoleOnDeadLink
  <2>1. shell[s].result = "ok"
    BY DEF ShellInvariant, ShellStages
  <2>2. CASE link[shell[s].link].server = "serving"
    BY <2>2
  <2>3. ASSUME NEW k \in Links, s \in link[k].victims
        PROVE  link[shell[s].link].server \in {"serving", "exiting"}
    BY <2>3 DEF ShellInvariant, Victims, LinkStages
  <2> QED BY <2>1, <2>2, <2>3 DEF ShellInvariant, Attended
<1> QED BY <1>1, ShellsInvariant, PTL

\* The read loop of a link, blocked in writeStdout on a pipe without a buffer,
\* waits only for a Console that has its verdict: the Agent writes shell_opened
\* before the pump starts, so an opening Console is never sent output.
THEOREM ReadLoopWaitsForOpened == Spec => []BlocksOnlyOnOpened
<1>1. ShellInvariant => BlocksOnlyOnOpened
  BY DEF ShellInvariant
<1> QED BY <1>1, ShellsInvariant, PTL

\* However a Console ends, once the Agent has read what was sent its shell process
\* is gone, on the link that holds the hub's slot; and no entry of it is left in
\* agentConn.shells: AgentShell.teardown is run once, and by then shell_open has
\* been written.
THEOREM NothingStaysBehind == Spec => []NothingLeftBehind
<1>1. ShellInvariant => NoLeakedShell
  BY DEF ShellInvariant, ShellStages, NoLeakedShell
<1>2. ShellInvariant => NoOrphanPty
  <2> SUFFICES ASSUME ShellInvariant, NEW s \in Shells, NEW l, l = shell[s].link,
                      shell[s].pc = "done", l # NoLink, hub = l, HubUnlocked,
                      link[l].wire = "up", ~InFlight(down[l], s), pty[s].live
               PROVE  FALSE
    BY DEF NoOrphanPty
  <2>1. l \in Links /\ down[l] \in Seq(Message)
    BY DEF ShellInvariant, ShellTypes, Shell
  <2>2. shell[s].closed
    BY DEF ShellInvariant, ShellStages
  <2>3. Closes(down[l], s, 1)
    BY <2>1, <2>2 DEF ShellInvariant, ClosesFollow, Holds
  <2>4. PICK j \in 1..Len(down[l]) : down[l][j].id = s
    BY <2>3 DEF Closes
  <2>5. down[l][j] \in ToSet(down[l])
    BY <2>1 DEF ToSet
  <2> QED BY <2>4, <2>5 DEF InFlight
<1>3. ShellInvariant => NothingLeftBehind
  BY <1>1, <1>2 DEF NothingLeftBehind
<1> QED BY <1>3, ShellsInvariant, PTL

=============================================================================

---------------------------- MODULE DiscoveryPanel ----------------------------
(***************************************************************************)
(* The Discover panel of a Site (DiscoveryPanel.tsx) over the Server's     *)
(* scans: it asks for the private networks, scans one at a time, lists the *)
(* candidates, and adds a Host for each "Add", while the next scan may be  *)
(* running already.                                                        *)
(*                                                                         *)
(* This is one mounted panel: what its onAdded and its Back do to the page *)
(* is in SitePage.  Ports, names and the wording of errors are left out.   *)
(***************************************************************************)
EXTENDS ScanPool

CONSTANTS
    Inventories,  \* the addresses in the inventory when the panel opens
    Rescans,      \* bound on the requests after the first
    MaxScans,     \* bound on the scans of a panel
    MaxAdds       \* bound on its adds

ASSUME InventoriesAssumption == Inventories \subseteq SUBSET Addr
ASSUME PanelBounds == Rescans \subseteq Requested /\ MaxScans \in Nat /\ MaxAdds \in Nat

VARIABLES
    panel,    \* the component
    adds,     \* its createHost requests
    rows,     \* how many Hosts have each address
    known,    \* KnownAddresses, as the last scan read them
    added,    \* the adds that succeeded since the list was received
    used      \* how much of the bounds is used

panelVars == <<pool, panel, adds, rows, known, added, used>>

-----------------------------------------------------------------------------
\* list: candidates, a row each with its already_known.  crashed: a render threw.
PanelState == [st: {"loading", "open", "closed", "crashed"}, networks: BOOLEAN,
          scanning: BOOLEAN, list: SUBSET [ip: Addr, known: BOOLEAN],
          adding: SUBSET Addr]

AddCall == [n: 1..MaxAdds, ip: Addr, at: {"asked", "written"}]

InitPanel ==
    /\ PoolInit
    /\ panel = [st |-> "loading", networks |-> FALSE, scanning |-> FALSE,
                list |-> {}, adding |-> {}]
    /\ adds = {}
    /\ \E inventory \in Inventories :
         rows = [a \in Addr |-> IF a \in inventory THEN 1 ELSE 0]
    /\ known = {}
    /\ added = {}
    /\ used = [scans |-> 0, adds |-> 0]

Use(bound) == used' = [used EXCEPT ![bound] = @ + 1]
IsOpen == panel.st = "open"

\* The effect: the networks of the Server, none of them, or an error.
StatusAnswered ==
    /\ panel.st = "loading"
    /\ \E networks \in BOOLEAN :
         panel' = [panel EXCEPT !.st = "open", !.networks = networks]
    /\ UNCHANGED <<pool, adds, rows, known, added, used>>

-----------------------------------------------------------------------------
(* Scan *)

\* handleScan: the list is emptied, and the Server takes the request: it reads
\* the known addresses before it looks at the network.
Scan ==
    /\ IsOpen /\ panel.networks /\ ~panel.scanning
    /\ used.scans < MaxScans /\ Use("scans")
    /\ panel' = [panel EXCEPT !.scanning = TRUE, !.list = {}]
    /\ \E p \in IF used.scans = 0 THEN Requested ELSE Rescans : PoolStarts(p)
    /\ known' = {a \in Addr : rows[a] > 0}
    /\ UNCHANGED <<adds, rows, added>>

Candidates == {[ip |-> out[i].ip, known |-> out[i].ip \in known] : i \in DOMAIN out}

\* The answer arrives.  With no candidate it is null (scan.go's slice is nil):
\* the state is set, its length cannot be read, and the next render throws.
ScanAnswered ==
    /\ IsOpen /\ panel.scanning /\ main.st = "returned"
    /\ panel' = [panel EXCEPT !.scanning = FALSE, !.list = Candidates,
                              !.st = IF out = <<>> THEN "crashed" ELSE @]
    /\ main' = NoScan
    /\ added' = {}
    /\ UNCHANGED <<prefix, network, expired, jobs, worker, out, adds, rows, known, used>>

\* The CIDR is refused, or the answer is lost.
ScanFails ==
    /\ IsOpen /\ panel.scanning /\ ~Running
    /\ panel' = [panel EXCEPT !.scanning = FALSE]
    /\ main' = NoScan
    /\ UNCHANGED <<prefix, network, expired, jobs, worker, out, adds, rows, known,
                   added, used>>

-----------------------------------------------------------------------------
(* Add *)

\* The button beside a candidate that is not in the inventory; it is disabled
\* while its address is being added, in whichever list it was.
Add ==
    /\ IsOpen
    /\ used.adds < MaxAdds /\ Use("adds")
    /\ \E c \in panel.list :
         /\ ~c.known /\ c.ip \notin panel.adding
         /\ panel' = [panel EXCEPT !.adding = @ \cup {c.ip}]
         /\ adds' = adds \cup {[n |-> used.adds + 1, ip |-> c.ip, at |-> "asked"]}
    /\ UNCHANGED <<pool, rows, known, added>>

\* POST /api/hosts; nothing makes an address unique.
AddWritten(a) ==
    /\ a.at = "asked"
    /\ rows' = [rows EXCEPT ![a.ip] = @ + 1]
    /\ adds' = (adds \ {a}) \cup {[a EXCEPT !.at = "written"]}
    /\ UNCHANGED <<pool, panel, known, added, used>>

\* Mutant of AddAnswered: the list is not told.
AddAnsweredUnmarked(a) ==
    /\ a.at = "written"
    /\ adds' = adds \ {a}
    /\ added' = added \cup {a.ip}
    /\ panel' = [panel EXCEPT !.adding = @ \ {a.ip}]
    /\ UNCHANGED <<pool, rows, known, used>>

\* What handleAdd sets belongs to the list there is by now.
AddAnswered(a) ==
    /\ a.at = "written"
    /\ adds' = adds \ {a}
    /\ added' = added \cup {a.ip}
    /\ panel' = [panel EXCEPT
         !.adding = @ \ {a.ip},
         !.list = {[c EXCEPT !.known = @ \/ c.ip = a.ip] : c \in panel.list}]
    /\ UNCHANGED <<pool, rows, known, used>>

\* The Host may have been created although the answer is lost.
AddFails(a) ==
    /\ adds' = adds \ {a}
    /\ panel' = [panel EXCEPT !.adding = @ \ {a.ip}]
    /\ UNCHANGED <<pool, rows, known, added, used>>

Back ==
    /\ IsOpen /\ ~panel.scanning
    /\ panel' = [panel EXCEPT !.st = "closed", !.list = {}]
    /\ UNCHANGED <<pool, adds, rows, known, added, used>>

-----------------------------------------------------------------------------
PoolSteps == PoolNext /\ UNCHANGED <<panel, adds, rows, known, added, used>>

NextPanel ==
    \/ StatusAnswered \/ Scan \/ ScanAnswered \/ ScanFails \/ Add \/ Back
    \/ \E a \in adds : AddWritten(a) \/ AddAnswered(a) \/ AddFails(a)
    \/ PoolSteps

PoolRuns(A) == A /\ UNCHANGED <<panel, adds, rows, known, added, used>>

SpecPanel ==
    /\ InitPanel /\ [][NextPanel]_panelVars
    /\ WF_panelVars(PoolRuns(Handler))
    /\ \A w \in Workers : WF_panelVars(PoolRuns(Worker(w)))

-----------------------------------------------------------------------------
(* Properties *)

\* A panel never has two adds of one address under way, however many scans come
\* between; and what it offers was in no inventory when the scan of its list
\* began, answered to that scan, and was not added since the list is there.
OfferedOnce ==
    /\ \A a, b \in adds : a.ip = b.ip => a = b
    /\ \A c \in panel.list :
         (~c.known /\ c.ip \notin panel.adding)
            => c.ip \notin known /\ c.ip \notin added /\ network[c.ip] # {}

\* One Discover panel adds each address once.
AddedOnce == \A a \in Addr : rows[a] <= 1

\* "Scan finished - no hosts responded" (DiscoveryPanel.tsx): an empty scan is
\* an answer like any other.
EmptyScanIsShown == panel.st # "crashed"
=============================================================================

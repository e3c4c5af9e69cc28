---------------------------- MODULE SidebarTree ----------------------------
(***************************************************************************)
(* The tree of Sites and their Hosts at the side of every page of the      *)
(* Portal (components/SidebarTree), and the requests it is filled by.      *)
(*                                                                         *)
(* The list of Sites is loaded when the Portal says that it has changed    *)
(* something (bumpRefresh, lib/inventoryTree); the Hosts of the Sites that *)
(* are expanded are loaded then too, and every five seconds.  A load reads *)
(* each Site at a time of its own, and loads overlap.                      *)
(*                                                                         *)
(* Of a Site and its Hosts only the number of writes is kept.              *)
(***************************************************************************)
EXTENDS Integers, FiniteSets

CONSTANTS
    Sites,
    New,          \* the `id` in /sites/new, which is no Site's
    MaxVersion,   \* bound on the writes to each Site and its Hosts
    MaxPolls,     \* bound on the loads of Hosts in flight
    MaxFailures   \* bound on the requests of the tree that fail

ASSUME NewAssumption == New \notin Sites
ASSUME BoundsAssumption ==
    MaxVersion \in Nat /\ MaxPolls \in Nat /\ MaxFailures \in Nat

VARIABLES
    db,        \* the Sites: is it there, and how often was it written
    tree,      \* the state of SidebarTree
    listLoad,  \* the run of the effect that loads the list
    hostLoads, \* loadHosts() calls that are not cancelled
    reveal,    \* the Site of the Host in the URL, while it is looked up
    failures

treeVars == <<db, tree, listLoad, hostLoads, reveal, failures>>

-----------------------------------------------------------------------------
Version == 0..MaxVersion
Unseen == -1

\* shown: hostsBySite.  expanded has New too once /sites/new was open.
Tree == [list: SUBSET Sites, expanded: SUBSET (Sites \cup {New}),
         shown: [Sites -> Version \cup {Unseen}], error: BOOLEAN]

NoLoad == [at |-> "none", list |-> {}]
ListLoad == [at: {"asked", "answered"}, list: SUBSET Sites] \cup {NoLoad}

\* of: the Sites of Promise.all; left: those that have not answered.  What is
\* answered for New is the empty list, so it is not waited for here.
HostLoad == [of: SUBSET Sites, left: SUBSET Sites,
             seen: [Sites -> Version \cup {Unseen}]]

LoadOf(expanded) ==
    [of |-> expanded \ {New}, left |-> expanded \ {New}, seen |-> [s \in Sites |-> Unseen]]

TreeInit ==
    /\ \E live \in SUBSET Sites :
         db = [s \in Sites |-> [live |-> s \in live, version |-> 0]]
    /\ tree = [list |-> {}, expanded |-> {}, shown |-> [s \in Sites |-> Unseen],
               error |-> FALSE]
    /\ listLoad = [NoLoad EXCEPT !.at = "asked"]
    /\ hostLoads = {}
    /\ reveal = {}
    /\ failures = 0

\* Mutant of HostsEffect: the effect has no cleanup.
HostsEffectOnly(expanded) ==
    hostLoads' = hostLoads \cup (IF expanded = {} THEN {} ELSE {LoadOf(expanded)})

\* The effect on [expanded, refreshKey]: its cleanup cancels the loads under
\* way, which do nothing any more, then it loads at once.
HostsEffect(expanded) ==
    hostLoads' = IF expanded = {} THEN {} ELSE {LoadOf(expanded)}

\* Bumped, with what is expanded by now: both effects run again.
TreeBumped(expanded) ==
    /\ tree' = [tree EXCEPT !.expanded = expanded]
    /\ listLoad' = [NoLoad EXCEPT !.at = "asked"]
    /\ HostsEffect(expanded)
    /\ UNCHANGED failures

\* setExpanded gives a new set, and so a new run of the effect, only if it
\* differs.
TreeExpanded(expanded) ==
    /\ tree' = [tree EXCEPT !.expanded = expanded]
    /\ IF expanded = tree.expanded THEN UNCHANGED hostLoads ELSE HostsEffect(expanded)
    /\ UNCHANGED <<listLoad, failures>>

-----------------------------------------------------------------------------
(* The operator, in the tree *)

Toggle(s) ==
    /\ s \in tree.list
    /\ TreeExpanded(IF s \in tree.expanded THEN tree.expanded \ {s}
                    ELSE tree.expanded \cup {s})
    /\ UNCHANGED <<db, reveal>>

-----------------------------------------------------------------------------
(* Requests and answers *)

\* GET /api/site.
ServeList ==
    /\ listLoad.at = "asked"
    /\ listLoad' = [at |-> "answered", list |-> {s \in Sites : db[s].live}]
    /\ UNCHANGED <<db, tree, hostLoads, reveal, failures>>

ShowList ==
    /\ listLoad.at = "answered"
    /\ tree' = [tree EXCEPT !.list = listLoad.list, !.error = FALSE]
    /\ listLoad' = NoLoad
    /\ UNCHANGED <<db, hostLoads, reveal, failures>>

\* Nothing loads the list again before the next bump.
ListFails ==
    /\ listLoad # NoLoad
    /\ failures < MaxFailures
    /\ failures' = failures + 1
    /\ listLoad' = NoLoad
    /\ tree' = [tree EXCEPT !.error = TRUE]
    /\ UNCHANGED <<db, hostLoads, reveal>>

\* Mutant of PollHosts: the timer gives up when a load has failed.
PollHostsUntilError ==
    /\ tree.expanded # {} /\ ~tree.error
    /\ Cardinality(hostLoads) < MaxPolls
    /\ hostLoads' = hostLoads \cup {LoadOf(tree.expanded)}
    /\ UNCHANGED <<db, tree, listLoad, reveal, failures>>

\* The timer of the effect.
PollHosts ==
    /\ tree.expanded # {}
    /\ Cardinality(hostLoads) < MaxPolls
    /\ hostLoads' = hostLoads \cup {LoadOf(tree.expanded)}
    /\ UNCHANGED <<db, tree, listLoad, reveal, failures>>

\* GET /api/inventory?site_id=s; a Site that is gone has no Hosts.
ServeHosts(l, s) ==
    /\ s \in l.left
    /\ hostLoads' = (hostLoads \ {l}) \cup
         {[l EXCEPT !.left = @ \ {s}, !.seen[s] = db[s].version]}
    /\ UNCHANGED <<db, tree, listLoad, reveal, failures>>

\* All of them have answered.
ShowHosts(l) ==
    /\ l.left = {}
    /\ hostLoads' = hostLoads \ {l}
    /\ tree' = [tree EXCEPT !.shown = [s \in Sites |->
                  IF s \in l.of THEN l.seen[s] ELSE tree.shown[s]]]
    /\ UNCHANGED <<db, listLoad, reveal, failures>>

\* One of them fails, and what the others answered is dropped with it.
HostsFail(l) ==
    /\ failures < MaxFailures
    /\ failures' = failures + 1
    /\ hostLoads' = hostLoads \ {l}
    /\ tree' = [tree EXCEPT !.error = TRUE]
    /\ UNCHANGED <<db, listLoad, reveal>>

\* The Host of the URL is found, and its Site is expanded; or it is not.
Revealed ==
    /\ reveal # {}
    /\ \/ TreeExpanded(tree.expanded \cup reveal)
       \/ UNCHANGED <<tree, listLoad, hostLoads, failures>>
    /\ reveal' = {}
    /\ UNCHANGED db

\* Other tabs, Agents and the probe loop.
OthersWriteSite(s) ==
    /\ db[s].version < MaxVersion
    /\ \E live \in BOOLEAN :
         db' = [db EXCEPT ![s] = [live |-> live, version |-> @.version + 1]]
    /\ UNCHANGED <<tree, listLoad, hostLoads, reveal, failures>>

TreeNext ==
    \/ ServeList \/ ShowList \/ ListFails \/ PollHosts \/ Revealed
    \/ \E l \in hostLoads : \/ ShowHosts(l) \/ HostsFail(l)
                            \/ \E s \in Sites : ServeHosts(l, s)

-----------------------------------------------------------------------------
TreeTypeOK ==
    /\ db \in [Sites -> [live: BOOLEAN, version: Version]]
    /\ tree \in Tree
    /\ listLoad \in ListLoad
    /\ hostLoads \subseteq HostLoad
    /\ reveal \subseteq Sites
    /\ failures \in 0..MaxFailures

\* The tree shows the Hosts of each expanded Site as they are stored.
TreeIsCurrent ==
    \A s \in tree.expanded \ {New} : tree.shown[s] = db[s].version
=============================================================================

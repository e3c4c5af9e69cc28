------------------------------ MODULE SitePage ------------------------------
(***************************************************************************)
(* The Site page of the Portal (components/SiteDetail) beside the tree,    *)
(* with what it opens: SiteForm to add or edit a Site, HostForm to add a   *)
(* Host, and the Discover panel, which adds Hosts too.  Every change it    *)
(* makes bumps the tree and reloads the page itself, under what is open.   *)
(*                                                                         *)
(* A promise's continuation, the commit and its effects are one step, as   *)
(* in HostPage.                                                            *)
(***************************************************************************)
EXTENDS SidebarTree

CONSTANTS
    Elsewhere,  \* the other routes
    NoSite,
    MaxCalls,   \* bound on the requests of the page in flight
    MaxClicks   \* bound on what the operator does

ASSUME RoutesAssumption == Sites \cap {Elsewhere, NoSite} = {} /\ New # Elsewhere
ASSUME ClicksAssumption == MaxCalls \in Nat /\ MaxClicks \in Nat

VARIABLES
    route,   \* useParams().siteId
    page,    \* the state of the mounted SiteDetail
    load,    \* what its effect loads, unless cancelled
    calls,   \* the requests of its forms, its panel and its Delete button
    told,    \* the version of each Site at the last change this tab was told of
    clicks

vars == <<treeVars, route, page, load, calls, told, clicks>>

-----------------------------------------------------------------------------
Mode == {"view", "edit", "createHost", "discover"}

\* loaded: loadedSiteIdRef.  fields: the Site that an open SiteForm took its
\* fields from, when it was mounted.
Page == [site: Sites \cup {NoSite}, loaded: Sites \cup {NoSite}, mode: Mode,
         error: BOOLEAN, loading: BOOLEAN, fields: Sites \cup {NoSite}]

\* saveSite, addSite: SiteForm; addHost: HostForm; addFound: the Discover panel.
Kind == {"saveSite", "addSite", "addHost", "addFound", "deleteSite"}

\* here: the page is still mounted.  form: so is the form that asked, with its
\* buttons disabled.
Call == [kind: Kind, site: Sites \cup {NoSite}, at: {"asked", "answered"},
         version: Version, here: BOOLEAN, form: BOOLEAN]

Mounted(r) == [site |-> NoSite, loaded |-> NoSite, error |-> FALSE, fields |-> NoSite,
               mode |-> IF r = New THEN "edit" ELSE "view", loading |-> r # New]

\* What is rendered.  The Site form of /sites/new is the one of an Edit that was
\* open: React keeps the instance, and its fields.
SiteForm(r, p) == r # Elsewhere /\ ~p.loading /\ (p.mode = "edit" \/ r = New)
HasSite(r, p) == r \in Sites /\ ~p.loading /\ p.site # NoSite
HostForm(r, p) == HasSite(r, p) /\ p.mode = "createHost"
Panel(r, p) == HasSite(r, p) /\ p.mode = "discover"
View(r, p) == HasSite(r, p) /\ p.mode = "view"

FormOf(kind, r, p) == IF kind = "addHost" THEN HostForm(r, p) ELSE SiteForm(r, p)

\* The next state of the component: a form that is mounted takes its fields from
\* the Site it is given, and one that is gone has no call of its own any more.
Render(r, p, cs) ==
    /\ route' = r
    /\ page' = [p EXCEPT !.fields =
         IF ~SiteForm(r, p) THEN NoSite
         ELSE IF SiteForm(route, page) THEN page.fields
         ELSE IF r = New THEN NoSite ELSE p.site]
    /\ calls' = {[c EXCEPT !.form = @ /\ FormOf(c.kind, r, p)] : c \in cs}

\* Mutant of SiteChanged: every run of the effect starts over.
SiteChangedAlways(p, r) == TRUE

SiteChanged(p, r) == p.loaded # r

Loading(r) == [site |-> r, at |-> "asked"]
Started(r, p) == IF SiteChanged(p, r) THEN [p EXCEPT !.mode = "view", !.loading = TRUE] ELSE p
Blank(p) == [p EXCEPT !.site = NoSite, !.loaded = NoSite, !.mode = "edit", !.loading = FALSE]

\* Mutant of Effect: the loads of the last run are not cancelled.
EffectOnly(r, p, cs) ==
    IF r = New THEN Render(r, Blank(p), cs) /\ UNCHANGED load
               ELSE Render(r, Started(r, p), cs) /\ load' = load \cup {Loading(r)}

\* The effect on [siteId, isNew, refreshKey]; its cleanup cancels its last run.
Effect(r, p, cs) ==
    IF r = New THEN Render(r, Blank(p), cs) /\ load' = {}
               ELSE Render(r, Started(r, p), cs) /\ load' = {Loading(r)}

\* The page goes away; its requests go on.
Unmount(cs) ==
    /\ route' = Elsewhere
    /\ page' = Mounted(Elsewhere)
    /\ load' = {}
    /\ calls' = {[c EXCEPT !.here = FALSE, !.form = FALSE] : c \in cs}

\* The instance that shows route r: a new one after another page.
Instance(r) == IF route = Elsewhere THEN Mounted(r) ELSE page

\* bumpRefresh in place, with what its caller sets.
Bump(p, cs) ==
    /\ IF route = Elsewhere THEN Render(route, p, cs) /\ UNCHANGED load
                            ELSE Effect(route, p, cs)
    /\ TreeBumped(tree.expanded)
    /\ UNCHANGED reveal

Init ==
    /\ TreeInit
    /\ route = Elsewhere
    /\ page = Mounted(Elsewhere)
    /\ load = {}
    /\ calls = {}
    /\ told = [s \in Sites |-> 0]
    /\ clicks = 0

-----------------------------------------------------------------------------
(* The operator *)

Click == clicks < MaxClicks /\ clicks' = clicks + 1
Room == Cardinality(calls) < MaxCalls

\* A link to a Site, or "Add site".
Open(r) ==
    /\ Click
    /\ route # r
    /\ r \in tree.list \cup {New}
    /\ Effect(r, Instance(r), calls)
    /\ TreeExpanded(tree.expanded \cup {r})
    /\ reveal' = {}
    /\ UNCHANGED <<db, told>>

\* A link to the page of a Host of s, or to LabKeeper's.
Leave ==
    /\ Click
    /\ Unmount(calls)
    /\ \E s \in SUBSET tree.list : Cardinality(s) <= 1 /\ reveal' = s
    /\ UNCHANGED <<db, tree, listLoad, hostLoads, failures, told>>

ToggleSite(s) ==
    /\ Click
    /\ Toggle(s)
    /\ UNCHANGED <<route, page, load, calls, told>>

\* "Discover", "Add host", "Edit".
OpenMode(mode) ==
    /\ Click
    /\ View(route, page) /\ mode # "view"
    /\ Render(route, [page EXCEPT !.mode = mode], calls)
    /\ UNCHANGED <<treeVars, load, told>>

\* "Cancel" and "Back"; the Cancel of /sites/new leaves the page (Leave).
Close ==
    /\ Click
    /\ \/ HostForm(route, page) \/ Panel(route, page)
       \/ SiteForm(route, page) /\ route # New
    /\ \A c \in calls : ~c.form
    /\ Render(route, [page EXCEPT !.mode = "view"], calls)
    /\ UNCHANGED <<treeVars, load, told>>

\* "refresh this site" links to the URL the tab is at: no effect depends on that, and
\* nothing is loaded.
RefreshLink ==
    /\ Click
    /\ View(route, page)
    /\ UNCHANGED <<treeVars, route, page, load, calls, told>>

Send(kind, s) ==
    /\ Click
    /\ Room
    /\ \A c \in calls : ~c.form
    /\ calls' = calls \cup {[kind |-> kind, site |-> s, at |-> "asked", version |-> 0,
                             here |-> TRUE, form |-> kind \notin {"addFound", "deleteSite"}]}
    /\ UNCHANGED <<treeVars, route, page, load, told>>

\* "Save" of a form that passes its checks, "Add" beside a candidate, "Delete".
Submit ==
    \/ /\ SiteForm(route, page)
       /\ IF route = New THEN Send("addSite", NoSite) ELSE Send("saveSite", page.site)
    \/ HostForm(route, page) /\ Send("addHost", page.site)
    \/ Panel(route, page) /\ Send("addFound", page.site)
    \/ View(route, page) /\ Send("deleteSite", page.site)

-----------------------------------------------------------------------------
(* The Server *)

ServeLoad(l) ==
    /\ l.at = "asked" /\ db[l.site].live
    /\ load' = (load \ {l}) \cup {[l EXCEPT !.at = "answered"]}
    /\ UNCHANGED <<treeVars, route, page, calls, told, clicks>>

\* A new Site has an id that none had before.
Target(c) == IF c.kind = "addSite"
             THEN {s \in Sites : ~db[s].live /\ db[s].version = 0}
             ELSE {s \in {c.site} : db[s].live}

Serve(c) ==
    /\ c.at = "asked"
    /\ \E s \in Target(c) :
         /\ db[s].version < MaxVersion
         /\ db' = [db EXCEPT ![s] = [live |-> c.kind # "deleteSite", version |-> @.version + 1]]
         /\ calls' = (calls \ {c}) \cup
              {[c EXCEPT !.at = "answered", !.site = s, !.version = db[s].version + 1]}
    /\ UNCHANGED <<tree, listLoad, hostLoads, reveal, failures, route, page, load, told, clicks>>

OthersWrite(s) ==
    /\ OthersWriteSite(s)
    /\ UNCHANGED <<route, page, load, calls, told, clicks>>

-----------------------------------------------------------------------------
(* Answers *)

Loaded(l) ==
    /\ l.at = "answered"
    /\ load' = load \ {l}
    /\ Render(route, [page EXCEPT !.site = l.site, !.loaded = l.site,
                                  !.error = FALSE, !.loading = FALSE], calls)
    /\ UNCHANGED <<treeVars, told, clicks>>

\* Either of fetchSite and fetchInventory fails; the Site shown before stays.
LoadFails(l) ==
    /\ load' = load \ {l}
    /\ Render(route, [page EXCEPT !.error = TRUE, !.loading = FALSE], calls)
    /\ UNCHANGED <<treeVars, told, clicks>>

Told(c) ==
    /\ c.at = "answered"
    /\ told' = [told EXCEPT ![c.site] = IF c.version > @ THEN c.version ELSE @]
    /\ UNCHANGED <<db, clicks>>

\* SiteForm's onSaved: bump, go to the Site - from wherever the tab is - and
\* close the form.
SiteSaved(c) ==
    /\ c.kind \in {"saveSite", "addSite"}
    /\ Told(c)
    /\ Effect(c.site, IF c.here THEN [page EXCEPT !.mode = "view"] ELSE Instance(c.site),
              calls \ {c})
    /\ TreeBumped(tree.expanded \cup {c.site})
    /\ reveal' = {}

\* HostForm's onSaved: setMode belongs to the page, whatever is open by now.
HostAdded(c) ==
    /\ c.kind = "addHost"
    /\ Told(c)
    /\ Bump(IF c.here THEN [page EXCEPT !.mode = "view"] ELSE page, calls \ {c})

\* The panel's onAdded, under which it stays open.
FoundAdded(c) ==
    /\ c.kind = "addFound"
    /\ Told(c)
    /\ Bump(page, calls \ {c})

\* Bump, and on to LabKeeper's page.
Deleted(c) ==
    /\ c.kind = "deleteSite"
    /\ Told(c)
    /\ Unmount(calls \ {c})
    /\ TreeBumped(tree.expanded)
    /\ reveal' = {}

\* A write may be done although its answer is lost.
CallFails(c) ==
    /\ Render(route, [page EXCEPT !.error = @ \/ (c.here /\ c.kind = "deleteSite")],
              calls \ {c})
    /\ UNCHANGED <<treeVars, load, told, clicks>>

-----------------------------------------------------------------------------
Next ==
    \/ \E r \in Sites \cup {New} : Open(r)
    \/ \E s \in Sites : ToggleSite(s) \/ OthersWrite(s)
    \/ \E mode \in Mode : OpenMode(mode)
    \/ Leave \/ Close \/ RefreshLink \/ Submit
    \/ \E l \in load : ServeLoad(l) \/ Loaded(l) \/ LoadFails(l)
    \/ \E c \in calls : \/ Serve(c) \/ SiteSaved(c) \/ HostAdded(c) \/ FoundAdded(c)
                        \/ Deleted(c) \/ CallFails(c)
    \/ TreeNext /\ UNCHANGED <<route, page, load, calls, told, clicks>>

\* The timer of the tree runs, and fetch settles at last for some of its loads.
\* Nothing is asked of the operator and of the forms' requests.
Fairly(A) == A /\ UNCHANGED <<route, page, load, calls, told, clicks>>

Spec ==
    /\ Init /\ [][Next]_vars
    /\ WF_vars(Fairly(PollHosts))
    /\ \A s \in Sites : WF_vars(Fairly(\E l \in hostLoads : ServeHosts(l, s)))
    /\ WF_vars(Fairly(\E l \in hostLoads : ShowHosts(l)))

-----------------------------------------------------------------------------
(* Properties *)

TypeOK ==
    /\ TreeTypeOK
    /\ route \in Sites \cup {New, Elsewhere}
    /\ page \in Page
    /\ load \subseteq [site: Sites, at: {"asked", "answered"}]
    /\ calls \subseteq Call
    /\ told \in [Sites -> Version]
    /\ clicks \in 0..MaxClicks

\* A page without an error shows the Site of its URL, whatever was asked for the
\* one before; what its buttons add or delete is in that Site.
NoForeignSite ==
    (HasSite(route, page) /\ ~page.error) => page.site = route

\* What is open over a loaded Site - the Discover panel with its candidates, a
\* form with its text - survives every reload of the page and of the tree, every
\* poll and every request that fails: it is closed by its own key, by the answer to
\* a form of this tab, which may come late and find another one open, or with the
\* page.
Opened == page.loaded = route /\ HasSite(route, page) /\ page.mode # "view"
OpenedStays ==
    [][(Opened /\ ~Opened' /\ route' = route) =>
         \/ Close
         \/ \E c \in calls : SiteSaved(c) \/ HostAdded(c)]_vars

\* What the tree comes to show of a Site is never older than the last change to
\* it that this tab was told of, by none of the loads that overlap.
OwnChangesShown ==
    [][\A s \in Sites :
         tree'.shown[s] # tree.shown[s] => tree'.shown[s] >= told[s]]_vars

\* When nobody changes anything any more, the tree comes to show the Hosts of
\* the expanded Sites as they are, and keeps to it.
TreeSettles == <>[]TreeIsCurrent

\* The form of /sites/new does not start with the fields of another Site.
NewFormIsBlank == route = New => page.fields = NoSite
=============================================================================

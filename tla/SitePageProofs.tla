--------------------------- MODULE SitePageProofs ---------------------------
(***************************************************************************)
(* The Site page, and the Discover panel that it opens over the scans of   *)
(* the Server.                                                             *)
(*                                                                         *)
(* The page: SiteInvariant says which loads may still write what is shown, *)
(* and what each open form began with.                                     *)
(*                                                                         *)
(* The scan: PoolInvariant says where each address of the network is: to   *)
(* be sent, queued, with one worker, or reported, and never in two places. *)
(* It needs to know that the addresses in the list are those a host can    *)
(* have, each once, which is arithmetic on networks (HostsAreUsable), and  *)
(* that sorting loses nothing (SortedIsSorted).                            *)
(*                                                                         *)
(* The panel: PanelInvariant ties its list to the scan it came from.       *)
(***************************************************************************)
EXTENDS SitePage, DiscoveryPanel, FiniteSetTheorems, TLAPS

-----------------------------------------------------------------------------
(* The page *)

\* What a call carries.
SameCall(c, d) ==
    d.kind = c.kind /\ d.site = c.site /\ d.at = c.at /\ d.version = c.version

\* The page has loaded what it shows; over nothing loaded nothing is open; and
\* what neither loads nor failed is the Site of the URL.
Settled(r, p) ==
    /\ p.site = p.loaded
    /\ r \in Sites /\ p.mode # "view" => p.loaded # NoSite
    /\ r \in Sites /\ ~p.loading /\ ~p.error => p.loaded = r

\* An answer belongs to one write of one Site.
Distinct(cs) ==
    \A c, d \in cs :
        c.at = "answered" /\ d.at = "answered" /\ c.site = d.site /\ c.version = d.version
            => c = d

LoadsAreTheUrls == \A l \in load : l.site = route

CallsHaveSites ==
    \A c \in calls : c.kind # "addSite" \/ c.at = "answered" => c.site \in Sites

ToldIsPast == \A s \in Sites : told[s] <= db[s].version

AnswersArePast == \A c \in calls : c.at = "answered" => c.version <= db[c.site].version

\* What a load of Hosts has heard is not older than what the tab was told.
LoadsAreCurrent ==
    \A l \in hostLoads :
        /\ l.left \subseteq l.of
        /\ \A s \in l.of \ l.left : told[s] <= l.seen[s]

SiteInvariant ==
    /\ TypeOK
    /\ Settled(route, page)
    /\ LoadsAreTheUrls
    /\ CallsHaveSites
    /\ Distinct(calls)
    /\ ToldIsPast
    /\ AnswersArePast
    /\ LoadsAreCurrent

-----------------------------------------------------------------------------
(* The operators *)

LoadType == [site: Sites, at: {"asked", "answered"}]
Routes == Sites \cup {New, Elsewhere}

\* Routes are told apart, and no Site is the absence of one.
LEMMA RoutesDiffer ==
  NoSite \notin Sites /\ Elsewhere \notin Sites /\ New \notin Sites /\ New # Elsewhere
BY NewAssumption, RoutesAssumption

\* What keeps what the calls carry keeps them distinct.
LEMMA SameIsDistinct ==
  ASSUME NEW cs, NEW g, Distinct(cs), \A c \in cs : SameCall(c, g[c])
  PROVE  Distinct({g[c] : c \in cs})
BY DEF Distinct, SameCall

\* A commit changes of the state it is given only the fields of the form, and of
\* the calls only whether their form is there.
LEMMA RenderKeeps ==
  ASSUME TypeOK, NEW r \in Routes, NEW p \in Page, NEW cs \in SUBSET Call,
         Distinct(cs), Render(r, p, cs)
  PROVE  /\ route' = r /\ page' \in Page
         /\ page'.site = p.site /\ page'.loaded = p.loaded /\ page'.mode = p.mode
         /\ page'.error = p.error /\ page'.loading = p.loading
         /\ calls' \subseteq Call /\ Distinct(calls')
         /\ \A d \in calls' : \E c \in cs : SameCall(c, d)
<1> DEFINE f == IF ~SiteForm(r, p) THEN NoSite
                ELSE IF SiteForm(route, page) THEN page.fields
                ELSE IF r = New THEN NoSite ELSE p.site
           form(c) == c.form /\ FormOf(c.kind, r, p)
           rendered(c) == [c EXCEPT !.form = form(c)]
<1>1. page' = [p EXCEPT !.fields = f]
  BY DEF Render
<1>2. f \in Sites \cup {NoSite}
  BY DEF Page, TypeOK
<1>3. /\ page' \in Page
      /\ page'.site = p.site /\ page'.loaded = p.loaded /\ page'.mode = p.mode
      /\ page'.error = p.error /\ page'.loading = p.loading
  BY <1>1, <1>2 DEF Page
<1>4. calls' = {rendered(c) : c \in cs}
  BY DEF Render
<1>5. \A c \in Call : form(c) \in BOOLEAN
  BY DEF FormOf, HostForm, SiteForm, HasSite, Call
<1>6. \A c \in Call : rendered(c) \in Call /\ SameCall(c, rendered(c))
  BY <1>5 DEF Call, SameCall
<1>7. calls' \subseteq Call /\ \A d \in calls' : \E c \in cs : SameCall(c, d)
  BY <1>4, <1>6
<1>8. Distinct(calls')
  <2> DEFINE g == [c \in cs |-> rendered(c)]
  <2>1. calls' = {g[c] : c \in cs} /\ \A c \in cs : SameCall(c, g[c])
    BY <1>4, <1>6
  <2> HIDE DEF g
  <2> QED BY <2>1, SameIsDistinct
<1> QED BY <1>3, <1>7, <1>8 DEF Render

\* A commit of what is settled is settled.
LEMMA RenderSettles ==
  ASSUME TypeOK, NEW r \in Routes, NEW p \in Page, NEW cs \in SUBSET Call,
         Distinct(cs), Render(r, p, cs), Settled(r, p)
  PROVE  Settled(route', page')
BY RenderKeeps DEF Settled

\* A run of the effect leaves one load, of the Site of the URL, or none; what it
\* does not start over was loaded for that Site.
LEMMA EffectKeeps ==
  ASSUME TypeOK, NEW r \in Sites \cup {New}, NEW p \in Page, p.site = p.loaded,
         NEW cs \in SUBSET Call, Distinct(cs), Effect(r, p, cs)
  PROVE  /\ route' = r /\ page' \in Page /\ Settled(route', page')
         /\ load' \subseteq LoadType /\ \A l \in load' : l.site = r
         /\ calls' \subseteq Call /\ Distinct(calls')
         /\ \A d \in calls' : \E c \in cs : SameCall(c, d)
         /\ r \in Sites /\ p.loaded = r =>
              /\ page'.site = p.site /\ page'.loaded = p.loaded
              /\ page'.mode = p.mode /\ page'.loading = p.loading
<1>1. CASE r = New
  <2>1. Blank(p) \in Page /\ Blank(p).site = NoSite /\ Blank(p).loaded = NoSite
    BY DEF Blank, Page, Mode
  <2>2. Render(r, Blank(p), cs) /\ load' = {}
    BY <1>1 DEF Effect
  <2>3. Settled(r, Blank(p))
    BY <1>1, <2>1, RoutesDiffer DEF Settled
  <2> QED BY <1>1, <2>1, <2>2, <2>3, RoutesDiffer, RenderKeeps, RenderSettles DEF Routes
<1>2. CASE r # New
  <2>1. r \in Sites
    BY <1>2
  <2>2. Render(r, Started(r, p), cs) /\ load' = {Loading(r)}
    BY <1>2 DEF Effect
  <2>3. /\ Started(r, p) \in Page
        /\ IF p.loaded = r THEN Started(r, p) = p
           ELSE /\ Started(r, p).site = p.site /\ Started(r, p).loaded = p.loaded
                /\ Started(r, p).mode = "view" /\ Started(r, p).loading
    BY DEF Started, SiteChanged, Page, Mode
  <2>4. Settled(r, Started(r, p))
    BY <2>1, <2>3, RoutesDiffer DEF Settled
  <2>5. load' \subseteq LoadType /\ \A l \in load' : l.site = r
    BY <2>1, <2>2 DEF Loading, LoadType
  <2>6. /\ route' = r /\ page' \in Page
        /\ page'.site = Started(r, p).site /\ page'.loaded = Started(r, p).loaded
        /\ page'.mode = Started(r, p).mode /\ page'.loading = Started(r, p).loading
        /\ calls' \subseteq Call /\ Distinct(calls')
        /\ \A d \in calls' : \E c \in cs : SameCall(c, d)
    BY <2>1, <2>2, <2>3, RenderKeeps DEF Routes
  <2>7. Settled(route', page')
    BY <2>1, <2>2, <2>3, <2>4, RenderSettles DEF Routes
  <2> QED BY <2>3, <2>5, <2>6, <2>7
<1> QED BY <1>1, <1>2

\* So does a bump, where the page is; elsewhere there is no page to load.
LEMMA BumpKeeps ==
  ASSUME TypeOK, LoadsAreTheUrls, NEW p \in Page, Settled(route, p),
         NEW cs \in SUBSET Call, Distinct(cs), Bump(p, cs)
  PROVE  /\ route' = route /\ page' \in Page /\ Settled(route', page')
         /\ load' \subseteq LoadType /\ \A l \in load' : l.site = route'
         /\ calls' \subseteq Call /\ Distinct(calls')
         /\ \A d \in calls' : \E c \in cs : SameCall(c, d)
         /\ route \in Sites /\ p.loaded = route =>
              /\ page'.site = p.site /\ page'.loaded = p.loaded
              /\ page'.mode = p.mode /\ page'.loading = p.loading
<1>1. CASE route = Elsewhere
  <2>1. Render(route, p, cs) /\ UNCHANGED load
    BY <1>1 DEF Bump
  <2>2. load \subseteq LoadType /\ route \in Routes
    BY DEF TypeOK, LoadType, Routes
  <2> QED BY <1>1, <2>1, <2>2, RoutesDiffer, RenderKeeps, RenderSettles DEF LoadsAreTheUrls
<1>2. CASE route # Elsewhere
  <2>1. Effect(route, p, cs) /\ route \in Sites \cup {New}
    BY <1>2 DEF Bump, TypeOK
  <2> QED BY <2>1, EffectKeeps DEF Settled
<1> QED BY <1>1, <1>2

\* A page that goes away leaves nothing to load or to show.
LEMMA UnmountKeeps ==
  ASSUME NEW cs \in SUBSET Call, Distinct(cs), Unmount(cs)
  PROVE  /\ route' = Elsewhere /\ page' \in Page /\ Settled(route', page')
         /\ load' = {}
         /\ calls' \subseteq Call /\ Distinct(calls')
         /\ \A d \in calls' : \E c \in cs : SameCall(c, d)
<1> DEFINE left(c) == [c EXCEPT !.here = FALSE, !.form = FALSE]
<1>1. calls' = {left(c) : c \in cs}
  BY DEF Unmount
<1>2. \A c \in Call : left(c) \in Call /\ SameCall(c, left(c))
  BY DEF Call, SameCall
<1>3. Distinct(calls')
  <2> DEFINE g == [c \in cs |-> left(c)]
  <2>1. calls' = {g[c] : c \in cs} /\ \A c \in cs : SameCall(c, g[c])
    BY <1>1, <1>2
  <2> HIDE DEF g
  <2> QED BY <2>1, SameIsDistinct
<1>4. page' \in Page /\ page'.site = NoSite /\ page'.loaded = NoSite /\ route' = Elsewhere
  BY DEF Unmount, Mounted, Page, Mode
<1>5. Settled(route', page')
  BY <1>4, RoutesDiffer DEF Settled
<1> QED BY <1>1, <1>2, <1>3, <1>4, <1>5 DEF Unmount

\* The instance of the component a link shows.
LEMMA InstanceKeeps ==
  ASSUME TypeOK, Settled(route, page), NEW r \in Routes
  PROVE  Instance(r) \in Page /\ Instance(r).site = Instance(r).loaded
BY DEF Instance, Mounted, Page, Mode, TypeOK, Settled

\* A load of Hosts begins with no answer.
LEMMA LoadOfKeeps ==
  ASSUME NEW e \in SUBSET (Sites \cup {New})
  PROVE  LoadOf(e) \in HostLoad /\ LoadOf(e).left = LoadOf(e).of
BY NewAssumption DEF LoadOf, HostLoad

\* Nothing was heard by a load that has just begun.
Fresh(ls) == ls \subseteq HostLoad /\ \A l \in ls : l.left = l.of

\* Bumped, the tree keeps what it shows and starts its loads over.
LEMMA TreeBumpedKeeps ==
  ASSUME TreeTypeOK, NEW e \in SUBSET (Sites \cup {New}), TreeBumped(e)
  PROVE  /\ tree' \in Tree /\ tree'.shown = tree.shown
         /\ listLoad' \in ListLoad /\ Fresh(hostLoads') /\ failures' = failures
<1>1. tree' \in Tree /\ tree'.shown = tree.shown
  BY DEF TreeBumped, TreeTypeOK, Tree
<1>2. listLoad' \in ListLoad
  BY DEF TreeBumped, NoLoad, ListLoad
<1> QED BY <1>1, <1>2, LoadOfKeeps DEF TreeBumped, HostsEffect, Fresh

\* So it does when what is expanded changes.
LEMMA TreeExpandedKeeps ==
  ASSUME TreeTypeOK, NEW e \in SUBSET (Sites \cup {New}), TreeExpanded(e)
  PROVE  /\ tree' \in Tree /\ tree'.shown = tree.shown
         /\ listLoad' = listLoad /\ failures' = failures
         /\ hostLoads' = hostLoads \/ Fresh(hostLoads')
<1>1. tree' \in Tree /\ tree'.shown = tree.shown
  BY DEF TreeExpanded, TreeTypeOK, Tree
<1> QED BY <1>1, LoadOfKeeps DEF TreeExpanded, HostsEffect, Fresh

-----------------------------------------------------------------------------
(* The steps *)

\* What the tree does by itself tells the tab nothing, and each answer is of now.
LEMMA TreeStep ==
  ASSUME TypeOK, ToldIsPast, LoadsAreCurrent, TreeNext, UNCHANGED told
  PROVE  /\ TreeTypeOK' /\ LoadsAreCurrent' /\ db' = db
         /\ \A s \in Sites :
              tree'.shown[s] # tree.shown[s] => told[s] <= tree'.shown[s]
<1> USE DEF TypeOK
<1>shown. tree'.shown = tree.shown =>
            \A s \in Sites : tree'.shown[s] # tree.shown[s] => told[s] <= tree'.shown[s]
  OBVIOUS
<1>heard. hostLoads' \subseteq hostLoads => LoadsAreCurrent'
  BY DEF LoadsAreCurrent
<1>fresh. Fresh(hostLoads') => LoadsAreCurrent'
  BY DEF LoadsAreCurrent, Fresh
<1>1. CASE ServeList
  BY <1>1, <1>shown, <1>heard DEF ServeList, TreeTypeOK, ListLoad
<1>2. CASE ShowList
  <2>1. listLoad.list \subseteq Sites
    BY DEF TreeTypeOK, ListLoad, NoLoad
  <2>2. tree' \in Tree /\ tree'.shown = tree.shown
    BY <1>2, <2>1 DEF ShowList, TreeTypeOK, Tree
  <2> QED BY <1>2, <2>2, <1>shown, <1>heard DEF ShowList, TreeTypeOK, ListLoad
<1>failed. ASSUME failures < MaxFailures, failures' = failures + 1,
                  tree' = [tree EXCEPT !.error = TRUE]
           PROVE  failures' \in 0..MaxFailures /\ tree' \in Tree /\ tree'.shown = tree.shown
  <2>1. failures' \in 0..MaxFailures
    BY <1>failed, BoundsAssumption DEF TreeTypeOK
  <2>2. tree' \in Tree /\ tree'.shown = tree.shown
    BY <1>failed DEF TreeTypeOK, Tree
  <2> QED BY <2>1, <2>2
<1>3. CASE ListFails
  BY <1>3, <1>failed, <1>shown, <1>heard DEF ListFails, TreeTypeOK, ListLoad
<1>4. CASE PollHosts
  <2>1. LoadOf(tree.expanded) \in HostLoad /\ LoadOf(tree.expanded).left = LoadOf(tree.expanded).of
    BY LoadOfKeeps DEF TreeTypeOK, Tree
  <2>2. LoadsAreCurrent'
    BY <1>4, <2>1 DEF PollHosts, LoadsAreCurrent
  <2> QED BY <1>4, <2>1, <2>2, <1>shown DEF PollHosts, TreeTypeOK
<1>5. CASE Revealed
  <2>1. tree.expanded \cup reveal \in SUBSET (Sites \cup {New})
    BY DEF TreeTypeOK, Tree
  <2>2. CASE TreeExpanded(tree.expanded \cup reveal)
    <3>1. /\ tree' \in Tree /\ tree'.shown = tree.shown
          /\ listLoad' = listLoad /\ failures' = failures
          /\ hostLoads' = hostLoads \/ Fresh(hostLoads')
      BY <2>1, <2>2, TreeExpandedKeeps
    <3>2. LoadsAreCurrent' /\ hostLoads' \subseteq HostLoad
      BY <3>1, <1>heard, <1>fresh DEF Fresh, TreeTypeOK
    <3> QED BY <1>5, <3>1, <3>2, <1>shown DEF Revealed, TreeTypeOK
  <2>3. CASE UNCHANGED <<tree, listLoad, hostLoads, failures>>
    BY <1>5, <2>3, <1>heard DEF Revealed, TreeTypeOK
  <2> QED BY <1>5, <2>2, <2>3 DEF Revealed
<1>6. ASSUME NEW l \in hostLoads, ShowHosts(l)
      PROVE  /\ TreeTypeOK' /\ LoadsAreCurrent' /\ db' = db
             /\ \A s \in Sites :
                  tree'.shown[s] # tree.shown[s] => told[s] <= tree'.shown[s]
  <2> DEFINE shown == [s \in Sites |-> IF s \in l.of THEN l.seen[s] ELSE tree.shown[s]]
  <2>1. tree' = [tree EXCEPT !.shown = shown] /\ l.left = {} /\ l \in HostLoad
    BY <1>6 DEF ShowHosts, TreeTypeOK
  <2>2. shown \in [Sites -> Version \cup {Unseen}]
    BY <2>1 DEF TreeTypeOK, Tree, HostLoad
  <2>3. tree' \in Tree /\ tree'.shown = shown
    BY <2>1, <2>2 DEF TreeTypeOK, Tree
  <2>4. \A s \in l.of : told[s] <= l.seen[s]
    BY <2>1 DEF LoadsAreCurrent
  <2>5. \A s \in Sites : shown[s] # tree.shown[s] => told[s] <= shown[s]
    BY <2>4
  <2> QED BY <1>6, <2>3, <2>5, <1>heard DEF ShowHosts, TreeTypeOK
<1>7. ASSUME NEW l \in hostLoads, HostsFail(l)
      PROVE  TreeTypeOK' /\ LoadsAreCurrent' /\ db' = db /\ tree'.shown = tree.shown
  BY <1>7, <1>failed, <1>heard DEF HostsFail, TreeTypeOK
<1>8. ASSUME NEW l \in hostLoads, NEW s \in Sites, ServeHosts(l, s)
      PROVE  TreeTypeOK' /\ LoadsAreCurrent' /\ db' = db /\ tree'.shown = tree.shown
  <2> DEFINE m == [l EXCEPT !.left = l.left \ {s}, !.seen[s] = db[s].version]
  <2>1. hostLoads' = (hostLoads \ {l}) \cup {m} /\ UNCHANGED <<db, tree, listLoad, reveal, failures>>
    BY <1>8 DEF ServeHosts
  <2>2. l \in HostLoad /\ db[s].version \in Version
    BY DEF TreeTypeOK
  <2>3. /\ m \in HostLoad /\ m.of = l.of /\ m.left = l.left \ {s}
        /\ m.seen = [l.seen EXCEPT ![s] = db[s].version]
    BY <2>2 DEF HostLoad
  <2>4. told[s] <= db[s].version
    BY DEF ToldIsPast
  <2>5. /\ m.left \subseteq m.of
        /\ \A r \in m.of \ m.left : told[r] <= m.seen[r]
    BY <2>2, <2>3, <2>4 DEF LoadsAreCurrent, HostLoad
  <2> HIDE DEF m
  <2>6. LoadsAreCurrent'
    BY <2>1, <2>5 DEF LoadsAreCurrent
  <2> QED BY <2>1, <2>3, <2>6 DEF TreeTypeOK
<1> QED BY <1>1, <1>2, <1>3, <1>4, <1>5, <1>6, <1>7, <1>8, <1>shown DEF TreeNext

\* Every action keeps the invariant.
LEMMA SiteStep == SiteInvariant /\ [Next]_vars => SiteInvariant'
<1> SUFFICES ASSUME SiteInvariant, [Next]_vars PROVE SiteInvariant'
  OBVIOUS
<1> USE DEF SiteInvariant
<1> DEFINE From(cs) == \A d \in calls' : \E c \in cs : SameCall(c, d)
<1>version. \A s \in Sites : db[s].version \in 0..MaxVersion /\ told[s] \in 0..MaxVersion
  BY DEF TypeOK, TreeTypeOK, Version
<1>calls. ASSUME UNCHANGED db, NEW cs \in SUBSET calls, From(cs)
          PROVE  CallsHaveSites' /\ AnswersArePast'
  BY <1>calls DEF CallsHaveSites, AnswersArePast, SameCall
<1>past. UNCHANGED <<db, told>> => ToldIsPast'
  BY DEF ToldIsPast
<1>heard. UNCHANGED <<hostLoads, told>> => LoadsAreCurrent'
  BY DEF LoadsAreCurrent
<1>fresh. Fresh(hostLoads') => LoadsAreCurrent'
  BY DEF LoadsAreCurrent, Fresh
<1>same. UNCHANGED calls => From(calls)
  BY DEF SameCall
<1>click. Click => clicks' \in 0..MaxClicks
  BY ClicksAssumption DEF Click, TypeOK
<1>told. ASSUME NEW c \in calls, Told(c)
         PROVE  /\ c.site \in Sites /\ told' \in [Sites -> Version]
                /\ ToldIsPast' /\ UNCHANGED <<db, clicks>>
  <2>1. c.site \in Sites /\ c.version <= db[c.site].version
    BY <1>told DEF Told, CallsHaveSites, AnswersArePast
  <2>2. told' \in [Sites -> Version]
    BY <1>told DEF Told, TypeOK, Call
  <2>3. \A s \in Sites : told'[s] = told[s] \/ (s = c.site /\ told'[s] = c.version)
    BY <1>told DEF Told, TypeOK
  <2> QED BY <1>told, <2>1, <2>2, <2>3 DEF Told, ToldIsPast
<1>page. TypeOK /\ page \in Page /\ route \in Routes /\ calls \in SUBSET Call
  BY DEF TypeOK, Routes
<1>some. ASSUME NEW c \in calls PROVE calls \ {c} \in SUBSET Call /\ Distinct(calls \ {c})
  BY DEF TypeOK, Distinct
<1>tree. TreeTypeOK /\ tree.expanded \in SUBSET (Sites \cup {New})
  BY DEF TypeOK, TreeTypeOK, Tree
<1>0. CASE UNCHANGED vars
  BY <1>0, <1>same, <1>calls, <1>past, <1>heard
     DEF vars, treeVars, TypeOK, TreeTypeOK, LoadsAreTheUrls
<1>1. ASSUME NEW r \in Sites \cup {New}, Open(r) PROVE SiteInvariant'
  <2>1. Instance(r) \in Page /\ Instance(r).site = Instance(r).loaded
    BY InstanceKeeps DEF Routes
  <2>2. /\ route' = r /\ page' \in Page /\ Settled(route', page')
        /\ load' \subseteq LoadType /\ \A l \in load' : l.site = r
        /\ calls' \subseteq Call /\ Distinct(calls') /\ From(calls)
    BY <1>1, <1>page, <2>1, EffectKeeps DEF Open
  <2>3. tree.expanded \cup {r} \in SUBSET (Sites \cup {New})
    BY <1>tree
  <2>4. /\ tree' \in Tree /\ listLoad' = listLoad /\ failures' = failures
        /\ hostLoads' = hostLoads \/ Fresh(hostLoads')
    BY <1>1, <1>tree, <2>3, TreeExpandedKeeps DEF Open
  <2>5. /\ UNCHANGED <<db, told>> /\ reveal' = {} /\ clicks' \in 0..MaxClicks
    BY <1>1, <1>click DEF Open
  <2>6. TypeOK'
    BY <2>2, <2>4, <2>5 DEF TypeOK, TreeTypeOK, Fresh, LoadType
  <2> QED BY <2>2, <2>4, <2>5, <2>6, <1>calls, <1>past, <1>heard, <1>fresh DEF LoadsAreTheUrls
<1>2. ASSUME NEW s \in Sites, ToggleSite(s) PROVE SiteInvariant'
  <2>1. PICK e \in SUBSET (Sites \cup {New}) : TreeExpanded(e)
    BY <1>2, <1>tree DEF ToggleSite, Toggle
  <2>2. /\ tree' \in Tree /\ listLoad' = listLoad /\ failures' = failures
        /\ hostLoads' = hostLoads \/ Fresh(hostLoads')
    BY <1>tree, <2>1, TreeExpandedKeeps
  <2>3. /\ UNCHANGED <<db, reveal, route, page, load, calls, told>>
        /\ clicks' \in 0..MaxClicks
    BY <1>2, <1>click DEF ToggleSite, Toggle
  <2>4. TypeOK'
    BY <2>2, <2>3 DEF TypeOK, TreeTypeOK, Fresh
  <2> QED BY <2>2, <2>3, <2>4, <1>same, <1>calls, <1>past, <1>heard, <1>fresh
          DEF LoadsAreTheUrls
<1>3. ASSUME NEW s \in Sites, OthersWrite(s) PROVE SiteInvariant'
  <2>1. PICK live \in BOOLEAN :
          /\ db[s].version < MaxVersion
          /\ db' = [db EXCEPT ![s] = [live |-> live, version |-> db[s].version + 1]]
    BY <1>3 DEF OthersWrite, OthersWriteSite
  <2>2. db[s].version + 1 \in Version
    BY <2>1, <1>version, BoundsAssumption DEF Version
  <2>3. /\ db' \in [Sites -> [live: BOOLEAN, version: Version]]
        /\ \A g \in Sites : db'[g].version = db[g].version \/ db'[g].version = db[g].version + 1
    BY <2>1, <2>2 DEF TypeOK, TreeTypeOK
  <2>4. UNCHANGED <<tree, listLoad, hostLoads, reveal, failures, route, page, load, calls, told, clicks>>
    BY <1>3 DEF OthersWrite, OthersWriteSite
  <2>5. TypeOK'
    BY <2>3, <2>4 DEF TypeOK, TreeTypeOK
  <2>6. ToldIsPast'
    BY <2>3, <2>4, <1>version DEF ToldIsPast
  <2>7. AnswersArePast'
    <3> SUFFICES ASSUME NEW c \in calls, c.at = "answered"
                 PROVE  c.version <= db'[c.site].version
      BY <2>4 DEF AnswersArePast
    <3>1. c.site \in Sites /\ c.version <= db[c.site].version /\ c.version \in 0..MaxVersion
      BY DEF CallsHaveSites, AnswersArePast, TypeOK, Call, Version
    <3> QED BY <3>1, <2>3, <1>version
  <2> QED BY <2>4, <2>5, <2>6, <2>7, <1>heard DEF LoadsAreTheUrls, CallsHaveSites
\* A step of the page alone.
<1>render. ASSUME NEW p \in Page, Settled(route, p), NEW cs \in SUBSET calls, Distinct(cs),
                  Render(route, p, cs), load' \subseteq load, UNCHANGED <<treeVars, told>>,
                  clicks' \in 0..MaxClicks
           PROVE  SiteInvariant'
  <2>1. cs \in SUBSET Call
    BY <1>page
  <2>2. /\ route' = route /\ page' \in Page /\ Settled(route', page')
        /\ calls' \subseteq Call /\ Distinct(calls') /\ From(cs)
    BY <1>render, <1>page, <2>1, RenderKeeps, RenderSettles
  <2>3. TypeOK'
    BY <1>render, <2>2 DEF TypeOK, TreeTypeOK, treeVars
  <2>4. UNCHANGED <<db, told, hostLoads>>
    BY <1>render DEF treeVars
  <2>5. LoadsAreTheUrls'
    BY <1>render, <2>2 DEF LoadsAreTheUrls
  <2> QED BY <2>2, <2>3, <2>4, <2>5, <1>calls, <1>past, <1>heard
<1>4. ASSUME NEW mode \in Mode, OpenMode(mode) PROVE SiteInvariant'
  <2> DEFINE p == [page EXCEPT !.mode = mode]
  <2>1. p \in Page /\ Settled(route, p)
    BY <1>4, <1>page DEF OpenMode, View, HasSite, Settled, Page
  <2> QED BY <1>4, <2>1, <1>render, <1>click DEF OpenMode
<1>5. CASE Leave
  <2>1. /\ route' = Elsewhere /\ page' \in Page /\ Settled(route', page') /\ load' = {}
        /\ calls' \subseteq Call /\ Distinct(calls') /\ From(calls)
    BY <1>5, <1>page, UnmountKeeps DEF Leave
  <2>2. reveal' \subseteq Sites /\ UNCHANGED <<db, tree, listLoad, hostLoads, failures, told>>
    BY <1>5 DEF Leave, TypeOK, TreeTypeOK, Tree
  <2>3. TypeOK'
    BY <1>5, <2>1, <2>2, <1>click DEF Leave, TypeOK, TreeTypeOK
  <2> QED BY <2>1, <2>2, <2>3, <1>calls, <1>past, <1>heard DEF LoadsAreTheUrls
<1>6. CASE Close
  <2> DEFINE p == [page EXCEPT !.mode = "view"]
  <2>1. p \in Page /\ Settled(route, p)
    BY <1>page DEF Settled, Page, Mode
  <2> QED BY <1>6, <2>1, <1>render, <1>click DEF Close
<1>7. CASE RefreshLink
  <2>1. UNCHANGED <<db, told, hostLoads, route, page, load, calls>>
    BY <1>7 DEF RefreshLink, treeVars
  <2>2. TypeOK'
    BY <1>7, <1>click DEF RefreshLink, TypeOK, TreeTypeOK, treeVars
  <2> QED BY <2>1, <2>2, <1>same, <1>calls, <1>past, <1>heard DEF LoadsAreTheUrls
<1>8. CASE Submit
  <2>1. PICK kind \in Kind, s \in Sites \cup {NoSite} :
          (kind # "addSite" => s \in Sites) /\ Send(kind, s)
    <3>1. page.site \in Sites \cup {NoSite}
      BY <1>page DEF Page
    <3>2. ASSUME SiteForm(route, page), route # New PROVE page.site \in Sites
      BY <3>1, <3>2, <1>page DEF SiteForm, Settled, Routes
    <3>3. HasSite(route, page) => page.site \in Sites
      BY <3>1 DEF HasSite
    <3> QED BY <1>8, <3>1, <3>2, <3>3 DEF Submit, HostForm, Panel, View, Kind
  <2> DEFINE c == [kind |-> kind, site |-> s, at |-> "asked", version |-> 0, here |-> TRUE,
                   form |-> kind \notin {"addFound", "deleteSite"}]
  <2>2. calls' = calls \cup {c} /\ UNCHANGED <<treeVars, route, page, load, told>>
        /\ clicks' \in 0..MaxClicks
    BY <2>1, <1>click DEF Send
  <2>3. c \in Call
    BY BoundsAssumption DEF Call, Version
  <2>4. CallsHaveSites' /\ AnswersArePast' /\ Distinct(calls')
    BY <2>1, <2>2 DEF CallsHaveSites, AnswersArePast, Distinct, treeVars
  <2>5. TypeOK'
    BY <2>2, <2>3 DEF TypeOK, TreeTypeOK, treeVars
  <2> QED BY <2>2, <2>4, <2>5, <1>past, <1>heard DEF LoadsAreTheUrls, treeVars
<1>9. ASSUME NEW l \in load, ServeLoad(l) PROVE SiteInvariant'
  <2>1. [l EXCEPT !.at = "answered"] \in LoadType /\ [l EXCEPT !.at = "answered"].site = route
    BY DEF TypeOK, LoadType, LoadsAreTheUrls
  <2>2. UNCHANGED <<db, told, hostLoads, route, page, calls>>
    BY <1>9 DEF ServeLoad, treeVars
  <2>3. TypeOK' /\ LoadsAreTheUrls'
    BY <1>9, <2>1, <2>2 DEF ServeLoad, TypeOK, TreeTypeOK, treeVars, LoadType, LoadsAreTheUrls
  <2> QED BY <2>2, <2>3, <1>same, <1>calls, <1>past, <1>heard
<1>10. ASSUME NEW l \in load, Loaded(l) PROVE SiteInvariant'
  <2> DEFINE p == [page EXCEPT !.site = l.site, !.loaded = l.site, !.error = FALSE,
                               !.loading = FALSE]
  <2>1. l.site = route /\ l.site \in Sites
    BY DEF LoadsAreTheUrls, TypeOK
  <2>2. p \in Page /\ Settled(route, p)
    BY <1>page, <2>1, RoutesDiffer DEF Settled, Page
  <2> QED BY <1>10, <2>2, <1>render DEF Loaded, TypeOK
<1>11. ASSUME NEW l \in load, LoadFails(l) PROVE SiteInvariant'
  <2> DEFINE p == [page EXCEPT !.error = TRUE, !.loading = FALSE]
  <2>1. p \in Page /\ Settled(route, p)
    BY <1>page DEF Settled, Page
  <2> QED BY <1>11, <2>1, <1>render DEF LoadFails, TypeOK
<1>12. ASSUME NEW c \in calls, Serve(c) PROVE SiteInvariant'
  <2>1. PICK s \in Target(c) :
          /\ db[s].version < MaxVersion
          /\ db' = [db EXCEPT ![s] = [live |-> c.kind # "deleteSite",
                                      version |-> db[s].version + 1]]
          /\ calls' = (calls \ {c}) \cup
               {[c EXCEPT !.at = "answered", !.site = s, !.version = db[s].version + 1]}
    BY <1>12 DEF Serve
  <2> DEFINE d == [c EXCEPT !.at = "answered", !.site = s, !.version = db[s].version + 1]
  <2>2. s \in Sites /\ c \in Call
    BY <1>12 DEF Serve, Target, CallsHaveSites, TypeOK
  <2>3. db[s].version + 1 \in Version
    BY <2>1, <2>2, <1>version, BoundsAssumption DEF Version
  <2>4. d \in Call /\ d.site = s /\ d.version = db[s].version + 1 /\ d.at = "answered"
    BY <2>2, <2>3 DEF Call
  <2>5. /\ db' \in [Sites -> [live: BOOLEAN, version: Version]]
        /\ db'[s].version = db[s].version + 1
        /\ \A g \in Sites : db'[g].version = db[g].version \/ db'[g].version = db[g].version + 1
    BY <2>1, <2>2, <2>3 DEF TypeOK, TreeTypeOK
  <2>6. /\ UNCHANGED <<tree, listLoad, hostLoads, reveal, failures, route, page, load, told, clicks>>
        /\ calls' = (calls \ {c}) \cup {d}
    BY <1>12, <2>1 DEF Serve
  <2> HIDE DEF d
  <2>7. TypeOK'
    BY <2>4, <2>5, <2>6 DEF TypeOK, TreeTypeOK
  <2>8. ToldIsPast'
    BY <2>5, <2>6, <1>version DEF ToldIsPast
  <2>9. \A b \in calls : b.at = "answered" =>
          b.site \in Sites /\ b.version \in 0..MaxVersion /\ b.version <= db[b.site].version
    BY DEF CallsHaveSites, AnswersArePast, TypeOK, Call, Version
  <2>10. AnswersArePast'
    <3> SUFFICES ASSUME NEW b \in calls', b.at = "answered"
                 PROVE  b.version <= db'[b.site].version
      BY DEF AnswersArePast
    <3>1. CASE b = d
      BY <3>1, <2>2, <2>4, <2>5, <1>version
    <3>2. CASE b \in calls
      BY <3>2, <2>5, <2>9, <1>version
    <3> QED BY <3>1, <3>2, <2>6
  <2>11. \A b \in calls : b.at = "answered" /\ b.site = s => b.version # d.version
    BY <2>2, <2>4, <2>9, <1>version
  <2>12. Distinct(calls')
    BY <2>4, <2>6, <2>11 DEF Distinct
  <2>13. CallsHaveSites'
    BY <2>2, <2>4, <2>6 DEF CallsHaveSites
  <2> QED BY <2>6, <2>7, <2>8, <2>10, <2>12, <2>13, <1>heard DEF LoadsAreTheUrls
\* An answer that bumps.
<1>bumped. ASSUME NEW c \in calls, Told(c), NEW e \in SUBSET (Sites \cup {New}), TreeBumped(e),
                  reveal' = reveal \/ reveal' = {},
                  route' \in Routes, page' \in Page, Settled(route', page'),
                  load' \subseteq LoadType, \A l \in load' : l.site = route',
                  calls' \subseteq Call, Distinct(calls'), From(calls \ {c})
           PROVE  SiteInvariant'
  <2>1. /\ tree' \in Tree /\ listLoad' \in ListLoad /\ Fresh(hostLoads')
        /\ failures' = failures
    BY <1>bumped, <1>tree, TreeBumpedKeeps
  <2>2. told' \in [Sites -> Version] /\ ToldIsPast' /\ UNCHANGED <<db, clicks>>
    BY <1>bumped, <1>told
  <2>3. TypeOK'
    BY <1>bumped, <2>1, <2>2 DEF TypeOK, TreeTypeOK, Fresh, LoadType, Routes
  <2>4. CallsHaveSites' /\ AnswersArePast'
    BY <1>bumped, <2>2, <1>calls
  <2> QED BY <1>bumped, <2>1, <2>2, <2>3, <2>4, <1>fresh DEF LoadsAreTheUrls
<1>13. ASSUME NEW c \in calls, SiteSaved(c) PROVE SiteInvariant'
  <2> DEFINE p == IF c.here THEN [page EXCEPT !.mode = "view"] ELSE Instance(c.site)
  <2>1. c.site \in Sites
    BY <1>13, <1>told DEF SiteSaved
  <2>2. Instance(c.site) \in Page /\ Instance(c.site).site = Instance(c.site).loaded
    BY <2>1, InstanceKeeps DEF Routes
  <2>3. p \in Page /\ p.site = p.loaded
    BY <2>2, <1>page DEF Page, Mode, Settled
  <2>4. Effect(c.site, p, calls \ {c})
    BY <1>13 DEF SiteSaved
  <2> HIDE DEF p
  <2>5. /\ route' = c.site /\ page' \in Page /\ Settled(route', page')
        /\ load' \subseteq LoadType /\ \A l \in load' : l.site = c.site
        /\ calls' \subseteq Call /\ Distinct(calls') /\ From(calls \ {c})
    BY <2>1, <2>3, <2>4, <1>page, <1>some, EffectKeeps
  <2>6. tree.expanded \cup {c.site} \in SUBSET (Sites \cup {New})
    BY <2>1, <1>tree
  <2> QED BY <1>13, <2>1, <2>5, <2>6, <1>bumped DEF SiteSaved, Routes
<1>14. ASSUME NEW c \in calls, NEW p \in Page, Settled(route, p), Told(c), Bump(p, calls \ {c})
       PROVE  SiteInvariant'
  <2>1. /\ route' = route /\ page' \in Page /\ Settled(route', page')
        /\ load' \subseteq LoadType /\ \A l \in load' : l.site = route'
        /\ calls' \subseteq Call /\ Distinct(calls') /\ From(calls \ {c})
    BY <1>14, <1>page, <1>some, BumpKeeps
  <2>2. TreeBumped(tree.expanded) /\ reveal' = reveal
    BY <1>14 DEF Bump
  <2> QED BY <1>14, <2>1, <2>2, <1>page, <1>tree, <1>bumped
<1>15. ASSUME NEW c \in calls, HostAdded(c) PROVE SiteInvariant'
  <2> DEFINE p == IF c.here THEN [page EXCEPT !.mode = "view"] ELSE page
  <2>1. p \in Page /\ Settled(route, p)
    BY <1>page DEF Settled, Page, Mode
  <2> QED BY <1>15, <2>1, <1>14 DEF HostAdded
<1>16. ASSUME NEW c \in calls, FoundAdded(c) PROVE SiteInvariant'
  BY <1>16, <1>page, <1>14 DEF FoundAdded
<1>17. ASSUME NEW c \in calls, Deleted(c) PROVE SiteInvariant'
  <2>1. /\ route' = Elsewhere /\ page' \in Page /\ Settled(route', page') /\ load' = {}
        /\ calls' \subseteq Call /\ Distinct(calls') /\ From(calls \ {c})
    BY <1>17, <1>some, UnmountKeeps DEF Deleted
  <2> QED BY <1>17, <2>1, <1>tree, <1>bumped DEF Deleted, Routes
<1>18. ASSUME NEW c \in calls, CallFails(c) PROVE SiteInvariant'
  <2> DEFINE p == [page EXCEPT !.error = page.error \/ (c.here /\ c.kind = "deleteSite")]
  <2>1. p \in Page /\ Settled(route, p)
    BY <1>page DEF Settled, Page, Call
  <2>2. Render(route, p, calls \ {c}) /\ UNCHANGED <<treeVars, load, told, clicks>>
    BY <1>18 DEF CallFails
  <2> HIDE DEF p
  <2> QED BY <2>1, <2>2, <1>render, <1>some DEF TypeOK
<1>19. CASE TreeNext /\ UNCHANGED <<route, page, load, calls, told, clicks>>
  <2>1. TreeTypeOK' /\ LoadsAreCurrent' /\ db' = db
    BY <1>19, TreeStep
  <2>2. TypeOK'
    BY <1>19, <2>1 DEF TypeOK
  <2> QED BY <1>19, <2>1, <2>2, <1>same, <1>calls, <1>past DEF LoadsAreTheUrls
<1> QED BY <1>0, <1>1, <1>2, <1>3, <1>4, <1>5, <1>6, <1>7, <1>8, <1>9, <1>10, <1>11, <1>12,
           <1>13, <1>15, <1>16, <1>17, <1>18, <1>19 DEF Next

\* A tab that is open on another page satisfies the invariant.
LEMMA SiteInitial == Init => SiteInvariant
<1> SUFFICES ASSUME Init PROVE SiteInvariant
  OBVIOUS
<1> USE RoutesDiffer, BoundsAssumption
<1>1. 0 \in Version /\ Unseen \in Version \cup {Unseen}
  BY DEF Version
<1>2. TreeTypeOK
  BY <1>1 DEF Init, TreeInit, TreeTypeOK, Tree, ListLoad, NoLoad
<1>3. page \in Page /\ Settled(route, page)
  BY DEF Init, Mounted, Page, Mode, Settled
<1>4. TypeOK
  BY <1>1, <1>2, <1>3, ClicksAssumption DEF Init, TypeOK
<1>5. ToldIsPast
  <2>1. \A s \in Sites : told[s] = 0 /\ db[s].version = 0
    BY DEF Init, TreeInit
  <2> QED BY <2>1 DEF ToldIsPast
<1> QED
  BY <1>3, <1>4, <1>5
  DEF Init, TreeInit, SiteInvariant, LoadsAreTheUrls, CallsHaveSites, Distinct,
      AnswersArePast, LoadsAreCurrent

-----------------------------------------------------------------------------
\* In every state of the page the loads that still count are of the Site of the
\* URL, nothing is open over a Site that was not loaded, and no load of the tree
\* has heard anything older than what the tab was told.
THEOREM SiteCorrect == Spec => []SiteInvariant
BY SiteInitial, SiteStep, PTL DEF Spec

\* However late the answers for the Site one came from, a page without an error
\* shows the Site of its URL, and its buttons act on that Site.
THEOREM SiteIsTheUrls == Spec => []NoForeignSite
<1>1. SiteInvariant => NoForeignSite
  BY DEF SiteInvariant, NoForeignSite, HasSite, Settled
<1> QED BY <1>1, SiteCorrect, PTL

\* No load of the tree, of however many overlap, brings a Site back to what it
\* was before the tab's own last change of it.
THEOREM TreeShowsOwnChanges == Spec => OwnChangesShown
<1> DEFINE Shows == \A s \in Sites :
                      tree'.shown[s] # tree.shown[s] => tree'.shown[s] >= told[s]
<1>1. SiteInvariant /\ [Next]_vars => [Shows]_vars
  <2> SUFFICES ASSUME SiteInvariant, [Next]_vars PROVE Shows \/ UNCHANGED vars
    OBVIOUS
  <2> USE DEF SiteInvariant
  <2>tree. TreeTypeOK /\ tree.expanded \in SUBSET (Sites \cup {New})
    BY DEF TypeOK, TreeTypeOK, Tree
  <2>same. tree'.shown = tree.shown => Shows
    OBVIOUS
  <2>bumped. ASSUME NEW e \in SUBSET (Sites \cup {New}), TreeBumped(e) \/ TreeExpanded(e)
             PROVE  Shows
    BY <2>bumped, <2>tree, <2>same, TreeBumpedKeeps, TreeExpandedKeeps
  <2>1. ASSUME NEW r \in Sites \cup {New}, Open(r) PROVE Shows
    <3>1. tree.expanded \cup {r} \in SUBSET (Sites \cup {New})
      BY <2>tree
    <3> QED BY <2>1, <3>1, <2>bumped DEF Open
  <2>2. ASSUME NEW s \in Sites, ToggleSite(s) PROVE Shows
    <3>1. PICK e \in SUBSET (Sites \cup {New}) : TreeExpanded(e)
      BY <2>2, <2>tree DEF ToggleSite, Toggle
    <3> QED BY <3>1, <2>bumped
  <2>3. ASSUME NEW c \in calls, SiteSaved(c) PROVE Shows
    <3>1. c.site \in Sites
      BY <2>3 DEF SiteSaved, Told, CallsHaveSites
    <3>2. tree.expanded \cup {c.site} \in SUBSET (Sites \cup {New})
      BY <3>1, <2>tree
    <3> QED BY <2>3, <3>2, <2>bumped DEF SiteSaved
  <2>4. ASSUME NEW c \in calls, HostAdded(c) \/ FoundAdded(c) \/ Deleted(c) PROVE Shows
    BY <2>4, <2>tree, <2>bumped DEF HostAdded, FoundAdded, Deleted, Bump
  <2>5. CASE TreeNext /\ UNCHANGED <<route, page, load, calls, told, clicks>>
    BY <2>5, TreeStep DEF TypeOK, TreeTypeOK, Tree, Version
  <2>6. CASE UNCHANGED tree
    BY <2>6, <2>same
  <2> QED
    BY <2>1, <2>2, <2>3, <2>4, <2>5, <2>6
    DEF Next, OthersWrite, OthersWriteSite, OpenMode, Leave, Close, RefreshLink, Submit, Send,
        ServeLoad, Loaded, LoadFails, Serve, CallFails, treeVars
<1> QED BY <1>1, SiteCorrect, PTL DEF Spec, OwnChangesShown

\* No reload of the page, no poll and no load of the tree closes what the
\* operator has open: its own key does, the answer to a form, or leaving.
THEOREM OpenOverReloads == Spec => OpenedStays
<1> DEFINE Stays == (Opened /\ ~Opened' /\ route' = route) =>
                      \/ Close
                      \/ \E c \in calls : SiteSaved(c) \/ HostAdded(c)
<1>1. SiteInvariant /\ [Next]_vars => [Stays]_vars
  <2> SUFFICES ASSUME SiteInvariant, [Next]_vars, Opened, ~Opened', route' = route, ~Close,
                      \A c \in calls : ~SiteSaved(c) /\ ~HostAdded(c)
               PROVE  FALSE
    OBVIOUS
  <2> USE DEF SiteInvariant
  <2>page. /\ page \in Page /\ route \in Sites /\ calls \in SUBSET Call
           /\ page.site = page.loaded /\ page.loaded = route
           /\ page.site # NoSite /\ page.mode # "view" /\ ~page.loading
    BY DEF TypeOK, Opened, HasSite, Settled
  <2>kept. ~(/\ page'.site = page.site /\ page'.loaded = page.loaded
             /\ page'.mode = page.mode /\ page'.loading = page.loading)
    BY <2>page DEF Opened, HasSite
  <2>rendered. ASSUME NEW p \in Page, NEW cs \in SUBSET Call, Distinct(cs), Render(route, p, cs)
               PROVE  ~(/\ p.site = page.site /\ p.loaded = page.loaded
                        /\ p.mode = page.mode /\ p.loading = page.loading)
    BY <2>page, <2>kept, <2>rendered, RenderKeeps DEF Routes
  <2>some. ASSUME NEW c \in calls PROVE calls \ {c} \in SUBSET Call /\ Distinct(calls \ {c})
    BY DEF TypeOK, Distinct
  <2>0. ~UNCHANGED page
    BY <2>kept
  <2>1. ASSUME NEW r \in Sites \cup {New}, Open(r) PROVE FALSE
    BY <2>1 DEF Open, Effect, Render
  <2>2. ASSUME NEW mode \in Mode PROVE ~OpenMode(mode)
    BY <2>page DEF OpenMode, View
  <2>3. ~Leave /\ \A c \in calls : ~Deleted(c)
    BY <2>page, RoutesDiffer DEF Leave, Deleted, Unmount
  <2>4. ASSUME NEW l \in load, Loaded(l) PROVE FALSE
    <3> DEFINE p == [page EXCEPT !.site = l.site, !.loaded = l.site, !.error = FALSE,
                                 !.loading = FALSE]
    <3>1. l.site = route
      BY DEF LoadsAreTheUrls
    <3>2. /\ p \in Page /\ p.site = page.site /\ p.loaded = page.loaded
          /\ p.mode = page.mode /\ p.loading = page.loading
      BY <2>page, <3>1 DEF Page
    <3>3. Render(route, p, calls)
      BY <2>4 DEF Loaded
    <3> HIDE DEF p
    <3> QED BY <2>page, <2>rendered, <3>2, <3>3
  <2>5. ASSUME NEW l \in load, LoadFails(l) PROVE FALSE
    <3> DEFINE p == [page EXCEPT !.error = TRUE, !.loading = FALSE]
    <3>1. /\ p \in Page /\ p.site = page.site /\ p.loaded = page.loaded
          /\ p.mode = page.mode /\ p.loading = page.loading
      BY <2>page DEF Page
    <3>2. Render(route, p, calls)
      BY <2>5 DEF LoadFails
    <3> HIDE DEF p
    <3> QED BY <2>page, <2>rendered, <3>1, <3>2
  <2>6. ASSUME NEW c \in calls, CallFails(c) PROVE FALSE
    <3> DEFINE p == [page EXCEPT !.error = page.error \/ (c.here /\ c.kind = "deleteSite")]
    <3>1. /\ p \in Page /\ p.site = page.site /\ p.loaded = page.loaded
          /\ p.mode = page.mode /\ p.loading = page.loading
      BY <2>page DEF Page, Call
    <3>2. Render(route, p, calls \ {c})
      BY <2>6 DEF CallFails
    <3> HIDE DEF p
    <3> QED BY <2>some, <2>rendered, <3>1, <3>2
  <2>7. ASSUME NEW c \in calls PROVE ~FoundAdded(c)
    BY <2>page, <2>some, <2>kept, BumpKeeps DEF FoundAdded
  <2> QED
    BY <2>0, <2>1, <2>2, <2>3, <2>4, <2>5, <2>6, <2>7
    DEF Next, ToggleSite, OthersWrite, OthersWriteSite, RefreshLink, Submit, Send, ServeLoad,
        Serve, vars
<1> QED BY <1>1, SiteCorrect, PTL DEF Spec, OpenedStays

-----------------------------------------------------------------------------
(* Networks *)

\* Division, for a divisor that is not known.
LEMMA Divided ==
  ASSUME NEW n \in Nat, NEW d \in Nat \ {0}
  PROVE  /\ n \div d \in Nat /\ n % d \in 0..(d - 1)
         /\ n = d * (n \div d) + (n % d)
OBVIOUS

\* A remainder is what is left of some multiple.
LEMMA Remainder ==
  ASSUME NEW d \in Nat \ {0}, NEW q \in Int, NEW r \in 0..(d - 1)
  PROVE  (d * q + r) % d = r
OBVIOUS

\* Multiples of one number are that number apart.
LEMMA Multiples ==
  ASSUME NEW d \in Nat \ {0}, NEW q \in Int, NEW p \in Int, d * q < d * p
  PROVE  d * q + d <= d * p
<1>1. q < p
  OBVIOUS
<1> QED BY <1>1

\* A network: it begins where its host bits are zero, and ends in the address space.
IsNetwork(p) ==
    /\ p \in [addr: Addr, bits: 0..Width]
    /\ p.addr % Size(p) = 0
    /\ p.addr + Size(p) <= 2^Width

\* Sizes are positive and divide the address space.
LEMMA SizeKeeps ==
  ASSUME NEW p, p.bits \in 0..Width
  PROVE  /\ Size(p) \in Nat \ {0} /\ 2^Width \in Nat \ {0}
         /\ 2^Width % Size(p) = 0
         /\ p.bits >= MinBits => Size(p) <= MaxHosts
         /\ p.bits <= Width - 2 => Size(p) >= 4
<1>1. Width \in 0..Width /\ Width - p.bits \in 0..Width /\ Width - MinBits \in 0..Width
  BY WidthAssumption
<1>2. /\ 2^(Width - p.bits) \in 1..(2^Width) /\ 2^Width % 2^(Width - p.bits) = 0
      /\ 2^Width \in 1..(2^Width)
  BY <1>1, PowersAssumption
<1>3. p.bits >= MinBits => 2^(Width - p.bits) \in 1..(2^(Width - MinBits))
  BY <1>1, WidthAssumption, PowersAssumption
<1>4. p.bits <= Width - 2 => 2^(Width - p.bits) >= 4
  <2>1. p.bits <= Width - 2 => 2 \in 0..Width /\ 2 <= Width - p.bits
    BY WidthAssumption
  <2>2. 2^2 = 4 /\ 2^Width \in Int
    BY <1>2, PowersAssumption
  <2>3. p.bits <= Width - 2 => 2^2 \in 1..(2^(Width - p.bits))
    BY <1>1, <2>1, PowersAssumption
  <2> QED BY <2>2, <2>3
<1> QED BY <1>2, <1>3, <1>4, LimitAssumption DEF Size

\* The limit is a number.
LEMMA LimitIsNat == MaxHosts \in Nat
<1>1. Width - MinBits \in 0..Width /\ Width \in 0..Width
  BY WidthAssumption
<1> QED BY <1>1, PowersAssumption, LimitAssumption

\* Masked keeps the address inside the network of that length.
LEMMA MaskedIsNetwork ==
  ASSUME NEW p \in [addr: Addr, bits: 0..Width]
  PROVE  IsNetwork(Masked(p)) /\ Masked(p).bits = p.bits
<1> DEFINE d == Size(p)
           W == 2^Width
           q == p.addr \div d
<1>1. d \in Nat \ {0} /\ W \in Nat \ {0} /\ W % d = 0
  BY SizeKeeps
<1>2. p.addr \in Nat /\ p.addr < W
  BY <1>1 DEF Addr
<1> HIDE DEF d, W
<1>3. /\ q \in Nat /\ p.addr % d \in 0..(d - 1) /\ p.addr = d * q + (p.addr % d)
      /\ W \div d \in Nat /\ W = d * (W \div d)
  <2>1. q \in Nat /\ p.addr % d \in 0..(d - 1) /\ p.addr = d * q + (p.addr % d)
    BY <1>1, <1>2, Divided
  <2>2. W \div d \in Nat /\ W = d * (W \div d) + 0
    BY <1>1, Divided
  <2>3. d * (W \div d) \in Nat
    BY <1>1, <2>2
  <2> QED BY <2>1, <2>2, <2>3
<1>4. p.addr - (p.addr % d) = d * q
  <2>1. d * q \in Int
    BY <1>1, <1>3
  <2> QED BY <1>2, <1>3, <2>1
<1> HIDE DEF q
<1>5. d * q \in Nat /\ d * q <= p.addr
  BY <1>1, <1>3
<1>6. d * q + d <= W
  <2>1. d * q < d * (W \div d)
    BY <1>2, <1>3, <1>5, <1>1
  <2> QED BY <1>1, <1>3, <2>1, Multiples
<1>7. (d * q) % d = 0
  <2>1. 0 \in 0..(d - 1) /\ d * q + 0 = d * q
    BY <1>1, <1>5
  <2> QED BY <1>1, <1>3, <2>1, Remainder
<1>8. Masked(p) = [addr |-> d * q, bits |-> p.bits]
  BY <1>4 DEF Masked, d
<1>9. Size(Masked(p)) = d
  BY <1>8 DEF Size, d
<1>10. d * q \in Addr
  BY <1>1, <1>2, <1>5 DEF Addr, W
<1> QED BY <1>6, <1>7, <1>8, <1>9, <1>10 DEF IsNetwork, W

\* The addresses of a network are those from its first on.
LEMMA NetworkIsInterval ==
  ASSUME NEW p, IsNetwork(p)
  PROVE  \A a \in Addr : a - (a % Size(p)) = p.addr
                           <=> a \in p.addr..(p.addr + Size(p) - 1)
<1> DEFINE d == Size(p)
           q == p.addr \div d
<1>1. d \in Nat \ {0} /\ 2^Width \in Nat
  BY SizeKeeps DEF IsNetwork
<1>2. p.addr \in Nat /\ p.addr % d = 0
  BY <1>1 DEF IsNetwork, Addr
<1> HIDE DEF d
<1>3. q \in Nat /\ p.addr = d * q
  <2>1. q \in Nat /\ p.addr = d * q + 0
    BY <1>1, <1>2, Divided
  <2>2. d * q \in Nat
    BY <1>1, <2>1
  <2> QED BY <2>1, <2>2
<1> SUFFICES ASSUME NEW a \in Addr
             PROVE  a - (a % d) = p.addr <=> a \in p.addr..(p.addr + d - 1)
  BY DEF d
<1>4. a \in Nat /\ a % d \in 0..(d - 1)
  BY <1>1, Divided DEF Addr
<1>5. a - (a % d) = p.addr => a \in p.addr..(p.addr + d - 1)
  BY <1>1, <1>2, <1>4
<1>6. ASSUME a \in p.addr..(p.addr + d - 1) PROVE a - (a % d) = p.addr
  <2> DEFINE r == a - p.addr
  <2>1. r \in 0..(d - 1) /\ a = p.addr + r
    BY <1>1, <1>2, <1>4, <1>6
  <2> HIDE DEF r, q
  <2>2. a % d = r
    BY <1>1, <1>3, <2>1, Remainder
  <2> QED BY <1>2, <1>4, <2>1, <2>2
<1> QED BY <1>5, <1>6

\* The addresses that are looked at are those a host can have, each once; there is
\* one at least, and there are no more than the limit, so that scanCIDR's own tests
\* of both find nothing.
LEMMA HostsAreUsable ==
  ASSUME IsNetwork(prefix), prefix.bits >= MinBits
  PROVE  /\ Hosts \in Seq(Addr) /\ Len(Hosts) \in 1..MaxHosts
         /\ \A i, j \in 1..Len(Hosts) : Hosts[i] = Hosts[j] => i = j
         /\ Usable = {Hosts[i] : i \in 1..Len(Hosts)}
<1> DEFINE d == Size(prefix)
           a == prefix.addr
           all == [i \in 1..d |-> a + i - 1]
<1>1. /\ d \in Nat \ {0} /\ d <= MaxHosts /\ 2^Width \in Nat /\ prefix.bits \in Int
      /\ prefix.bits <= Width - 2 => d >= 4
      /\ Width \in Int
  BY SizeKeeps, WidthAssumption DEF IsNetwork
<1>2. a \in Nat /\ a + d <= 2^Width
  BY <1>1 DEF IsNetwork, Addr
<1>3. {b \in Addr : b - (b % d) = a} = a..(a + d - 1)
  <2>1. a..(a + d - 1) \subseteq Addr
    BY <1>1, <1>2 DEF Addr
  <2> QED BY <2>1, NetworkIsInterval
<1>4. MaxHosts \in Nat
  BY LimitIsNat
<1>5. Hosts = IF prefix.bits <= Width - 2 THEN SubSeq(all, 2, Len(all) - 1) ELSE all
  BY <1>1, <1>4 DEF Hosts, ExpandHosts
<1>6. Usable = IF prefix.bits >= Width - 1 THEN a..(a + d - 1)
               ELSE (a..(a + d - 1)) \ {a, a + d - 1}
  BY <1>3 DEF Usable
<1> HIDE DEF d, a
<1>7. all \in Seq(Addr) /\ Len(all) = d
  <2>1. \A i \in 1..d : a + i - 1 \in Addr
    BY <1>1, <1>2 DEF Addr
  <2> QED BY <1>1, <2>1
<1>8. CASE prefix.bits <= Width - 2
  <2> DEFINE n == IF d >= 2 THEN d - 2 ELSE 0
             inner == [i \in 1..n |-> a + i]
  <2>1. Hosts = inner
    BY <1>1, <1>5, <1>7, <1>8
  <2>2. n \in 1..MaxHosts
    BY <1>1, <1>4, <1>8
  <2>3. \A i \in 1..n : a + i \in Addr
    BY <1>1, <1>2 DEF Addr
  <2>4. inner \in Seq(Addr) /\ Len(inner) = n
    BY <2>2, <2>3
  <2>5. \A i \in 1..n : inner[i] = a + i
    OBVIOUS
  <2>6. (a..(a + d - 1)) \ {a, a + d - 1} = {inner[i] : i \in 1..n}
    <3>1. \A b \in (a..(a + d - 1)) \ {a, a + d - 1} : b - a \in 1..n /\ inner[b - a] = b
      BY <1>1, <1>2
    <3>2. \A i \in 1..n : a + i \in (a..(a + d - 1)) \ {a, a + d - 1}
      BY <1>1, <1>2
    <3> HIDE DEF n, inner
    <3> QED BY <2>5, <3>1, <3>2
  <2>7. Usable = {inner[i] : i \in 1..n}
    BY <1>1, <1>6, <1>8, <2>6
  <2> HIDE DEF n, inner
  <2> QED BY <1>2, <2>1, <2>2, <2>4, <2>5, <2>7
<1>9. CASE ~(prefix.bits <= Width - 2)
  <2>1. Hosts = all
    BY <1>5, <1>9
  <2>2. \A i \in 1..d : all[i] = a + i - 1
    OBVIOUS
  <2>3. a..(a + d - 1) = {all[i] : i \in 1..d}
    <3>1. \A b \in a..(a + d - 1) : b - a + 1 \in 1..d /\ all[b - a + 1] = b
      BY <1>1, <1>2
    <3>2. \A i \in 1..d : a + i - 1 \in a..(a + d - 1)
      BY <1>1, <1>2
    <3> HIDE DEF all
    <3> QED BY <2>2, <3>1, <3>2
  <2> HIDE DEF all
  <2>4. Usable = a..(a + d - 1)
    BY <1>1, <1>6, <1>9
  <2>5. Hosts \in Seq(Addr) /\ Len(Hosts) = d /\ d \in 1..MaxHosts
    BY <1>1, <1>4, <1>7, <2>1
  <2>6. \A i, j \in 1..d : all[i] = all[j] => i = j
    BY <1>1, <1>2, <2>2
  <2> QED BY <2>1, <2>3, <2>4, <2>5, <2>6
<1> QED BY <1>8, <1>9

-----------------------------------------------------------------------------
(* Candidates *)

\* No address twice.
Once(cs) == \A i, j \in 1..Len(cs) : cs[i].ip = cs[j].ip => i = j

\* Sorting loses nothing, repeats nothing, and orders by the addresses' text:
\* the places of the candidates are a bijection, since no two of them share an
\* address, and so no two a rank.
LEMMA SortedIsSorted ==
  ASSUME NEW cs \in Seq(Candidate), Once(cs)
  PROVE  /\ Sorted(cs) \in Seq(Candidate) /\ Len(Sorted(cs)) = Len(cs)
         /\ \A k \in 1..Len(cs) : \E i \in 1..Len(cs) : Sorted(cs)[k] = cs[i]
         /\ \A i \in 1..Len(cs) : \E k \in 1..Len(cs) : Sorted(cs)[k] = cs[i]
         /\ \A k, l \in 1..Len(cs) :
              k < l => Rank[Sorted(cs)[k].ip] < Rank[Sorted(cs)[l].ip]
<1> DEFINE n == Len(cs)
           rank == [i \in 1..n |-> Rank[cs[i].ip]]
           below == [i \in 1..n |-> {j \in 1..n : rank[j] <= rank[i]}]
           place == [i \in 1..n |-> Place(cs, i)]
           which == [k \in 1..n |-> CHOOSE i \in 1..n : Place(cs, i) = k]
<1>1. /\ n \in Nat /\ DOMAIN cs = 1..n
      /\ \A i \in 1..n : cs[i] \in Candidate
  OBVIOUS
<1>2. /\ rank \in [1..n -> Nat]
      /\ \A i, j \in 1..n : rank[i] = rank[j] => i = j
  BY <1>1, RankAssumption DEF Candidate, Addr, Once
<1>3. IsFiniteSet(1..n) /\ Cardinality(1..n) = n
  <2>1. n \in Int /\ 1 \in Int /\ (IF 1 > n THEN 0 ELSE n - 1 + 1) = n
    BY <1>1
  <2> HIDE DEF n
  <2> QED BY <2>1, FS_Interval
<1>placed. \A i \in 1..n : Place(cs, i) = Cardinality(below[i])
  BY <1>1 DEF Place
<1>below. \A i \in 1..n : below[i] = {j \in 1..n : rank[j] <= rank[i]}
  OBVIOUS
<1>which. /\ \A i \in 1..n : place[i] = Place(cs, i)
          /\ \A k \in 1..n : which[k] = CHOOSE i \in 1..n : Place(cs, i) = k
          /\ DOMAIN place = 1..n /\ place = [i \in 1..n |-> place[i]]
  OBVIOUS
<1>sorted. Sorted(cs) = [k \in 1..n |-> cs[which[k]]]
  BY <1>1 DEF Sorted
<1>rank. \A i \in 1..n : rank[i] = Rank[cs[i].ip]
  OBVIOUS
<1> HIDE DEF n, rank, below, place, which
<1>4. ASSUME NEW i \in 1..n
      PROVE  IsFiniteSet(below[i]) /\ Cardinality(below[i]) \in 1..n
  <2>1. below[i] \in SUBSET (1..n) /\ i \in below[i]
    BY <1>2, <1>below
  <2>2. /\ IsFiniteSet(below[i]) /\ Cardinality(below[i]) <= n
        /\ Cardinality(below[i]) \in Nat
    BY <1>3, <2>1, FS_Subset, FS_CardinalityType
  <2>3. Cardinality(below[i]) # 0
    BY <2>1, <2>2, FS_EmptySet
  <2> QED BY <1>1, <2>2, <2>3
<1>5. ASSUME NEW i \in 1..n, NEW j \in 1..n, rank[i] < rank[j]
      PROVE  place[i] < place[j]
  <2>1. below[i] \in SUBSET below[j] /\ below[i] # below[j]
    BY <1>2, <1>5, <1>below
  <2>2. Cardinality(below[i]) <= Cardinality(below[j])
        /\ Cardinality(below[i]) # Cardinality(below[j])
    BY <1>4, <2>1, FS_Subset
  <2>3. Cardinality(below[i]) \in Int /\ Cardinality(below[j]) \in Int
    BY <1>1, <1>4
  <2> QED BY <1>placed, <1>which, <2>2, <2>3
<1>6. place \in [1..n -> 1..n]
  BY <1>4, <1>placed, <1>which
<1>7. \A i, j \in 1..n : place[i] = place[j] => i = j
  <2> SUFFICES ASSUME NEW i \in 1..n, NEW j \in 1..n, i # j PROVE place[i] # place[j]
    OBVIOUS
  <2>1. rank[i] < rank[j] \/ rank[j] < rank[i]
    BY <1>2
  <2> QED BY <1>1, <1>5, <1>6, <2>1
<1>8. place \in Surjection(1..n, 1..n)
  <2>1. place \in Injection(1..n, 1..n)
    BY <1>6, <1>7 DEF Injection, IsInjective
  <2> QED BY <1>3, <2>1, FS_Injection
<1>9. \A k \in 1..n : \E i \in 1..n : place[i] = k
  BY <1>8 DEF Surjection
<1>10. \A k \in 1..n : which[k] \in 1..n /\ place[which[k]] = k
  BY <1>9, <1>which
<1>11. Sorted(cs) \in Seq(Candidate) /\ Len(Sorted(cs)) = n
  BY <1>1, <1>10, <1>sorted
<1>12. \A i \in 1..n : which[place[i]] = i
  BY <1>6, <1>7, <1>10
<1>13. ASSUME NEW k \in 1..n, NEW l \in 1..n, k < l
       PROVE  rank[which[k]] < rank[which[l]]
  <2>1. which[k] \in 1..n /\ which[l] \in 1..n /\ place[which[k]] = k /\ place[which[l]] = l
    BY <1>10
  <2>2. which[k] # which[l]
    BY <1>13, <2>1
  <2>3. ~(rank[which[l]] < rank[which[k]])
    <3>1. rank[which[l]] < rank[which[k]] => place[which[l]] < place[which[k]]
      BY <1>5, <2>1
    <3> QED BY <1>13, <2>1, <3>1
  <2> QED BY <1>2, <2>1, <2>2, <2>3
<1>14. \A k \in 1..n : Sorted(cs)[k] = cs[which[k]]
  BY <1>sorted
<1>15. \A k, l \in 1..n : k < l => Rank[Sorted(cs)[k].ip] < Rank[Sorted(cs)[l].ip]
  BY <1>10, <1>13, <1>14, <1>rank
<1>16. \A k \in 1..n : \E i \in 1..n : Sorted(cs)[k] = cs[i]
  BY <1>10, <1>14
<1>17. \A i \in 1..n : \E k \in 1..n : Sorted(cs)[k] = cs[i]
  BY <1>6, <1>12, <1>14
<1> QED BY <1>11, <1>15, <1>16, <1>17 DEF n

-----------------------------------------------------------------------------
(* The invariant of the pool *)

\* A scan that was let through, at any stage.
Admitted == main.st \in {"send", "wait", "returned"}

\* A worker that has an address.
Busy(w) == worker[w].st \in {"ping", "tcp", "append"}

\* The places in Hosts of what the handler has still to send.
Unsent == IF main.st = "send" THEN (main.sent + 1)..Len(Hosts) ELSE {}

\* What the handler is about fits the channel and the network.
PoolShape ==
    /\ PoolTypeOK
    /\ IsNetwork(prefix)
    /\ Admitted => prefix.bits >= MinBits
    /\ main.cut => expired
    /\ main.st = "send" => ~jobs.closed
    /\ main.st \in {"wait", "returned"} => jobs.closed

\* A worker leaves at the deadline or when nothing more can come, and without a
\* scan there is none that could take a step.
WorkersEnd ==
    /\ \A w \in Workers :
         worker[w].st = "done" => expired \/ (jobs.closed /\ jobs.queue = <<>>)
    /\ main.st = "returned" => \A w \in Workers : worker[w].st = "done"
    /\ main.st \in {"none", "refused"} =>
         \A w \in Workers :
            \/ worker[w].st = "done"
            \/ worker[w].st = "recv" /\ jobs.queue = <<>> /\ ~jobs.closed

\* Whatever is queued, probed or reported is of the network.
InNetwork ==
    /\ \A i \in 1..Len(jobs.queue) : jobs.queue[i] \in Usable
    /\ \A w \in Workers : Busy(w) => worker[w].ip \in Usable
    /\ \A i \in 1..Len(out) : out[i].ip \in Usable

\* An address is in one place: still to be sent, queued, with one worker, or
\* reported.
Apart ==
    /\ \A i, j \in 1..Len(jobs.queue) : jobs.queue[i] = jobs.queue[j] => i = j
    /\ \A v, w \in Workers : Busy(v) /\ Busy(w) /\ worker[v].ip = worker[w].ip => v = w
    /\ Once(out)
    /\ \A i \in 1..Len(jobs.queue) :
         /\ \A w \in Workers : Busy(w) => jobs.queue[i] # worker[w].ip
         /\ \A k \in 1..Len(out) : jobs.queue[i] # out[k].ip
         /\ \A u \in Unsent : jobs.queue[i] # Hosts[u]
    /\ \A w \in Workers : Busy(w) =>
         /\ \A k \in 1..Len(out) : worker[w].ip # out[k].ip
         /\ \A u \in Unsent : worker[w].ip # Hosts[u]
    /\ \A k \in 1..Len(out), u \in Unsent : out[k].ip # Hosts[u]

\* What is told of an address is what it answers, all of it before the deadline.
Truth ==
    /\ \A w \in Workers :
         /\ worker[w].st = "tcp" =>
              /\ worker[w].methods \subseteq network[worker[w].ip]
              /\ ~expired => worker[w].methods = network[worker[w].ip] \cap {"icmp"}
         /\ worker[w].st = "append" =>
              /\ worker[w].methods # {} /\ worker[w].methods \subseteq network[worker[w].ip]
              /\ ~expired => worker[w].methods = network[worker[w].ip]
    /\ \A i \in 1..Len(out) :
         /\ out[i].methods # {} /\ out[i].methods \subseteq network[out[i].ip]
         /\ ~expired => out[i].methods = network[out[i].ip]

\* Before the deadline no address that answers is lost on its way.
NothingLost ==
    (Admitted /\ ~expired) =>
        \A a \in Usable :
            \/ network[a] = {}
            \/ \E u \in Unsent : Hosts[u] = a
            \/ \E i \in 1..Len(jobs.queue) : jobs.queue[i] = a
            \/ \E w \in Workers : Busy(w) /\ worker[w].ip = a
            \/ \E i \in 1..Len(out) : out[i].ip = a

\* The answer to a full scan is sorted.
InOrder ==
    (main.st = "returned" /\ ~expired) =>
        \A i, j \in 1..Len(out) : i < j => Rank[out[i].ip] < Rank[out[j].ip]

PoolInvariant ==
    PoolShape /\ WorkersEnd /\ InNetwork /\ Apart /\ Truth /\ NothingLost /\ InOrder


-----------------------------------------------------------------------------
(* The steps of the pool *)

\* As long as the request is the same, so is what it is about.
LEMMA SameNetwork ==
  prefix' = prefix => /\ Hosts' = Hosts /\ Usable' = Usable
                      /\ IsNetwork(prefix)' = IsNetwork(prefix)
BY DEF Hosts, Usable, IsNetwork

\* What the invariant says of the addresses of a scan that was let through.
LEMMA AdmittedHosts ==
  ASSUME PoolShape, Admitted
  PROVE  /\ Hosts \in Seq(Addr) /\ Len(Hosts) \in 0..MaxHosts
         /\ \A i, j \in 1..Len(Hosts) : Hosts[i] = Hosts[j] => i = j
         /\ Usable = {Hosts[i] : i \in 1..Len(Hosts)}
BY HostsAreUsable, LimitIsNat DEF PoolShape

\* The queue, at its ends.
LEMMA QueueEnds ==
  ASSUME NEW q \in Seq(Addr), NEW a \in Addr
  PROVE  /\ Append(q, a) \in Seq(Addr) /\ Len(Append(q, a)) = Len(q) + 1
         /\ \A i \in 1..Len(q) : Append(q, a)[i] = q[i]
         /\ Append(q, a)[Len(q) + 1] = a
         /\ q # <<>> => /\ Len(q) \in Nat \ {0} /\ Head(q) = q[1] /\ Head(q) \in Addr
                        /\ Tail(q) \in Seq(Addr) /\ Len(Tail(q)) = Len(q) - 1
                        /\ \A i \in 1..(Len(q) - 1) : Tail(q)[i] = q[i + 1]
OBVIOUS

\* The handler sends the next address.
LEMMA SendKeeps == PoolInvariant /\ SendJob => PoolInvariant'
<1> SUFFICES ASSUME PoolInvariant, SendJob PROVE PoolInvariant'
  OBVIOUS
<1> USE DEF PoolInvariant
<1> DEFINE q == jobs.queue
           n == Len(q)
           s == main.sent
           a == Hosts[s + 1]
<1>types. /\ main \in MainState /\ jobs \in Jobs /\ MaxHosts \in Nat
  BY LimitIsNat DEF PoolShape, PoolTypeOK
<1>1. /\ q \in Seq(Addr) /\ n \in Nat /\ s \in 0..MaxHosts /\ jobs.closed \in BOOLEAN
  BY <1>types DEF MainState, Jobs
<1>2. /\ main.st = "send" /\ s < Len(Hosts) /\ n < Buffer
      /\ jobs' = [jobs EXCEPT !.queue = Append(q, a)] /\ main' = [main EXCEPT !.sent = s + 1]
      /\ UNCHANGED <<prefix, network, expired, worker, out>>
  BY DEF SendJob
<1>3. /\ Len(Hosts) \in 0..MaxHosts /\ s + 1 \in 1..Len(Hosts) /\ a \in Usable /\ a \in Addr
      /\ \A i, j \in 1..Len(Hosts) : Hosts[i] = Hosts[j] => i = j
  BY <1>1, <1>2, AdmittedHosts DEF Admitted
<1>4. /\ jobs'.queue = Append(q, a) /\ jobs'.closed = jobs.closed
      /\ jobs' \in Jobs
  <2>1. Append(q, a) \in Seq(Addr)
    BY <1>1, <1>3, QueueEnds
  <2> HIDE DEF a
  <2> QED BY <1>types, <1>2, <2>1 DEF Jobs
<1>5. /\ main'.st = "send" /\ main'.sent = s + 1 /\ main'.cut = main.cut
      /\ main' \in MainState
  <2>1. s + 1 \in 0..MaxHosts
    BY <1>types, <1>1, <1>3
  <2> QED BY <1>types, <1>2, <2>1 DEF MainState
<1>6. Hosts' = Hosts /\ Usable' = Usable /\ IsNetwork(prefix)'
  BY <1>2, SameNetwork DEF PoolShape
<1>7. /\ Len(jobs'.queue) = n + 1
      /\ \A i \in 1..n : jobs'.queue[i] = q[i]
      /\ jobs'.queue[n + 1] = a
  BY <1>1, <1>3, <1>4, QueueEnds
<1>8. Unsent = (s + 1)..Len(Hosts) /\ Unsent' = (s + 2)..Len(Hosts)
  BY <1>1, <1>2, <1>3, <1>5, <1>6 DEF Unsent
<1> HIDE DEF q, n, s, a
<1>9. s + 1 \in Unsent /\ Unsent' \subseteq Unsent /\ s + 1 \notin Unsent'
  BY <1>1, <1>3, <1>8
<1>10. PoolShape'
  BY <1>1, <1>2, <1>4, <1>5, <1>6, <1>7, PoolAssumption DEF PoolShape, PoolTypeOK, Admitted, n
<1>11. WorkersEnd'
  BY <1>1, <1>2, <1>4, <1>5 DEF WorkersEnd, PoolShape
<1>12. InNetwork'
  BY <1>1, <1>2, <1>3, <1>6, <1>7 DEF InNetwork, Busy, q, n
<1>13. Apart'
  <2>1. \A i \in 1..n : /\ q[i] # a /\ \A u \in Unsent : q[i] # Hosts[u]
                        /\ \A w \in Workers : Busy(w) => q[i] # worker[w].ip
                        /\ \A k \in 1..Len(out) : q[i] # out[k].ip
    BY <1>9 DEF Apart, q, n, a
  <2>2. /\ \A w \in Workers : Busy(w) => a # worker[w].ip
        /\ \A k \in 1..Len(out) : a # out[k].ip
        /\ \A u \in Unsent' : a # Hosts[u]
    BY <1>1, <1>3, <1>8, <1>9 DEF Apart, a
  <2>3. \A i \in 1..(n + 1) : i \in 1..n \/ i = n + 1
    BY <1>1
  <2>4. \A i, j \in 1..(n + 1) : jobs'.queue[i] = jobs'.queue[j] => i = j
    BY <1>7, <2>1, <2>3 DEF Apart, q, n
  <2>5. \A i \in 1..(n + 1) :
          /\ \A w \in Workers : Busy(w)' => jobs'.queue[i] # worker'[w].ip
          /\ \A k \in 1..Len(out') : jobs'.queue[i] # out'[k].ip
          /\ \A u \in Unsent' : jobs'.queue[i] # Hosts'[u]
    BY <1>2, <1>6, <1>7, <1>9, <2>1, <2>2, <2>3 DEF Busy
  <2> QED BY <1>2, <1>6, <1>7, <1>9, <2>4, <2>5 DEF Apart, Busy
<1>14. Truth'
  BY <1>2 DEF Truth
<1>15. NothingLost'
  <2>1. \A i \in 1..n : i \in 1..(n + 1)
    BY <1>1
  <2>2. \A u \in Unsent : u \in Unsent' \/ u = s + 1
    BY <1>1, <1>3, <1>8
  <2>3. n + 1 \in 1..(n + 1)
    BY <1>1
  <2> QED BY <1>2, <1>5, <1>6, <1>7, <2>1, <2>2, <2>3 DEF NothingLost, Admitted, Busy, q, n, a
<1>16. InOrder'
  BY <1>5 DEF InOrder
<1> QED BY <1>10, <1>11, <1>12, <1>13, <1>14, <1>15, <1>16

\* The deadline: less is asked of what is found, and workers may leave.
LEMMA ExpireKeeps == PoolInvariant /\ Expire => PoolInvariant'
<1> SUFFICES ASSUME PoolInvariant, Expire PROVE PoolInvariant'
  OBVIOUS
<1> USE DEF PoolInvariant
<1>1. /\ expired' = TRUE /\ UNCHANGED <<prefix, network, main, jobs, worker, out>>
  BY DEF Expire
<1>2. Hosts' = Hosts /\ Usable' = Usable /\ IsNetwork(prefix)' /\ Unsent' = Unsent
  BY <1>1, SameNetwork DEF PoolShape, Unsent
<1>3. PoolShape'
  BY <1>1, <1>2 DEF PoolShape, PoolTypeOK, Admitted
<1>4. WorkersEnd'
  BY <1>1 DEF WorkersEnd
<1>5. InNetwork' /\ Apart'
  BY <1>1, <1>2 DEF InNetwork, Apart, Busy
<1>6. Truth'
  BY <1>1 DEF Truth
<1> QED BY <1>1, <1>3, <1>4, <1>5, <1>6 DEF NothingLost, InOrder

\* The channel is closed, at the deadline or after the last address.
LEMMA CloseKeeps == PoolInvariant /\ (Cut \/ AllSent) => PoolInvariant'
<1> SUFFICES ASSUME PoolInvariant, Cut \/ AllSent PROVE PoolInvariant'
  OBVIOUS
<1> USE DEF PoolInvariant
<1>types. main \in MainState /\ jobs \in Jobs
  BY DEF PoolShape, PoolTypeOK
<1>1. /\ main.st = "send" /\ UNCHANGED <<prefix, network, expired, worker, out>>
      /\ jobs' = [jobs EXCEPT !.closed = TRUE]
      /\ main' \in MainState /\ main'.st = "wait"
      /\ main'.cut => expired
      /\ main.sent = Len(Hosts) \/ expired
  BY <1>types DEF Cut, AllSent, MainState, PoolShape
<1>2. jobs' \in Jobs /\ jobs'.queue = jobs.queue /\ jobs'.closed
  BY <1>types, <1>1 DEF Jobs
<1>3. Hosts' = Hosts /\ Usable' = Usable /\ IsNetwork(prefix)'
  BY <1>1, SameNetwork DEF PoolShape
<1>4. Unsent' = {}
  BY <1>1 DEF Unsent
<1>5. expired \/ Unsent = {}
  <2>1. CASE main.sent = Len(Hosts)
    BY <1>types, <2>1, LimitIsNat DEF Unsent, MainState
  <2> QED BY <1>1, <2>1
<1>6. PoolShape'
  BY <1>1, <1>2, <1>3 DEF PoolShape, PoolTypeOK, Admitted
<1>7. WorkersEnd'
  BY <1>1, <1>2 DEF WorkersEnd
<1>8. InNetwork'
  BY <1>1, <1>2, <1>3 DEF InNetwork, Busy
<1>9. Apart'
  BY <1>1, <1>2, <1>3, <1>4 DEF Apart, Busy
<1>10. Truth'
  BY <1>1 DEF Truth
<1>11. NothingLost'
  BY <1>1, <1>2, <1>3, <1>5 DEF NothingLost, Admitted, Busy
<1> QED BY <1>1, <1>6, <1>7, <1>8, <1>9, <1>10, <1>11 DEF InOrder

\* The answer: no worker is left, so before the deadline nothing is left in the
\* channel either; what was found is put in order.
LEMMA ReturnKeeps == PoolInvariant /\ Return => PoolInvariant'
<1> SUFFICES ASSUME PoolInvariant, Return PROVE PoolInvariant'
  OBVIOUS
<1> USE DEF PoolInvariant
<1>types. main \in MainState /\ out \in Seq(Candidate)
  BY DEF PoolShape, PoolTypeOK
<1>1. /\ main.st = "wait" /\ UNCHANGED <<prefix, network, expired, worker, jobs>>
      /\ \A w \in Workers : worker[w].st = "done"
      /\ main' \in MainState /\ main'.st = "returned" /\ main'.cut = main.cut
  BY <1>types DEF Return, MainState
<1>2. /\ out' \in Seq(Candidate) /\ Len(out') = Len(out)
      /\ \A k \in 1..Len(out) : \E i \in 1..Len(out) : out'[k] = out[i]
      /\ \A i \in 1..Len(out) : \E k \in 1..Len(out) : out'[k] = out[i]
      /\ ~main.cut => \A k, l \in 1..Len(out) : k < l => Rank[out'[k].ip] < Rank[out'[l].ip]
      /\ Once(out')
  <2>1. CASE main.cut
    <3>1. out' = out
      BY <2>1 DEF Return
    <3> QED BY <1>types, <2>1, <3>1 DEF Apart
  <2>2. CASE ~main.cut
    <3>1. out' = Sorted(out) /\ Once(out)
      BY <2>2 DEF Return, Apart
    <3>2. /\ out' \in Seq(Candidate) /\ Len(out') = Len(out)
          /\ \A k \in 1..Len(out) : \E i \in 1..Len(out) : out'[k] = out[i]
          /\ \A i \in 1..Len(out) : \E k \in 1..Len(out) : out'[k] = out[i]
          /\ \A k, l \in 1..Len(out) : k < l => Rank[out'[k].ip] < Rank[out'[l].ip]
      BY <1>types, <3>1, SortedIsSorted
    <3>3. \A k \in 1..Len(out) : Rank[out'[k].ip] \in Nat
      <4> SUFFICES ASSUME NEW k \in 1..Len(out) PROVE Rank[out'[k].ip] \in Nat
        OBVIOUS
      <4>1. out'[k] \in Candidate
        BY <3>2
      <4>2. out'[k].ip \in Addr
        BY <4>1 DEF Candidate
      <4> QED BY <4>2, RankAssumption DEF Addr
    <3>4. ASSUME NEW k \in 1..Len(out), NEW l \in 1..Len(out), k # l
          PROVE  out'[k].ip # out'[l].ip
      <4>1. k < l \/ l < k
        BY <1>types, <3>4
      <4>2. Rank[out'[k].ip] \in Nat /\ Rank[out'[l].ip] \in Nat
        BY <3>3
      <4>3. Rank[out'[k].ip] < Rank[out'[l].ip] \/ Rank[out'[l].ip] < Rank[out'[k].ip]
        BY <3>2, <4>1
      <4> QED BY <4>2, <4>3
    <3>5. Once(out')
      BY <3>2, <3>4 DEF Once
    <3> QED BY <3>2, <3>5
  <2> QED BY <2>1, <2>2
<1>3. Hosts' = Hosts /\ Usable' = Usable /\ IsNetwork(prefix)' /\ Unsent' = {}
  BY <1>1, SameNetwork DEF PoolShape, Unsent
<1>4. \A w \in Workers : ~Busy(w) /\ ~Busy(w)'
  BY <1>1 DEF Busy
<1>5. ~expired => jobs.queue = <<>> /\ ~main.cut
  BY <1>1, PoolAssumption DEF WorkersEnd, PoolShape
<1>6. PoolShape'
  BY <1>1, <1>2, <1>3 DEF PoolShape, PoolTypeOK, Admitted
<1>7. WorkersEnd'
  BY <1>1 DEF WorkersEnd
<1>8. InNetwork'
  BY <1>1, <1>2, <1>3, <1>4 DEF InNetwork
<1>9. Apart'
  <2>1. ASSUME NEW i \in 1..Len(jobs.queue), NEW k \in 1..Len(out)
        PROVE  jobs.queue[i] # out'[k].ip
    <3>1. PICK j \in 1..Len(out) : out'[k] = out[j]
      BY <1>2
    <3>2. jobs.queue[i] # out[j].ip
      BY DEF Apart
    <3> QED BY <3>1, <3>2
  <2> QED BY <1>1, <1>2, <1>3, <1>4, <2>1 DEF Apart
<1>10. Truth'
  <2>1. ASSUME NEW k \in 1..Len(out)
        PROVE  /\ out'[k].methods # {} /\ out'[k].methods \subseteq network[out'[k].ip]
               /\ ~expired => out'[k].methods = network[out'[k].ip]
    <3>1. PICK j \in 1..Len(out) : out'[k] = out[j]
      BY <1>2
    <3> QED BY <3>1 DEF Truth
  <2> QED BY <1>1, <1>2, <2>1 DEF Truth
<1>11. NothingLost'
  <2> SUFFICES ASSUME ~expired, NEW a \in Usable, network[a] # {}
               PROVE  \E k \in 1..Len(out) : out'[k].ip = a
    BY <1>1, <1>2, <1>3 DEF NothingLost
  <2>1. \E i \in 1..Len(out) : out[i].ip = a
    BY <1>1, <1>4, <1>5 DEF NothingLost, Admitted, Unsent
  <2> QED BY <1>2, <2>1
<1>12. InOrder'
  BY <1>1, <1>2, <1>5 DEF InOrder
<1> QED BY <1>6, <1>7, <1>8, <1>9, <1>10, <1>11, <1>12

\* A step of one worker leaves the others where they are.
LEMMA OneWorker ==
  ASSUME worker \in [Workers -> WorkerState], NEW w \in Workers, NEW s \in WorkerState,
         SetWorker(w, s)
  PROVE  /\ worker' \in [Workers -> WorkerState] /\ worker'[w] = s
         /\ \A v \in Workers : v # w => worker'[v] = worker[v]
BY DEF SetWorker

\* A worker takes the address at the head of the queue, or drops it after the
\* deadline.  There is a scan, since something is queued and not all are done.
LEMMA TakeKeeps ==
  ASSUME PoolInvariant, NEW w \in Workers, Take(w)
  PROVE  PoolInvariant'
<1> USE DEF PoolInvariant
<1> DEFINE q == jobs.queue
           n == Len(q)
           s == [IdleWorker EXCEPT !.st = IF expired THEN "done" ELSE "ping",
                                   !.ip = IF expired THEN NoAddr ELSE Head(q)]
<1>types. /\ main \in MainState /\ jobs \in Jobs /\ q \in Seq(Addr) /\ n \in Nat
          /\ worker \in [Workers -> WorkerState]
  BY DEF PoolShape, PoolTypeOK, Jobs
<1>1. /\ worker[w].st = "recv" /\ q # <<>> /\ jobs' = [jobs EXCEPT !.queue = Tail(q)]
      /\ SetWorker(w, s) /\ UNCHANGED <<prefix, network, expired, main, out>>
  BY DEF Take
<1>2. /\ n \in Nat \ {0} /\ Head(q) = q[1] /\ Head(q) \in Addr /\ Tail(q) \in Seq(Addr)
      /\ Len(Tail(q)) = n - 1
      /\ \A i \in 1..(n - 1) : Tail(q)[i] = q[i + 1] /\ i + 1 \in 1..n /\ i + 1 # 1
  BY <1>types, <1>1, QueueEnds
<1>3. jobs' \in Jobs /\ jobs'.queue = Tail(q) /\ jobs'.closed = jobs.closed
  BY <1>types, <1>1, <1>2 DEF Jobs
<1>4. /\ s \in WorkerState
      /\ expired => s.st = "done"
      /\ ~expired => s.st = "ping" /\ s.ip = q[1]
  BY <1>2 DEF IdleWorker, WorkerState
<1> HIDE DEF s
<1>5. /\ worker' \in [Workers -> WorkerState] /\ worker'[w] = s
      /\ \A v \in Workers : v # w => worker'[v] = worker[v]
  BY <1>types, <1>1, <1>4, OneWorker
<1>6. /\ \A v \in Workers : v # w => (Busy(v)' <=> Busy(v))
      /\ ~Busy(w) /\ (Busy(w)' => ~expired /\ worker'[w].ip = q[1])
  BY <1>1, <1>4, <1>5 DEF Busy
<1>7. Hosts' = Hosts /\ Usable' = Usable /\ IsNetwork(prefix)' /\ Unsent' = Unsent
  BY <1>1, SameNetwork DEF PoolShape, Unsent
<1> HIDE DEF q, n
<1>8. /\ \A i \in 1..(n - 1) : jobs'.queue[i] = q[i + 1] /\ i + 1 \in 1..n /\ i + 1 # 1
      /\ Len(jobs'.queue) = n - 1 /\ 1 \in 1..n
  BY <1>2, <1>3
<1>9. PoolShape'
  BY <1>1, <1>2, <1>3, <1>5, <1>7, <1>8, PoolAssumption
  DEF PoolShape, PoolTypeOK, Admitted, q, n
<1>10. main.st \in {"send", "wait"}
  BY <1>types, <1>1 DEF WorkersEnd, MainState, q
<1>11. WorkersEnd'
  <2>1. ASSUME NEW v \in Workers, worker'[v].st = "done" PROVE expired
    BY <1>1, <1>4, <1>5, <2>1 DEF WorkersEnd, q
  <2> QED BY <1>1, <1>10, <2>1 DEF WorkersEnd
<1>12. InNetwork'
  <2>1. \A i \in 1..n : q[i] \in Usable
    BY DEF InNetwork, q, n
  <2> QED BY <1>1, <1>5, <1>6, <1>7, <1>8, <2>1 DEF InNetwork
<1>13. Apart'
  <2>1. \A i \in 1..n : /\ \A j \in 1..n : q[i] = q[j] => i = j
                        /\ \A v \in Workers : Busy(v) => q[i] # worker[v].ip
                        /\ \A k \in 1..Len(out) : q[i] # out[k].ip
                        /\ \A u \in Unsent : q[i] # Hosts[u]
    BY DEF Apart, q, n
  <2>2. \A i \in 1..(n - 1) : q[i + 1] # q[1]
    BY <1>8, <2>1
  <2>3. \A i, j \in 1..(n - 1) : jobs'.queue[i] = jobs'.queue[j] => i = j
    <3>1. \A i, j \in 1..(n - 1) : i + 1 = j + 1 => i = j
      OBVIOUS
    <3> QED BY <1>8, <2>1, <3>1
  <2>4. ASSUME NEW v \in Workers, Busy(v)'
        PROVE  /\ \A u \in Workers : Busy(u)' /\ worker'[u].ip = worker'[v].ip => u = v
               /\ \A i \in 1..(n - 1) : jobs'.queue[i] # worker'[v].ip
               /\ \A k \in 1..Len(out) : worker'[v].ip # out[k].ip
               /\ \A u \in Unsent : worker'[v].ip # Hosts[u]
    <3>1. CASE v = w
      <4>1. worker'[v].ip = q[1]
        BY <1>6, <2>4, <3>1
      <4>2. \A u \in Workers : Busy(u)' /\ u # w => worker'[u].ip # q[1]
        BY <1>5, <1>6, <1>8, <2>1
      <4> QED BY <1>8, <2>1, <2>2, <3>1, <4>1, <4>2
    <3>2. CASE v # w
      <4>1. worker'[v] = worker[v] /\ Busy(v)
        BY <1>5, <1>6, <2>4, <3>2
      <4>2. Busy(w)' => worker'[w].ip # worker[v].ip
        BY <1>6, <1>8, <2>1, <4>1
      <4>3. \A u \in Workers : Busy(u)' /\ worker'[u].ip = worker'[v].ip => u = v
        BY <1>5, <1>6, <4>1, <4>2 DEF Apart
      <4>4. \A i \in 1..(n - 1) : jobs'.queue[i] # worker'[v].ip
        BY <1>8, <2>1, <4>1
      <4> QED BY <4>1, <4>3, <4>4 DEF Apart
    <3> QED BY <3>1, <3>2
  <2>5. \A i \in 1..(n - 1) : /\ \A k \in 1..Len(out) : jobs'.queue[i] # out[k].ip
                              /\ \A u \in Unsent : jobs'.queue[i] # Hosts[u]
    BY <1>8, <2>1
  <2> QED BY <1>1, <1>7, <1>8, <2>3, <2>4, <2>5 DEF Apart
<1>14. Truth'
  BY <1>1, <1>4, <1>5 DEF Truth
<1>15. NothingLost'
  <2> SUFFICES ASSUME ~expired, NEW a \in Usable, network[a] # {},
                      ~ \E u \in Unsent : Hosts[u] = a,
                      ~ \E i \in 1..Len(out) : out[i].ip = a
               PROVE  \/ \E i \in 1..(n - 1) : jobs'.queue[i] = a
                      \/ \E v \in Workers : Busy(v)' /\ worker'[v].ip = a
    BY <1>1, <1>7, <1>8 DEF NothingLost
  <2>1. (\E i \in 1..n : q[i] = a) \/ (\E v \in Workers : Busy(v) /\ worker[v].ip = a)
    BY <1>10 DEF NothingLost, Admitted, q, n
  <2>2. CASE \E v \in Workers : Busy(v) /\ worker[v].ip = a
    BY <1>5, <1>6, <2>2
  <2>3. ASSUME NEW i \in 1..n, q[i] = a
        PROVE  \/ \E j \in 1..(n - 1) : jobs'.queue[j] = a
               \/ \E v \in Workers : Busy(v)' /\ worker'[v].ip = a
    <3>1. CASE i = 1
      BY <1>4, <1>5, <2>3, <3>1 DEF Busy
    <3>2. CASE i # 1
      <4>1. i - 1 \in 1..(n - 1) /\ (i - 1) + 1 = i
        BY <1>2, <3>2 DEF n
      <4> QED BY <1>8, <2>3, <4>1
    <3> QED BY <3>1, <3>2
  <2> QED BY <2>1, <2>2, <2>3
<1>16. InOrder'
  BY <1>1, <1>10 DEF InOrder
<1> QED BY <1>9, <1>11, <1>12, <1>13, <1>14, <1>15, <1>16

\* A worker that holds no address and one that goes on to the next step of its own
\* are alike to the rest: it may only let go of an address that does not answer.
LEMMA WorkerGoesOn ==
  ASSUME PoolInvariant, NEW w \in Workers, NEW s \in WorkerState, SetWorker(w, s),
         UNCHANGED <<prefix, network, expired, main, jobs, out>>,
         s.st \in {"ping", "tcp", "append"} => Busy(w) /\ s.ip = worker[w].ip,
         main.st \in {"send", "wait"}
           \/ (s.st = "done" /\ worker[w].st = "recv" /\ jobs.closed /\ jobs.queue = <<>>),
         s.st = "done" => expired \/ (jobs.closed /\ jobs.queue = <<>>),
         s.st = "tcp" =>
           /\ s.methods \subseteq network[s.ip]
           /\ ~expired => s.methods = network[s.ip] \cap {"icmp"},
         s.st = "append" =>
           /\ s.methods # {} /\ s.methods \subseteq network[s.ip]
           /\ ~expired => s.methods = network[s.ip],
         Busy(w) /\ s.st \notin {"ping", "tcp", "append"} /\ ~expired =>
           network[worker[w].ip] = {}
  PROVE  PoolInvariant'
<1> USE DEF PoolInvariant
<1>types. main \in MainState /\ worker \in [Workers -> WorkerState]
  BY DEF PoolShape, PoolTypeOK
<1>1. /\ worker' \in [Workers -> WorkerState] /\ worker'[w] = s
      /\ \A v \in Workers : v # w => worker'[v] = worker[v]
  BY <1>types, OneWorker
<1>2. \A v \in Workers : Busy(v)' => Busy(v) /\ worker'[v].ip = worker[v].ip
  BY <1>1 DEF Busy
<1>3. Hosts' = Hosts /\ Usable' = Usable /\ IsNetwork(prefix)' /\ Unsent' = Unsent
  BY SameNetwork DEF PoolShape, Unsent
<1>4. PoolShape'
  BY <1>1, <1>3 DEF PoolShape, PoolTypeOK, Admitted
<1>5. WorkersEnd'
  <2>1. \A v \in Workers : worker'[v].st = "done" => expired \/ (jobs.closed /\ jobs.queue = <<>>)
    BY <1>1 DEF WorkersEnd
  <2>2. CASE main.st \in {"send", "wait"}
    BY <2>1, <2>2 DEF WorkersEnd
  <2>3. CASE s.st = "done" /\ worker[w].st = "recv" /\ jobs.closed /\ jobs.queue = <<>>
    <3>1. \A v \in Workers : v # w => worker'[v].st = worker[v].st
      BY <1>1
    <3> QED BY <1>1, <2>1, <2>3, <3>1 DEF WorkersEnd
  <2> QED BY <2>2, <2>3
<1>6. InNetwork'
  BY <1>2, <1>3 DEF InNetwork
<1>7. Apart'
  BY <1>2, <1>3 DEF Apart
<1>8. Truth'
  BY <1>1 DEF Truth
<1>9. NothingLost'
  <2>1. \A v \in Workers : Busy(v) /\ ~expired =>
          network[worker[v].ip] = {} \/ (Busy(v)' /\ worker'[v].ip = worker[v].ip)
    BY <1>1 DEF Busy
  <2> QED BY <1>3, <2>1 DEF NothingLost, Admitted
<1>10. InOrder'
  BY DEF InOrder
<1> QED BY <1>4, <1>5, <1>6, <1>7, <1>8, <1>9, <1>10

\* A worker that holds an address belongs to a scan that runs.
LEMMA BusyWhileRunning ==
  ASSUME PoolInvariant, NEW w \in Workers, Busy(w)
  PROVE  main.st \in {"send", "wait"} /\ worker[w].ip \in Addr
<1>1. main \in MainState
  BY DEF PoolInvariant, PoolShape, PoolTypeOK
<1> QED BY <1>1 DEF PoolInvariant, WorkersEnd, InNetwork, Usable, Busy, MainState

\* A worker leaves at the end of the range loop.
LEMMA DrainedKeeps ==
  ASSUME PoolInvariant, NEW w \in Workers, Drained(w)
  PROVE  PoolInvariant'
<1> DEFINE s == [IdleWorker EXCEPT !.st = "done"]
<1>1. s \in WorkerState /\ s.st = "done"
  BY DEF IdleWorker, WorkerState
<1> HIDE DEF s
<1>2. /\ worker[w].st = "recv" /\ jobs.closed /\ jobs.queue = <<>> /\ SetWorker(w, s)
      /\ UNCHANGED <<prefix, network, expired, main, jobs, out>>
  BY DEF Drained, s
<1>3. ~Busy(w)
  BY <1>2 DEF Busy
<1> QED BY <1>1, <1>2, <1>3, WorkerGoesOn

\* A worker has its ping answered, or not.
LEMMA PingKeeps ==
  ASSUME PoolInvariant, NEW w \in Workers, Ping(w)
  PROVE  PoolInvariant'
<1> DEFINE m == IF Answers(w, "icmp") THEN {"icmp"} ELSE {}
           s == [worker[w] EXCEPT !.st = "tcp", !.methods = m]
<1>1. /\ worker[w].st = "ping" /\ SetWorker(w, s)
      /\ UNCHANGED <<prefix, network, expired, main, jobs, out>>
  BY DEF Ping
<1>2. /\ Busy(w) /\ main.st \in {"send", "wait"} /\ worker[w] \in WorkerState
      /\ m \subseteq network[worker[w].ip] /\ m \subseteq Methods
      /\ ~expired => m = network[worker[w].ip] \cap {"icmp"}
  BY <1>1, BusyWhileRunning
  DEF PoolInvariant, PoolShape, PoolTypeOK, Busy, Answers, Methods
<1> HIDE DEF m
<1>3. s \in WorkerState /\ s.st = "tcp" /\ s.methods = m /\ s.ip = worker[w].ip
  BY <1>2 DEF WorkerState
<1> HIDE DEF s
<1> QED BY <1>1, <1>2, <1>3, WorkerGoesOn

\* A worker has dialled: it has a candidate, or lets go of an address that before
\* the deadline can only be a silent one.
LEMMA DialKeeps ==
  ASSUME PoolInvariant, NEW w \in Workers, Dial(w)
  PROVE  PoolInvariant'
<1> DEFINE net == network[worker[w].ip]
           found == worker[w].methods \cup (IF Answers(w, "tcp") THEN {"tcp"} ELSE {})
           s == IF found = {} THEN IdleWorker
                ELSE [worker[w] EXCEPT !.st = "append", !.methods = found]
<1>1. /\ worker[w].st = "tcp" /\ SetWorker(w, s)
      /\ UNCHANGED <<prefix, network, expired, main, jobs, out>>
  BY DEF Dial
<1>2. /\ Busy(w) /\ main.st \in {"send", "wait"} /\ worker[w] \in WorkerState
      /\ worker[w].ip \in Addr
  BY <1>1, BusyWhileRunning DEF PoolInvariant, PoolShape, PoolTypeOK, Busy
<1>3. net \subseteq Methods
  BY <1>2 DEF PoolInvariant, PoolShape, PoolTypeOK
<1>4. /\ worker[w].methods \subseteq net
      /\ ~expired => worker[w].methods = net \cap {"icmp"}
  BY <1>1 DEF PoolInvariant, Truth
<1>5. /\ found \subseteq net /\ found \subseteq Methods
      /\ ~expired => found = net
  BY <1>3, <1>4 DEF Answers, Methods
<1> HIDE DEF found
<1>6. /\ s \in WorkerState
      /\ found = {} => s.st = "recv"
      /\ found # {} => s.st = "append" /\ s.methods = found /\ s.ip = worker[w].ip
  BY <1>2, <1>5 DEF WorkerState, IdleWorker
<1> HIDE DEF s
<1> QED BY <1>1, <1>2, <1>5, <1>6, WorkerGoesOn

\* What answers is reported, and its worker is free again.
LEMMA FoundKeeps ==
  ASSUME PoolInvariant, NEW w \in Workers, Found(w)
  PROVE  PoolInvariant'
<1> USE DEF PoolInvariant
<1> DEFINE a == worker[w].ip
           c == [ip |-> a, methods |-> worker[w].methods]
           n == Len(out)
<1>types. /\ worker \in [Workers -> WorkerState] /\ out \in Seq(Candidate) /\ n \in Nat
          /\ main \in MainState
  BY DEF PoolShape, PoolTypeOK
<1>1. /\ worker[w].st = "append" /\ out' = Append(out, c) /\ SetWorker(w, IdleWorker)
      /\ UNCHANGED <<prefix, network, expired, main, jobs>>
  BY DEF Found
<1>2. Busy(w) /\ main.st \in {"send", "wait"} /\ a \in Addr /\ a \in Usable
  BY <1>1, BusyWhileRunning DEF Busy, InNetwork
<1>3. /\ c \in Candidate /\ c.ip = a /\ c.methods # {} /\ c.methods \subseteq network[a]
      /\ ~expired => c.methods = network[a]
  BY <1>types, <1>1, <1>2 DEF Candidate, WorkerState, Truth
<1>4. IdleWorker \in WorkerState /\ IdleWorker.st = "recv"
  BY DEF IdleWorker, WorkerState
<1>5. /\ worker' \in [Workers -> WorkerState] /\ worker'[w] = IdleWorker
      /\ \A v \in Workers : v # w => worker'[v] = worker[v]
  BY <1>types, <1>1, <1>4, OneWorker
<1>6. /\ ~Busy(w)' /\ \A v \in Workers : Busy(v)' <=> (Busy(v) /\ v # w)
      /\ \A v \in Workers : Busy(v)' => worker'[v].ip = worker[v].ip
  BY <1>4, <1>5 DEF Busy
<1>7. Hosts' = Hosts /\ Usable' = Usable /\ IsNetwork(prefix)' /\ Unsent' = Unsent
  BY <1>1, SameNetwork DEF PoolShape, Unsent
<1> HIDE DEF c
<1>8. /\ out' \in Seq(Candidate) /\ Len(out') = n + 1
      /\ \A i \in 1..n : out'[i] = out[i] /\ i \in 1..(n + 1)
      /\ out'[n + 1] = c /\ n + 1 \in 1..(n + 1)
      /\ \A i \in 1..(n + 1) : i \in 1..n \/ i = n + 1
  BY <1>types, <1>1, <1>3
<1>9. PoolShape'
  BY <1>1, <1>5, <1>7, <1>8 DEF PoolShape, PoolTypeOK, Admitted
<1>10. WorkersEnd'
  BY <1>1, <1>2, <1>4, <1>5 DEF WorkersEnd
<1>11. InNetwork'
  <2>1. \A i \in 1..n : out[i].ip \in Usable
    BY DEF InNetwork, n
  <2> HIDE DEF n
  <2>2. \A i \in 1..(n + 1) : out'[i].ip \in Usable
    BY <1>2, <1>3, <1>8, <2>1
  <2> QED BY <1>1, <1>6, <1>7, <1>8, <2>2 DEF InNetwork
<1>12. Apart'
  <2>1. /\ \A k \in 1..n : a # out[k].ip
        /\ \A i \in 1..Len(jobs.queue) : jobs.queue[i] # a
        /\ \A u \in Unsent : a # Hosts[u]
        /\ \A v \in Workers : Busy(v) /\ v # w => worker[v].ip # a
    BY <1>2 DEF Apart, n
  <2>2. /\ \A i, j \in 1..n : out[i].ip = out[j].ip => i = j
        /\ \A k \in 1..n : /\ \A i \in 1..Len(jobs.queue) : jobs.queue[i] # out[k].ip
                           /\ \A v \in Workers : Busy(v) => worker[v].ip # out[k].ip
                           /\ \A u \in Unsent : out[k].ip # Hosts[u]
    BY DEF Apart, Once, n
  <2> HIDE DEF n, a
  <2>3. \A i, j \in 1..(n + 1) : out'[i].ip = out'[j].ip => i = j
    BY <1>3, <1>8, <2>1, <2>2
  <2>4. \A k \in 1..(n + 1) :
          /\ \A i \in 1..Len(jobs.queue) : jobs.queue[i] # out'[k].ip
          /\ \A v \in Workers : Busy(v)' => worker'[v].ip # out'[k].ip
          /\ \A u \in Unsent : out'[k].ip # Hosts[u]
    BY <1>3, <1>6, <1>8, <2>1, <2>2
  <2>5. /\ \A u, v \in Workers : Busy(u)' /\ Busy(v)' /\ worker'[u].ip = worker'[v].ip => u = v
        /\ \A v \in Workers : Busy(v)' =>
             /\ \A i \in 1..Len(jobs.queue) : jobs.queue[i] # worker'[v].ip
             /\ \A u \in Unsent : worker'[v].ip # Hosts[u]
    BY <1>6 DEF Apart
  <2> QED BY <1>1, <1>7, <1>8, <2>3, <2>4, <2>5 DEF Apart, Once
<1>13. Truth'
  <2>1. \A i \in 1..n : /\ out[i].methods # {} /\ out[i].methods \subseteq network[out[i].ip]
                        /\ ~expired => out[i].methods = network[out[i].ip]
    BY DEF Truth, n
  <2> HIDE DEF n, a
  <2>2. \A i \in 1..(n + 1) :
          /\ out'[i].methods # {} /\ out'[i].methods \subseteq network[out'[i].ip]
          /\ ~expired => out'[i].methods = network[out'[i].ip]
    BY <1>3, <1>8, <2>1
  <2> QED BY <1>1, <1>4, <1>5, <1>8, <2>2 DEF Truth
<1>14. NothingLost'
  <2> HIDE DEF n, a
  <2> SUFFICES ASSUME ~expired, NEW b \in Usable, network[b] # {},
                      ~ \E u \in Unsent : Hosts[u] = b,
                      ~ \E i \in 1..Len(jobs.queue) : jobs.queue[i] = b
               PROVE  \/ \E i \in 1..(n + 1) : out'[i].ip = b
                      \/ \E v \in Workers : Busy(v)' /\ worker'[v].ip = b
    BY <1>1, <1>7, <1>8 DEF NothingLost
  <2>1. (\E i \in 1..n : out[i].ip = b) \/ (\E v \in Workers : Busy(v) /\ worker[v].ip = b)
    BY <1>2 DEF NothingLost, Admitted, n
  <2>2. CASE \E i \in 1..n : out[i].ip = b
    BY <1>8, <2>2
  <2>3. CASE \E v \in Workers : Busy(v) /\ worker[v].ip = b
    BY <1>3, <1>6, <1>8, <2>3 DEF a
  <2> QED BY <2>1, <2>2, <2>3
<1>15. InOrder'
  BY <1>1, <1>2 DEF InOrder
<1> QED BY <1>9, <1>10, <1>11, <1>12, <1>13, <1>14, <1>15

\* Every step of a pool keeps its invariant.
LEMMA PoolKeeps == PoolInvariant /\ PoolNext => PoolInvariant'
<1> SUFFICES ASSUME PoolInvariant, PoolNext PROVE PoolInvariant'
  OBVIOUS
<1>1. CASE Expire
  BY <1>1, ExpireKeeps
<1>2. CASE Handler
  BY <1>2, SendKeeps, CloseKeeps, ReturnKeeps DEF Handler
<1>3. CASE \E w \in Workers : Worker(w)
  BY <1>3, TakeKeeps, DrainedKeeps, PingKeeps, DialKeeps, FoundKeeps DEF Worker
<1> QED BY <1>1, <1>2, <1>3 DEF PoolNext

-----------------------------------------------------------------------------
(* The steps of the panel that the pool takes part in *)

\* Before the first scan there is nothing to say.
LEMMA PoolAtFirst == PoolInit => PoolInvariant
<1> SUFFICES ASSUME PoolInit PROVE PoolInvariant
  OBVIOUS
<1> USE DEF PoolInit
<1>1. /\ MaxHosts \in Nat /\ Width \in 0..Width /\ Width - Width \in 0..Width
      /\ main = NoScan /\ NoScan \in MainState /\ NoScan.st = "none" /\ ~NoScan.cut
  BY LimitIsNat, WidthAssumption DEF NoScan, MainState
<1>2. /\ prefix.bits = Width /\ prefix.addr = 0
      /\ Size(prefix) \in Nat \ {0} /\ 2^Width \in Nat \ {0} /\ Size(prefix) <= 2^Width
  <2>1. prefix.bits \in 0..Width /\ prefix.bits = Width /\ prefix.addr = 0
    BY <1>1
  <2>2. 2^(Width - Width) \in 1..(2^Width)
    BY <1>1, WidthAssumption, PowersAssumption
  <2>3. Size(prefix) \in 1..(2^Width)
    BY <2>1, <2>2 DEF Size
  <2>4. Size(prefix) \in Nat \ {0} /\ 2^Width \in Nat \ {0}
    BY <2>1, SizeKeeps
  <2> QED BY <2>1, <2>3, <2>4
<1>3. IsNetwork(prefix)
  <2>1. 0 % Size(prefix) = 0
    <3> DEFINE d == Size(prefix)
    <3>1. d \in Nat \ {0}
      BY <1>2
    <3> HIDE DEF d
    <3>2. 0 \in 0..(d - 1) /\ d * 0 + 0 = 0
      BY <3>1
    <3>3. (d * 0 + 0) % d = 0
      BY <3>1, <3>2, Remainder
    <3> QED BY <3>2, <3>3 DEF d
  <2>2. prefix \in [addr: Addr, bits: 0..Width] /\ prefix.addr + Size(prefix) <= 2^Width
    BY <1>1, <1>2 DEF Addr
  <2> QED BY <1>2, <2>1, <2>2 DEF IsNetwork
<1>4. /\ jobs = NoJobs /\ NoJobs \in Jobs /\ NoJobs.queue = <<>> /\ ~NoJobs.closed
      /\ Len(NoJobs.queue) = 0 /\ 0 <= Buffer
  BY PoolAssumption DEF NoJobs, Jobs
<1>5. /\ IdleWorker \in WorkerState /\ IdleWorker.st = "recv"
      /\ worker \in [Workers -> WorkerState] /\ \A w \in Workers : worker[w].st = "recv"
  BY DEF IdleWorker, WorkerState
<1>6. out = <<>> /\ out \in Seq(Candidate) /\ Len(out) = 0 /\ 1..Len(out) = {}
      /\ 1..Len(jobs.queue) = {}
  BY <1>4
<1>7. PoolShape
  <2>1. PoolTypeOK
    BY <1>1, <1>3, <1>4, <1>5, <1>6, InputsAssumption DEF PoolTypeOK, IsNetwork
  <2> QED BY <1>1, <1>3, <2>1 DEF PoolShape, Admitted
<1>8. \A w \in Workers : ~Busy(w)
  BY <1>5 DEF Busy
<1> QED BY <1>1, <1>4, <1>5, <1>6, <1>7, <1>8
        DEF PoolInvariant, WorkersEnd, InNetwork, Apart, Once, Truth, NothingLost, InOrder,
            Admitted, Busy

\* A request begins a scan that has all its addresses still to send.
LEMMA PoolStartsKeeps ==
  ASSUME PoolInvariant, NEW p \in Requested, PoolStarts(p)
  PROVE  PoolInvariant'
<1> USE DEF PoolStarts
<1>1. /\ p \in [addr: Addr, bits: 0..Width] /\ prefix' = Masked(p) /\ network' = network
      /\ IsNetwork(prefix)' /\ prefix'.bits = p.bits /\ ~expired'
  <2>1. p \in [addr: Addr, bits: 0..Width]
    BY InputsAssumption
  <2>2. IsNetwork(Masked(p)) /\ Masked(p).bits = p.bits
    BY <2>1, MaskedIsNetwork
  <2>3. IsNetwork(prefix') /\ prefix'.bits = p.bits
    BY <2>2
  <2> QED BY <2>1, <2>3
<1>2. /\ main' \in MainState /\ ~main'.cut /\ main'.sent = 0
      /\ main'.st \in {"refused", "send"}
      /\ main'.st = "send" => prefix'.bits >= MinBits
  BY <1>1, LimitIsNat, WidthAssumption DEF ScanStarted, MainState
<1>3. /\ jobs' \in Jobs /\ jobs'.queue = <<>> /\ ~jobs'.closed
      /\ Len(jobs'.queue) = 0 /\ 0 <= Buffer
  BY PoolAssumption DEF NoJobs, Jobs
<1>4. /\ IdleWorker \in WorkerState
      /\ worker' \in [Workers -> WorkerState] /\ \A w \in Workers : worker'[w].st = "recv"
  BY DEF IdleWorker, WorkerState
<1>5. out' = <<>> /\ out' \in Seq(Candidate) /\ Len(out') = 0 /\ 1..Len(out') = {}
      /\ 1..Len(jobs'.queue) = {}
  BY <1>3
<1>6. PoolShape'
  <2>1. PoolTypeOK'
    BY <1>1, <1>2, <1>3, <1>4, <1>5 DEF PoolInvariant, PoolShape, PoolTypeOK, IsNetwork
  <2> QED BY <1>1, <1>2, <1>3, <2>1 DEF PoolShape, Admitted
<1>7. \A w \in Workers : ~Busy(w)'
  BY <1>4 DEF Busy
<1>8. NothingLost'
  <2> SUFFICES ASSUME main'.st = "send", NEW a \in Usable'
               PROVE  \E u \in Unsent' : Hosts'[u] = a
    BY <1>2 DEF NothingLost, Admitted
  <2>1. /\ Usable' = {Hosts'[i] : i \in 1..Len(Hosts')} /\ Len(Hosts') \in Nat
    <3>1. PoolShape' /\ Admitted'
      BY <1>6 DEF Admitted
    <3>2. /\ (Len(Hosts) \in 0..MaxHosts)'
          /\ (Usable = {Hosts[i] : i \in 1..Len(Hosts)})'
      BY <3>1, AdmittedHosts, PTL
    <3> QED BY <3>2, LimitIsNat
  <2>2. Unsent' = 1..Len(Hosts')
    BY <1>2, <2>1 DEF Unsent
  <2> QED BY <2>1, <2>2
<1> QED BY <1>1, <1>2, <1>3, <1>4, <1>5, <1>6, <1>7, <1>8
        DEF PoolInvariant, WorkersEnd, InNetwork, Apart, Once, Truth, InOrder, Busy

\* The panel is done with an answer: nothing of that scan takes a step any more.
LEMMA PoolIsLeft ==
  ASSUME PoolInvariant, ~Running, main' = NoScan,
         UNCHANGED <<prefix, network, expired, jobs, worker, out>>
  PROVE  PoolInvariant'
<1> USE DEF PoolInvariant
<1>1. /\ main \in MainState /\ main.st \in {"none", "refused", "returned"}
  BY DEF PoolShape, PoolTypeOK, MainState, Running
<1>2. main' \in MainState /\ main'.st = "none" /\ ~main'.cut
  BY LimitIsNat DEF NoScan, MainState
<1>3. Hosts' = Hosts /\ Usable' = Usable /\ IsNetwork(prefix)' /\ Unsent' = {}
  BY <1>2, SameNetwork DEF PoolShape, Unsent
<1>4. PoolShape'
  BY <1>2, <1>3 DEF PoolShape, PoolTypeOK, Admitted
<1>5. WorkersEnd'
  BY <1>1, <1>2 DEF WorkersEnd
<1>6. InNetwork' /\ Apart'
  BY <1>3 DEF InNetwork, Apart, Busy
<1>7. Truth'
  BY DEF Truth
<1> QED BY <1>2, <1>4, <1>5, <1>6, <1>7 DEF NothingLost, InOrder, Admitted

-----------------------------------------------------------------------------
(* The invariant of the panel *)

\* The panel's variables stay in their domains.
PanelTypeOK ==
    /\ panel \in PanelState
    /\ adds \subseteq AddCall
    /\ rows \in [Addr -> Nat]
    /\ known \subseteq Addr
    /\ added \subseteq Addr
    /\ used \in [scans: 0..MaxScans, adds: 0..MaxAdds]

\* Every add under way keeps its button disabled, so no address has two.
AddsApart ==
    /\ \A a \in adds : a.ip \in panel.adding
    /\ \A a, b \in adds : a.ip = b.ip => a = b

\* A row without the mark is of an address that answered and that neither the
\* scan nor an add since then found in the inventory, with or without an add
\* under way.
ListIsNew ==
    \A c \in panel.list :
        ~c.known => c.ip \notin known /\ c.ip \notin added /\ network[c.ip] # {}

PanelInvariant == PanelTypeOK /\ AddsApart /\ ListIsNew

\* A panel opens with no list and no add.
LEMMA PanelAtFirst == InitPanel => PanelInvariant
<1> SUFFICES ASSUME InitPanel PROVE PanelInvariant
  OBVIOUS
<1>1. panel.list = {} /\ adds = {} /\ known = {} /\ added = {} /\ panel \in PanelState
  BY DEF InitPanel, PanelState
<1>2. rows \in [Addr -> Nat]
  BY DEF InitPanel
<1>3. used \in [scans: 0..MaxScans, adds: 0..MaxAdds]
  BY PanelBounds DEF InitPanel
<1> QED BY <1>1, <1>2, <1>3 DEF PanelInvariant, PanelTypeOK, AddsApart, ListIsNew

\* The counter of a bound stays within it.
LEMMA UseKeeps ==
  ASSUME used \in [scans: 0..MaxScans, adds: 0..MaxAdds]
  PROVE  /\ used.scans < MaxScans /\ Use("scans") =>
              used' \in [scans: 0..MaxScans, adds: 0..MaxAdds]
         /\ used.adds < MaxAdds /\ Use("adds") =>
              used' \in [scans: 0..MaxScans, adds: 0..MaxAdds]
<1> SUFFICES ASSUME MaxScans \in Nat, MaxAdds \in Nat
             PROVE  /\ used.scans < MaxScans /\ Use("scans") =>
                         used' \in [scans: 0..MaxScans, adds: 0..MaxAdds]
                    /\ used.adds < MaxAdds /\ Use("adds") =>
                         used' \in [scans: 0..MaxScans, adds: 0..MaxAdds]
  BY PanelBounds
<1>1. ASSUME used.scans < MaxScans, Use("scans")
      PROVE  used' \in [scans: 0..MaxScans, adds: 0..MaxAdds]
  <2>1. used.scans + 1 \in 0..MaxScans
    BY <1>1
  <2>2. used' = [used EXCEPT !.scans = used.scans + 1]
    BY <1>1, Zenon DEF Use
  <2> QED BY <2>1, <2>2
<1>2. ASSUME used.adds < MaxAdds, Use("adds")
      PROVE  used' \in [scans: 0..MaxScans, adds: 0..MaxAdds]
  <2>1. used.adds + 1 \in 0..MaxAdds
    BY <1>2
  <2>2. used' = [used EXCEPT !.adds = used.adds + 1]
    BY <1>2, Zenon DEF Use
  <2> QED BY <2>1, <2>2
<1> QED BY <1>1, <1>2

\* An add ends, with or without success: its button is free, no other's is.
LEMMA AddEnds ==
  ASSUME PanelInvariant, NEW a \in adds, adds' = adds \ {a},
         panel' \in PanelState, panel'.adding = panel.adding \ {a.ip}
  PROVE  AddsApart' /\ adds' \subseteq AddCall
<1>1. \A b \in adds' : b \in adds /\ b.ip # a.ip
  BY DEF PanelInvariant, AddsApart
<1> QED BY <1>1 DEF PanelInvariant, AddsApart, PanelTypeOK

\* Every step of a panel keeps both invariants.
LEMMA PanelKeeps ==
  PoolInvariant /\ PanelInvariant /\ NextPanel => PoolInvariant' /\ PanelInvariant'
<1> SUFFICES ASSUME PoolInvariant, PanelInvariant, NextPanel
             PROVE  PoolInvariant' /\ PanelInvariant'
  OBVIOUS
<1>types. /\ panel \in PanelState /\ adds \subseteq AddCall
          /\ network \in [Addr -> SUBSET Methods] /\ out \in Seq(Candidate)
          /\ used \in [scans: 0..MaxScans, adds: 0..MaxAdds] /\ MaxAdds \in Nat
          /\ panel.list \subseteq [ip: Addr, known: BOOLEAN] /\ panel.adding \subseteq Addr
  BY PanelBounds
  DEF PanelInvariant, PanelTypeOK, PanelState, PoolInvariant, PoolShape, PoolTypeOK
<1>same. ASSUME UNCHANGED pool PROVE PoolInvariant'
  <2>1. UNCHANGED <<prefix, network, expired, main, jobs, worker, out>>
    BY <1>same DEF pool
  <2>2. Hosts' = Hosts /\ Usable' = Usable /\ IsNetwork(prefix)' /\ Unsent' = Unsent
    BY <2>1, SameNetwork DEF PoolInvariant, PoolShape, Unsent
  <2> QED BY <2>1, <2>2
          DEF PoolInvariant, PoolShape, PoolTypeOK, WorkersEnd, InNetwork, Apart, Once, Truth,
              NothingLost, InOrder, Admitted, Busy
<1>1. CASE StatusAnswered
  <2>1. PoolInvariant' /\ network' = network
    BY <1>1, <1>same DEF StatusAnswered, pool
  <2>2. panel' \in PanelState /\ panel'.list = panel.list /\ panel'.adding = panel.adding
    BY <1>1, <1>types DEF StatusAnswered, PanelState
  <2> QED BY <1>1, <2>1, <2>2
          DEF StatusAnswered, PanelInvariant, PanelTypeOK, AddsApart, ListIsNew
<1>2. CASE Scan
  <2>1. PoolInvariant'
    <3>1. PICK p \in Requested : PoolStarts(p)
      BY <1>2, PanelBounds DEF Scan
    <3> QED BY <3>1, PoolStartsKeeps
  <2>2. panel' \in PanelState /\ panel'.list = {} /\ panel'.adding = panel.adding
    BY <1>2, <1>types DEF Scan, PanelState
  <2>3. used' \in [scans: 0..MaxScans, adds: 0..MaxAdds]
    BY <1>2, <1>types, UseKeeps DEF Scan
  <2> QED BY <1>2, <2>1, <2>2, <2>3
          DEF Scan, PanelInvariant, PanelTypeOK, AddsApart, ListIsNew
<1>3. CASE ScanAnswered
  <2>1. PoolInvariant'
    BY <1>3, PoolIsLeft DEF ScanAnswered, Running
  <2>2. /\ DOMAIN out = 1..Len(out)
        /\ \A i \in 1..Len(out) : out[i].ip \in Addr /\ network[out[i].ip] # {}
    <3>1. \A i \in 1..Len(out) : out[i] \in Candidate
      BY <1>types
    <3> QED BY <1>types, <3>1 DEF PoolInvariant, Truth, Candidate
  <2>3. Candidates \subseteq [ip: Addr, known: BOOLEAN]
    <3>1. \A i \in 1..Len(out) : [ip |-> out[i].ip, known |-> (out[i].ip \in known)]
                                   \in [ip: Addr, known: BOOLEAN]
      BY <2>2
    <3> QED BY <2>2, <3>1 DEF Candidates
  <2>4. \A c \in Candidates : ~c.known => c.ip \notin known /\ network[c.ip] # {}
    <3>1. ASSUME NEW c \in Candidates, ~c.known
          PROVE  c.ip \notin known /\ network[c.ip] # {}
      <4>1. PICK i \in 1..Len(out) : c = [ip |-> out[i].ip, known |-> (out[i].ip \in known)]
        BY <2>2, Zenon DEF Candidates
      <4>2. c.ip = out[i].ip /\ (c.known <=> out[i].ip \in known)
        BY <4>1, Zenon
      <4> QED BY <2>2, <3>1, <4>2
    <3> QED BY <3>1
  <2>5. panel' \in PanelState /\ panel'.list = Candidates /\ panel'.adding = panel.adding
    BY <1>3, <1>types, <2>3 DEF ScanAnswered, PanelState
  <2> QED BY <1>3, <2>1, <2>4, <2>5
          DEF ScanAnswered, PanelInvariant, PanelTypeOK, AddsApart, ListIsNew
<1>4. CASE ScanFails
  <2>1. PoolInvariant'
    BY <1>4, PoolIsLeft DEF ScanFails
  <2>2. panel' \in PanelState /\ panel'.list = panel.list /\ panel'.adding = panel.adding
    BY <1>4, <1>types DEF ScanFails, PanelState
  <2> QED BY <1>4, <2>1, <2>2
          DEF ScanFails, PanelInvariant, PanelTypeOK, AddsApart, ListIsNew
<1>5. CASE Add
  <2>1. PoolInvariant' /\ network' = network
    BY <1>5, <1>same DEF Add, pool
  <2>2. PICK c \in panel.list :
          /\ ~c.known /\ c.ip \notin panel.adding
          /\ panel' = [panel EXCEPT !.adding = @ \cup {c.ip}]
          /\ adds' = adds \cup {[n |-> used.adds + 1, ip |-> c.ip, at |-> "asked"]}
    BY <1>5 DEF Add
  <2>3. c.ip \in Addr /\ \A a \in adds : a.ip # c.ip
    BY <1>types, <2>2 DEF PanelInvariant, AddsApart
  <2>4. /\ panel' \in PanelState /\ panel'.list = panel.list
        /\ panel'.adding = panel.adding \cup {c.ip}
    BY <1>types, <2>2, <2>3 DEF PanelState
  <2>5. used.adds < MaxAdds /\ used.adds + 1 \in 1..MaxAdds
    BY <1>5, <1>types DEF Add
  <2>6. adds' \subseteq AddCall
    BY <1>types, <2>2, <2>3, <2>5 DEF AddCall
  <2>7. used' \in [scans: 0..MaxScans, adds: 0..MaxAdds]
    BY <1>5, <1>types, UseKeeps DEF Add
  <2>8. AddsApart'
    BY <2>2, <2>3, <2>4 DEF PanelInvariant, AddsApart
  <2> QED BY <1>5, <2>1, <2>4, <2>6, <2>7, <2>8
          DEF Add, PanelInvariant, PanelTypeOK, ListIsNew
<1>6. CASE Back
  <2>1. PoolInvariant'
    BY <1>6, <1>same DEF Back, pool
  <2>2. panel' \in PanelState /\ panel'.list = {} /\ panel'.adding = panel.adding
    BY <1>6, <1>types DEF Back, PanelState
  <2> QED BY <1>6, <2>1, <2>2
          DEF Back, PanelInvariant, PanelTypeOK, AddsApart, ListIsNew
<1>7. ASSUME NEW a \in adds, AddWritten(a) PROVE PoolInvariant' /\ PanelInvariant'
  <2> DEFINE b == [a EXCEPT !.at = "written"]
  <2>1. PoolInvariant' /\ network' = network
    BY <1>7, <1>same DEF AddWritten, pool
  <2>2. a \in AddCall
    BY <1>types
  <2>3. b \in AddCall /\ b.ip = a.ip /\ a.ip \in Addr
    BY <2>2 DEF AddCall
  <2>4. adds' = (adds \ {a}) \cup {b} /\ UNCHANGED <<panel, known, added, used>>
    BY <1>7 DEF AddWritten
  <2>5. rows' \in [Addr -> Nat]
    BY <1>7, <2>3 DEF AddWritten, PanelInvariant, PanelTypeOK
  <2> HIDE DEF b
  <2>6. AddsApart'
    BY <2>3, <2>4 DEF PanelInvariant, AddsApart
  <2> QED BY <2>1, <2>3, <2>4, <2>5, <2>6 DEF PanelInvariant, PanelTypeOK, ListIsNew
<1>8. ASSUME NEW a \in adds, AddAnswered(a) PROVE PoolInvariant' /\ PanelInvariant'
  <2> DEFINE mark(c) == [c EXCEPT !.known = @ \/ c.ip = a.ip]
  <2>1. PoolInvariant' /\ network' = network
    BY <1>8, <1>same DEF AddAnswered, pool
  <2>2. a.ip \in Addr
    BY <1>types DEF AddCall
  <2>3. \A c \in panel.list : /\ mark(c) \in [ip: Addr, known: BOOLEAN] /\ mark(c).ip = c.ip
                              /\ ~mark(c).known => ~c.known /\ c.ip # a.ip
    <3> SUFFICES ASSUME NEW c \in panel.list
                 PROVE  /\ mark(c) \in [ip: Addr, known: BOOLEAN] /\ mark(c).ip = c.ip
                        /\ ~mark(c).known => ~c.known /\ c.ip # a.ip
      OBVIOUS
    <3>1. c \in [ip: Addr, known: BOOLEAN]
      BY <1>types
    <3>2. mark(c) = [ip |-> c.ip, known |-> (c.known \/ c.ip = a.ip)]
      BY <3>1
    <3>3. mark(c).ip = c.ip /\ (mark(c).known <=> (c.known \/ c.ip = a.ip))
      BY <3>2, Zenon
    <3>4. mark(c) \in [ip: Addr, known: BOOLEAN]
      BY <3>1, <3>2
    <3> HIDE DEF mark
    <3> QED BY <3>3, <3>4
  <2>4. /\ panel' = [panel EXCEPT !.adding = panel.adding \ {a.ip},
                                  !.list = {mark(c) : c \in panel.list}]
        /\ adds' = adds \ {a} /\ added' = added \cup {a.ip} /\ UNCHANGED <<rows, known, used>>
    BY <1>8 DEF AddAnswered
  <2> HIDE DEF mark
  <2>5. {mark(c) : c \in panel.list} \subseteq [ip: Addr, known: BOOLEAN]
    BY <2>3
  <2>6. /\ panel' \in PanelState /\ panel'.list = {mark(c) : c \in panel.list}
        /\ panel'.adding = panel.adding \ {a.ip}
    BY <1>types, <2>4, <2>5 DEF PanelState
  <2>7. AddsApart' /\ adds' \subseteq AddCall
    BY <2>4, <2>6, AddEnds
  <2>8. ListIsNew'
    BY <2>1, <2>3, <2>4, <2>6 DEF PanelInvariant, ListIsNew
  <2> QED BY <2>1, <2>2, <2>4, <2>6, <2>7, <2>8 DEF PanelInvariant, PanelTypeOK
<1>9. ASSUME NEW a \in adds, AddFails(a) PROVE PoolInvariant' /\ PanelInvariant'
  <2>1. PoolInvariant' /\ network' = network
    BY <1>9, <1>same DEF AddFails, pool
  <2>2. /\ panel' \in PanelState /\ panel'.list = panel.list
        /\ panel'.adding = panel.adding \ {a.ip}
    BY <1>9, <1>types DEF AddFails, PanelState
  <2>3. AddsApart' /\ adds' \subseteq AddCall
    BY <1>9, <2>2, AddEnds DEF AddFails
  <2> QED BY <1>9, <2>1, <2>2, <2>3
          DEF AddFails, PanelInvariant, PanelTypeOK, ListIsNew
<1>10. CASE PoolSteps
  <2>1. PoolInvariant'
    BY <1>10, PoolKeeps DEF PoolSteps
  <2>2. network' = network
    BY <1>10 DEF PoolSteps, PoolNext, Expire, Handler, SendJob, Cut, AllSent, Return, Worker,
                 Take, Drained, Ping, Dial, Found
  <2> QED BY <1>10, <2>1, <2>2
          DEF PoolSteps, PanelInvariant, PanelTypeOK, AddsApart, ListIsNew
<1> QED BY <1>1, <1>2, <1>3, <1>4, <1>5, <1>6, <1>7, <1>8, <1>9, <1>10 DEF NextPanel

-----------------------------------------------------------------------------
(* What follows from the invariants *)

\* With all workers gone and no deadline, what answers is among the candidates.
LEMMA AnswerFollows == PoolInvariant => AnswerIsRight
<1> SUFFICES ASSUME PoolInvariant PROVE AnswerIsRight
  OBVIOUS
<1> USE DEF PoolInvariant
<1>1. DOMAIN out = 1..Len(out)
  BY DEF PoolShape, PoolTypeOK
<1>2. PartialScanIsTrue
  BY <1>1 DEF PartialScanIsTrue, InNetwork, Truth, Apart, Once
<1>3. ASSUME main.st = "returned", ~expired
      PROVE  {[ip |-> out[i].ip, methods |-> out[i].methods] : i \in DOMAIN out}
               = {[ip |-> a, methods |-> network[a]] : a \in {b \in Usable : network[b] # {}}}
  <2>1. jobs.queue = <<>> /\ Len(jobs.queue) = 0 /\ Unsent = {}
    <3>1. PICK w \in Workers : worker[w].st = "done"
      BY <1>3, PoolAssumption DEF WorkersEnd
    <3> QED BY <1>3, <3>1 DEF WorkersEnd, Unsent
  <2>2. \A w \in Workers : ~Busy(w)
    BY <1>3 DEF WorkersEnd, Busy
  <2>3. \A a \in Usable : network[a] # {} => \E i \in 1..Len(out) : out[i].ip = a
    BY <1>3, <2>1, <2>2 DEF NothingLost, Admitted
  <2>4. \A i \in 1..Len(out) : /\ out[i].ip \in Usable /\ network[out[i].ip] # {}
                               /\ out[i].methods = network[out[i].ip]
    BY <1>3 DEF InNetwork, Truth
  <2> QED BY <1>1, <2>3, <2>4
<1>4. (main.st = "returned" /\ ~expired) =>
        \A i, j \in DOMAIN out : i < j => Rank[out[i].ip] < Rank[out[j].ip]
  BY <1>1 DEF InOrder
<1> QED BY <1>2, <1>3, <1>4 DEF AnswerIsRight, FullScanIsComplete

\* The pool and the panel, whatever scans, answers and adds come between.
THEOREM PanelCorrect == SpecPanel => [](PoolInvariant /\ PanelInvariant)
<1>1. InitPanel => PoolInvariant /\ PanelInvariant
  BY PoolAtFirst, PanelAtFirst DEF InitPanel
<1>2. PoolInvariant /\ PanelInvariant /\ [NextPanel]_panelVars
        => PoolInvariant' /\ PanelInvariant'
  <2> SUFFICES ASSUME PoolInvariant, PanelInvariant, UNCHANGED panelVars
               PROVE  PoolInvariant' /\ PanelInvariant'
    BY PanelKeeps
  <2>1. UNCHANGED <<prefix, network, expired, main, jobs, worker, out, panel, adds, rows,
                    known, added, used>>
    BY DEF panelVars, pool
  <2>2. Hosts' = Hosts /\ Usable' = Usable /\ IsNetwork(prefix)' /\ Unsent' = Unsent
    BY <2>1, SameNetwork DEF PoolInvariant, PoolShape, Unsent
  <2>3. PoolInvariant'
    BY <2>1, <2>2
    DEF PoolInvariant, PoolShape, PoolTypeOK, WorkersEnd, InNetwork, Apart, Once, Truth,
        NothingLost, InOrder, Admitted, Busy
  <2>4. PanelInvariant'
    BY <2>1 DEF PanelInvariant, PanelTypeOK, AddsApart, ListIsNew
  <2> QED BY <2>3, <2>4
<1> QED BY <1>1, <1>2, PTL DEF SpecPanel

\* Every variable of a scan stays in its domain, the channel in its capacity.
THEOREM ScanIsTyped == SpecPanel => []PoolTypeOK
<1>1. PoolInvariant => PoolTypeOK
  BY DEF PoolInvariant, PoolShape
<1> QED BY <1>1, PanelCorrect, PTL

\* A full scan finds all that answers, a scan cut short nothing but the truth.
THEOREM AnswerAlwaysRight == SpecPanel => []AnswerIsRight
<1> QED BY PanelCorrect, AnswerFollows, PTL

\* What is offered was in no inventory, answered, and is not being added twice.
THEOREM OffersAreNew == SpecPanel => []OfferedOnce
<1>1. PanelInvariant => OfferedOnce
  BY DEF PanelInvariant, AddsApart, ListIsNew, OfferedOnce
<1> QED BY <1>1, PanelCorrect, PTL
=============================================================================

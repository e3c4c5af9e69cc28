------------------------------ MODULE HostPage ------------------------------
(***************************************************************************)
(* The Host page of the Portal in one browser tab: components/HostDetail,  *)
(* with HostForm as its edit form and bumpRefresh of lib/inventoryTree.    *)
(*                                                                         *)
(* One component instance serves every /hosts/:hostId.  It loads its row,  *)
(* polls it, and runs the operator's requests; their answers come in any   *)
(* order, also after the operator has gone on to another Host or page.     *)
(*                                                                         *)
(* What a promise's continuation sets in one go, the commit and the        *)
(* effects that follow from it are one step.  A session that expires       *)
(* leaves the page (OidcSession).                                          *)
(***************************************************************************)
EXTENDS Integers, FiniteSets

CONSTANTS
    Hosts,
    Elsewhere,   \* a route that is not a Host's
    NoRow,       \* nothing loaded yet
    MaxVersion,  \* bound on the writes to each row
    MaxPolls,    \* bound on the polls in flight
    MaxCalls     \* bound on the operator's requests in flight

ASSUME ElsewhereAssumption == Elsewhere \notin Hosts
ASSUME NoRowAssumption == NoRow \notin [id: Hosts, version: Nat]
ASSUME BoundsAssumption == MaxVersion \in Nat /\ MaxPolls \in Nat /\ MaxCalls \in Nat

VARIABLES
    db,     \* the rows: how often each was written, and whether it is there
    route,  \* useParams().hostId
    page,   \* the state of the mounted HostDetail
    loads,  \* load() calls of the effect that are not cancelled
    calls,  \* handleRefresh, handleDelete and HostForm's handleSubmit
    told    \* the version each row had at the last change this tab was told of

vars == <<db, route, page, loads, calls, told>>

-----------------------------------------------------------------------------
Version == 0..MaxVersion
Shown == [id: Hosts, version: Version]

\* typed: the open form holds text that is not saved.
Page == [host: Shown \cup {NoRow}, error: BOOLEAN, loading: BOOLEAN,
         editing: BOOLEAN, typed: BOOLEAN]

\* site: the row is in place and the name of its Site is fetched.
Stage == {"asked", "answered", "site"}

\* first: showLoading.
Load == [host: Hosts, at: Stage, version: Version, first: BOOLEAN]

\* here: the page that made the call is still mounted; form: so is the form.
Call == [kind: {"refresh", "save", "delete"}, host: Hosts, at: Stage,
         version: Version, here: BOOLEAN, form: BOOLEAN]

Mounted == [host |-> NoRow, error |-> FALSE, loading |-> TRUE,
            editing |-> FALSE, typed |-> FALSE]

Row(r) == [id |-> r.host, version |-> r.version]

\* What is rendered: the form instead of the Host's pane, neither of them while
\* it is loading or when there is no row.
Pane(r, p) == r \in Hosts /\ ~p.loading /\ p.host # NoRow /\ ~p.editing
Form(r, p) == r \in Hosts /\ ~p.loading /\ p.host # NoRow /\ p.editing

Refreshing == \E c \in calls : c.kind = "refresh" /\ c.here
Saving == \E c \in calls : c.kind = "save" /\ c.form

\* The next state of the component.  A form that is not rendered any more loses
\* what was typed; the save it may have under way goes on.
Render(r, p, cs) ==
    /\ route' = r
    /\ page' = [p EXCEPT !.typed = @ /\ Form(r, p)]
    /\ calls' = IF Form(r, p) THEN cs ELSE {[c EXCEPT !.form = FALSE] : c \in cs}

First(h) == [host |-> h, at |-> "asked", version |-> 0, first |-> TRUE]

\* Mutant of Rerun: the effect has no cleanup.
RerunOnly(h, ls) == ls \cup {First(h)}

\* The effect on [hostId, refreshKey] runs again.  Its cleanup cancels what its
\* last run had under way: such a load asks `cancelled` after each await and
\* does nothing any more, so it is dropped here.  Then load(true).
Rerun(h, ls) == {First(h)}

\* bumpRefresh, together with what its caller sets.
Bump(p, cs) ==
    /\ Render(route, [p EXCEPT !.loading = TRUE], cs)
    /\ loads' = IF route \in Hosts THEN Rerun(route, loads) ELSE loads

\* Bound: no more of the operator's requests at once.
Room == Cardinality(calls) < MaxCalls

-----------------------------------------------------------------------------
Init ==
    /\ db = [h \in Hosts |-> [live |-> TRUE, version |-> 0]]
    /\ route = Elsewhere
    /\ page = Mounted
    /\ loads = {}
    /\ calls = {}
    /\ told = [h \in Hosts |-> 0]

(* The operator *)

\* A link of the tree: from another page a new instance is mounted, from
\* another Host's page the instance stays.
Open(h) ==
    /\ route # h
    /\ Render(h, [(IF route = Elsewhere THEN Mounted ELSE page) EXCEPT !.loading = TRUE],
              calls)
    /\ loads' = Rerun(h, loads)
    /\ UNCHANGED <<db, told>>

\* The unmounted page: its cleanup runs, its setters do nothing any more.
Unmount(cs) ==
    /\ route' = Elsewhere
    /\ page' = Mounted
    /\ loads' = {}
    /\ calls' = {[c EXCEPT !.here = FALSE, !.form = FALSE] : c \in cs}

Leave ==
    /\ route \in Hosts
    /\ Unmount(calls)
    /\ UNCHANGED <<db, told>>

Send(kind, h) ==
    calls' = calls \cup {[kind |-> kind, host |-> h, at |-> "asked", version |-> 0,
                          here |-> TRUE, form |-> kind = "save"]}

\* "Testar Conexao": for the Host of the URL.
ClickRefresh ==
    /\ Room
    /\ Pane(route, page) /\ ~Refreshing
    /\ Send("refresh", route)
    /\ UNCHANGED <<db, route, page, loads, told>>

\* "Excluir", confirmed: for the Host that is shown.
ClickDelete ==
    /\ Room
    /\ Pane(route, page)
    /\ Send("delete", page.host.id)
    /\ UNCHANGED <<db, route, page, loads, told>>

ClickEdit ==
    /\ Pane(route, page)
    /\ page' = [page EXCEPT !.editing = TRUE]
    /\ UNCHANGED <<db, route, loads, calls, told>>

Type ==
    /\ Form(route, page)
    /\ page' = [page EXCEPT !.typed = TRUE]
    /\ UNCHANGED <<db, route, loads, calls, told>>

\* "Save" of a form that passes its checks; another changes nothing but the
\* form's own message.
Submit ==
    /\ Room
    /\ Form(route, page) /\ ~Saving
    /\ Send("save", page.host.id)
    /\ UNCHANGED <<db, route, page, loads, told>>

Cancel ==
    /\ Form(route, page) /\ ~Saving
    /\ Render(route, [page EXCEPT !.editing = FALSE], calls)
    /\ UNCHANGED <<db, loads, told>>

-----------------------------------------------------------------------------
(* The Server *)

\* A request that will fail needs no step here: it carries nothing.

Read(r) == [r EXCEPT !.at = "answered", !.version = db[r.host].version]

ServeLoad(l) ==
    /\ l.at = "asked" /\ db[l.host].live
    /\ loads' = (loads \ {l}) \cup {Read(l)}
    /\ UNCHANGED <<db, route, page, calls, told>>

ServeRead(c) ==
    /\ c.kind = "refresh" /\ c.at = "asked" /\ db[c.host].live
    /\ calls' = (calls \ {c}) \cup {Read(c)}
    /\ UNCHANGED <<db, route, page, loads, told>>

Write(h, live) ==
    /\ db[h].live /\ db[h].version < MaxVersion
    /\ db' = [db EXCEPT ![h] = [live |-> live, version |-> @.version + 1]]

ServeWrite(c) ==
    /\ c.kind # "refresh" /\ c.at = "asked"
    /\ Write(c.host, c.kind = "save")
    /\ calls' = (calls \ {c}) \cup
         {[c EXCEPT !.at = "answered", !.version = db[c.host].version + 1]}
    /\ UNCHANGED <<route, page, loads, told>>

\* Agents, the probe loop and other tabs change the row.  That another tab
\* deletes it shows here as requests that fail.
OthersWrite(h) ==
    /\ Write(h, TRUE)
    /\ UNCHANGED <<route, page, loads, calls, told>>

-----------------------------------------------------------------------------
(* Answers *)

\* The timer of the effect, unless the form is open.
Poll ==
    /\ Cardinality({l \in loads : ~l.first}) < MaxPolls
    /\ route \in Hosts
    /\ ~page.editing
    /\ loads' = loads \cup {[First(route) EXCEPT !.first = FALSE]}
    /\ UNCHANGED <<db, route, page, calls, told>>

\* Mutant of LoadFails: loading is switched off on success only.
LoadFailsLoading(l) ==
    /\ l.at \in {"asked", "answered"}
    /\ loads' = loads \ {l}
    /\ Render(route, [page EXCEPT !.error = TRUE], calls)
    /\ UNCHANGED <<db, told>>

\* load()'s catch and finally: an error status, or no answer.
LoadFails(l) ==
    /\ l.at \in {"asked", "answered"}
    /\ loads' = loads \ {l}
    /\ Render(route, [page EXCEPT !.error = TRUE, !.loading = @ /\ ~l.first], calls)
    /\ UNCHANGED <<db, told>>

\* The row has come: it replaces the one shown, and a form that is open takes
\* its fields from it.  A load(true) closes the form and fetches the Site's
\* name next; so does a poll, but nothing waits for that.
Loaded(l) ==
    /\ l.at = "answered"
    /\ loads' = (loads \ {l}) \cup {s \in {[l EXCEPT !.at = "site"]} : l.first}
    /\ Render(route, [page EXCEPT
         !.host = Row(l), !.error = FALSE, !.typed = FALSE,
         !.editing = @ /\ ~l.first], calls)
    /\ UNCHANGED <<db, told>>

\* The Site's name has come, or not; the finally of load().
SiteNamed(l) ==
    /\ l.at = "site"
    /\ loads' = loads \ {l}
    /\ Render(route, [page EXCEPT !.loading = FALSE], calls)
    /\ UNCHANGED <<db, told>>

\* handleRefresh is not cancelled when the Host of the URL changes.
Refreshed(c) ==
    /\ c.kind = "refresh" /\ c.at = "answered"
    /\ Bump(IF c.here THEN [page EXCEPT !.host = Row(c), !.error = FALSE, !.typed = FALSE]
                      ELSE page,
            calls \ {c})
    /\ UNCHANGED <<db, told>>

Told(c) == told' = [told EXCEPT ![c.host] = IF c.version > @ THEN c.version ELSE @]

\* Mutant of Saved: the form closes, and nothing is loaded again.
SavedQuietly(c) ==
    /\ c.kind = "save" /\ c.at = "answered"
    /\ Render(route, [page EXCEPT !.editing = @ /\ ~c.here], calls \ {c})
    /\ Told(c)
    /\ UNCHANGED <<db, loads>>

\* onSaved: setEditing belongs to the page, whatever form it shows by now.
Saved(c) ==
    /\ c.kind = "save" /\ c.at = "answered"
    /\ Bump([page EXCEPT !.editing = @ /\ ~c.here], calls \ {c})
    /\ Told(c)
    /\ UNCHANGED db

\* bumpRefresh, then navigate to the Site's page, from wherever the tab is.
Deleted(c) ==
    /\ c.kind = "delete" /\ c.at = "answered"
    /\ Unmount(calls \ {c})
    /\ Told(c)
    /\ UNCHANGED db

\* A write may have been done although its answer is lost.  The message of a
\* failed save is the form's own.
CallFails(c) ==
    /\ Render(route, [page EXCEPT !.error = @ \/ (c.here /\ c.kind # "save")], calls \ {c})
    /\ UNCHANGED <<db, loads, told>>

-----------------------------------------------------------------------------
Next ==
    \/ \E h \in Hosts : Open(h) \/ OthersWrite(h)
    \/ Leave \/ ClickRefresh \/ ClickDelete \/ ClickEdit \/ Type \/ Submit \/ Cancel
    \/ Poll
    \/ \E l \in loads : ServeLoad(l) \/ LoadFails(l) \/ Loaded(l) \/ SiteNamed(l)
    \/ \E c \in calls : \/ ServeRead(c) \/ ServeWrite(c)
                        \/ Refreshed(c) \/ Saved(c) \/ Deleted(c) \/ CallFails(c)

\* fetch settles at last, for load(true); there is one of them at a time.
\* Nothing is asked of polls and of the operator.
FirstLoad ==
    \E l \in loads :
        l.first /\ (ServeLoad(l) \/ LoadFails(l) \/ Loaded(l) \/ SiteNamed(l))

Spec == Init /\ [][Next]_vars /\ WF_vars(FirstLoad)

-----------------------------------------------------------------------------
(* Properties *)

TypeOK ==
    /\ db \in [Hosts -> [live: BOOLEAN, version: Version]]
    /\ route \in Hosts \cup {Elsewhere}
    /\ page \in Page
    /\ loads \subseteq Load
    /\ calls \subseteq Call
    /\ told \in [Hosts -> Version]

\* A page that shows no error and is not loading.
Settled == route \in Hosts /\ ~page.loading /\ ~page.error /\ page.host # NoRow

\* However slow the answers for the Host one came from, the pane and the form
\* of a page without an error are those of the Host in its URL.
NoForeignHost == Settled => page.host.id = route

\* What the tab was told is saved or deleted is never shown as it was before,
\* by any of the loads, polls and refreshes that were under way.
SavedSticks == Settled => page.host.version >= told[page.host.id]

\* Why the two hold: what is shown without an error, or will be once the Site's
\* name has come, is the Host of the URL, not before the last change; the loads
\* that count were asked for this Host, and after that change.
RowIsRight ==
    /\ page.host # NoRow
    /\ page.host.id = route
    /\ page.host.version >= told[page.host.id]
ToldIsPast == \A h \in Hosts : told[h] <= db[h].version
AnswersArePast == \A c \in calls : c.at = "answered" => c.version <= db[c.host].version
LoadsAreCurrent ==
    \A l \in loads :
        /\ l.host = route
        /\ l.at # "asked" => l.version >= told[route]
        /\ l.at = "site" => page.error \/ RowIsRight
PageInvariant ==
    /\ TypeOK
    /\ ToldIsPast
    /\ AnswersArePast
    /\ LoadsAreCurrent
    /\ Settled => RowIsRight

\* A page that loads comes to show a Host or an error, or is left.
LoadingEnds ==
    \A h \in Hosts : (route = h /\ page.loading) ~> (route # h \/ ~page.loading)

\* "detail pane shows the error" (SidebarTree.tsx): the page of a Host that
\* could not be loaded shows that, and not the form of the Host before.
DetailShowsError ==
    ~(Form(route, page) /\ page.error /\ page.host.id # route)

\* Text in an open form goes away by a key of the form or a link only.
TypedTextKept ==
    [][(page.typed /\ ~page'.typed) => (Leave \/ Cancel \/ \E h \in Hosts : Open(h))]_vars
=============================================================================

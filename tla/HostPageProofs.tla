--------------------------- MODULE HostPageProofs ---------------------------
(***************************************************************************)
(* The Host page shows the Host of its URL, and nothing older than the     *)
(* last change the tab was told of, for any number of Hosts, polls and     *)
(* requests under way.                                                     *)
(***************************************************************************)
EXTENDS HostPage, TLAPS

\* What a call carries.
SameCall(c, d) ==
    d.kind = c.kind /\ d.host = c.host /\ d.at = c.at /\ d.version = c.version

\* A row that has come is not the absence of one.
LEMMA RowIsSome ==
  ASSUME NEW h \in Hosts, NEW v \in Version
  PROVE  /\ [id |-> h, version |-> v] \in Shown
         /\ [id |-> h, version |-> v] # NoRow
BY NoRowAssumption, BoundsAssumption DEF Shown, Version

\* Rendering keeps the types of what it is given, and all but the typed text
\* and the forms.
LEMMA RenderKeeps ==
  ASSUME NEW r \in Hosts \cup {Elsewhere}, NEW p \in Page, NEW cs \in SUBSET Call,
         Render(r, p, cs)
  PROVE  /\ route' = r
         /\ page' \in Page
         /\ page'.host = p.host /\ page'.error = p.error /\ page'.loading = p.loading
         /\ calls' \subseteq Call
         /\ \A d \in calls' : \E c \in cs : SameCall(c, d)
<1>1. page' = [p EXCEPT !.typed = (p.typed /\ Form(r, p))]
  BY DEF Render
<1>2. (p.typed /\ Form(r, p)) \in BOOLEAN
  BY DEF Page, Form
<1>3. /\ page' \in Page
      /\ page'.host = p.host /\ page'.error = p.error /\ page'.loading = p.loading
  BY <1>1, <1>2 DEF Page
<1>4. CASE Form(r, p)
  BY <1>3, <1>4 DEF Render, SameCall
<1>5. CASE ~Form(r, p)
  <2>1. calls' = {[c EXCEPT !.form = FALSE] : c \in cs}
    BY <1>5 DEF Render
  <2>2. \A c \in Call : [c EXCEPT !.form = FALSE] \in Call
                        /\ SameCall(c, [c EXCEPT !.form = FALSE])
    BY DEF Call, SameCall
  <2> QED BY <1>3, <2>1, <2>2 DEF Render
<1> QED BY <1>4, <1>5

\* What leaving the page makes of its variables.
LEMMA UnmountKeeps ==
  ASSUME NEW cs \in SUBSET Call, Unmount(cs)
  PROVE  /\ route' = Elsewhere
         /\ page' \in Page
         /\ loads' = {}
         /\ calls' \subseteq Call
         /\ \A d \in calls' : \E c \in cs : SameCall(c, d)
<1>1. \A c \in Call : [c EXCEPT !.here = FALSE, !.form = FALSE] \in Call
                      /\ SameCall(c, [c EXCEPT !.here = FALSE, !.form = FALSE])
  BY DEF Call, SameCall
<1> QED BY <1>1 DEF Unmount, Mounted, Page

\* A load begins with no answer.
LEMMA FirstIsLoad ==
  ASSUME NEW h \in Hosts
  PROVE  First(h) \in Load /\ First(h).host = h /\ First(h).at = "asked"
BY BoundsAssumption DEF First, Load, Stage, Version

\* bumpRefresh starts over with a load of the Host of the URL.
LEMMA BumpKeeps ==
  ASSUME TypeOK, NEW p \in Page, NEW cs \in SUBSET Call, Bump(p, cs)
  PROVE  /\ route' = route
         /\ page' \in Page
         /\ page'.host = p.host /\ page'.error = p.error /\ page'.loading
         /\ calls' \subseteq Call
         /\ \A d \in calls' : \E c \in cs : SameCall(c, d)
         /\ loads' \subseteq Load
         /\ route \in Hosts => \A l \in loads' : l.host = route /\ l.at = "asked"
         /\ route \notin Hosts => loads' = loads
<1>1. [p EXCEPT !.loading = TRUE] \in Page
  BY DEF Page
<1>2. Render(route, [p EXCEPT !.loading = TRUE], cs)
  BY DEF Bump
<1>3. [p EXCEPT !.loading = TRUE].host = p.host
      /\ [p EXCEPT !.loading = TRUE].error = p.error
      /\ [p EXCEPT !.loading = TRUE].loading
  BY DEF Page
<1> HIDE DEF Page
<1>4. /\ route' = route
      /\ page' \in Page
      /\ page'.host = p.host /\ page'.error = p.error /\ page'.loading
      /\ calls' \subseteq Call
      /\ \A d \in calls' : \E c \in cs : SameCall(c, d)
  BY <1>1, <1>2, <1>3, RenderKeeps DEF TypeOK
<1> QED BY <1>4, FirstIsLoad DEF Bump, Rerun, TypeOK

\* An answer takes the row as it is.
LEMMA ReadKeeps ==
  ASSUME TypeOK
  PROVE  /\ \A l \in Load : Read(l) \in Load /\ Read(l).host = l.host
                            /\ Read(l).at = "answered"
                            /\ Read(l).version = db[l.host].version
         /\ \A c \in Call : Read(c) \in Call /\ Read(c).host = c.host
                            /\ Read(c).at = "answered"
                            /\ Read(c).version = db[c.host].version
<1>1. \A h \in Hosts : db[h].version \in Version
  BY DEF TypeOK
<1>2. ASSUME NEW l \in Load
      PROVE  Read(l) \in Load /\ Read(l).host = l.host /\ Read(l).at = "answered"
             /\ Read(l).version = db[l.host].version
  BY <1>1, <1>2 DEF Load, Stage, Read
<1>3. ASSUME NEW c \in Call
      PROVE  Read(c) \in Call /\ Read(c).host = c.host /\ Read(c).at = "answered"
             /\ Read(c).version = db[c.host].version
  BY <1>1, <1>3 DEF Call, Stage, Read
<1> QED BY <1>2, <1>3

\* A write to one row counts it up, within the bound, and leaves the others.
LEMMA WriteKeeps ==
  ASSUME TypeOK, NEW h \in Hosts, NEW live \in BOOLEAN, Write(h, live)
  PROVE  /\ db' \in [Hosts -> [live: BOOLEAN, version: Version]]
         /\ db'[h].version = db[h].version + 1
         /\ db[h].version + 1 \in Version
         /\ \A g \in Hosts : db[g].version <= db'[g].version
<1>1. db[h].version \in 0..MaxVersion /\ db[h].version < MaxVersion
  BY DEF TypeOK, Write, Version
<1>2. db[h].version + 1 \in Version
  BY <1>1, BoundsAssumption DEF Version
<1>3. /\ db' = [db EXCEPT ![h] = [live |-> live, version |-> db[h].version + 1]]
      /\ db' \in [Hosts -> [live: BOOLEAN, version: Version]]
  BY <1>2 DEF Write, TypeOK
<1>4. \A g \in Hosts : g # h => db'[g] = db[g]
  BY <1>3 DEF TypeOK
<1>5. db'[h].version = db[h].version + 1
  BY <1>3 DEF TypeOK
<1>6. \A g \in Hosts : db[g].version <= db'[g].version
  <2> TAKE g \in Hosts
  <2>1. db[g].version \in 0..MaxVersion
    BY DEF TypeOK, Version
  <2> QED BY <1>1, <1>4, <1>5, <2>1, BoundsAssumption
<1> QED BY <1>2, <1>3, <1>5, <1>6

\* Every action keeps the types.
LEMMA TypeInductive == TypeOK /\ [Next]_vars => TypeOK'
<1> SUFFICES ASSUME TypeOK, [Next]_vars PROVE TypeOK'
  OBVIOUS
<1>told. ASSUME NEW c \in calls, Told(c) PROVE told' \in [Hosts -> Version]
  BY <1>told DEF Told, TypeOK, Call
<1>send. ASSUME NEW h \in Hosts, NEW kind \in {"refresh", "save", "delete"}, Send(kind, h)
         PROVE  calls' \subseteq Call
  <2>1. 0 \in Version
    BY BoundsAssumption DEF Version
  <2>2. [kind |-> kind, host |-> h, at |-> "asked", version |-> 0,
         here |-> TRUE, form |-> kind = "save"] \in Call
    BY <2>1 DEF Call, Stage
  <2> QED BY <1>send, <2>2 DEF Send, TypeOK
<1>page. ASSUME NEW p \in Page, NEW e \in BOOLEAN, NEW b \in BOOLEAN
         PROVE  /\ [p EXCEPT !.error = e, !.loading = b] \in Page
                /\ [p EXCEPT !.error = e] \in Page
                /\ [p EXCEPT !.loading = b] \in Page
                /\ [p EXCEPT !.editing = b] \in Page
                /\ [p EXCEPT !.typed = b] \in Page
  BY <1>page DEF Page
<1>0. CASE UNCHANGED vars
  BY <1>0 DEF TypeOK, vars
<1>1. ASSUME NEW h \in Hosts, Open(h) PROVE TypeOK'
  <2>1. Mounted \in Page
    BY DEF Mounted, Page
  <2> DEFINE p == IF route = Elsewhere THEN Mounted ELSE page
  <2>2. [p EXCEPT !.loading = TRUE] \in Page
    BY <2>1, <1>page DEF TypeOK
  <2>3. Render(h, [p EXCEPT !.loading = TRUE], calls)
    BY <1>1 DEF Open
  <2>4. route' = h /\ page' \in Page /\ calls' \subseteq Call
    BY <2>2, <2>3, RenderKeeps DEF TypeOK
  <2> QED BY <1>1, <2>4, FirstIsLoad DEF Open, Rerun, TypeOK
<1>2. ASSUME NEW h \in Hosts, OthersWrite(h) PROVE TypeOK'
  BY <1>2, WriteKeeps DEF OthersWrite, TypeOK
<1>3. CASE Leave
  BY <1>3, UnmountKeeps DEF Leave, TypeOK
<1>4. CASE ClickRefresh
  BY <1>4, <1>send DEF ClickRefresh, Pane, TypeOK
<1>5. CASE ClickDelete
  <2>1. page.host.id \in Hosts
    BY <1>5 DEF ClickDelete, Pane, TypeOK, Page, Shown
  <2> QED BY <1>5, <2>1, <1>send DEF ClickDelete, TypeOK
<1>6. CASE ClickEdit
  BY <1>6, <1>page DEF ClickEdit, TypeOK
<1>7. CASE Type
  BY <1>7, <1>page DEF Type, TypeOK
<1>8. CASE Submit
  <2>1. page.host.id \in Hosts
    BY <1>8 DEF Submit, Form, TypeOK, Page, Shown
  <2> QED BY <1>8, <2>1, <1>send DEF Submit, TypeOK
<1>9. CASE Cancel
  BY <1>9, <1>page, RenderKeeps DEF Cancel, TypeOK
<1>10. CASE Poll
  <2>1. [First(route) EXCEPT !.first = FALSE] \in Load
    BY <1>10, FirstIsLoad DEF Poll, Load
  <2> QED BY <1>10, <2>1 DEF Poll, TypeOK
<1>11. ASSUME NEW l \in loads, ServeLoad(l) PROVE TypeOK'
  BY <1>11, ReadKeeps DEF ServeLoad, TypeOK
<1>12. ASSUME NEW l \in loads, LoadFails(l) PROVE TypeOK'
  <2>1. (page.loading /\ ~l.first) \in BOOLEAN
    BY DEF TypeOK, Page, Load
  <2>2. Render(route, [page EXCEPT !.error = TRUE, !.loading = (page.loading /\ ~l.first)], calls)
    BY <1>12 DEF LoadFails
  <2> QED BY <1>12, <2>1, <2>2, <1>page, RenderKeeps DEF LoadFails, TypeOK
<1>13. ASSUME NEW l \in loads, Loaded(l) PROVE TypeOK'
  <2> DEFINE p == [page EXCEPT !.host = Row(l), !.error = FALSE, !.typed = FALSE,
                               !.editing = (page.editing /\ ~l.first)]
  <2>1. p \in Page
    BY RowIsSome DEF TypeOK, Page, Load, Row
  <2>2. Render(route, p, calls)
    BY <1>13 DEF Loaded
  <2>3. route' = route /\ page' \in Page /\ calls' \subseteq Call
    BY <2>1, <2>2, RenderKeeps DEF TypeOK
  <2>4. [l EXCEPT !.at = "site"] \in Load
    BY DEF TypeOK, Load, Stage
  <2> QED BY <1>13, <2>3, <2>4 DEF Loaded, TypeOK
<1>14. ASSUME NEW l \in loads, SiteNamed(l) PROVE TypeOK'
  BY <1>14, <1>page, RenderKeeps DEF SiteNamed, TypeOK
<1>15. ASSUME NEW c \in calls, ServeRead(c) PROVE TypeOK'
  BY <1>15, ReadKeeps DEF ServeRead, TypeOK
<1>16. ASSUME NEW c \in calls, ServeWrite(c) PROVE TypeOK'
  <2>1. c.host \in Hosts /\ c \in Call
    BY DEF TypeOK, Call
  <2>2. /\ db' \in [Hosts -> [live: BOOLEAN, version: Version]]
        /\ db[c.host].version + 1 \in Version
    BY <1>16, <2>1, WriteKeeps DEF ServeWrite
  <2>3. [c EXCEPT !.at = "answered", !.version = db[c.host].version + 1] \in Call
    BY <2>1, <2>2 DEF Call, Stage
  <2> QED BY <1>16, <2>2, <2>3 DEF ServeWrite, TypeOK
<1>17. ASSUME NEW c \in calls, Refreshed(c) PROVE TypeOK'
  <2> DEFINE q == [page EXCEPT !.host = Row(c), !.error = FALSE, !.typed = FALSE]
             p == IF c.here THEN q ELSE page
  <2>1. q \in Page
    BY RowIsSome DEF TypeOK, Page, Call, Row
  <2>2. Bump(p, calls \ {c}) /\ p \in Page
    BY <1>17, <2>1 DEF Refreshed, TypeOK
  <2> HIDE DEF p
  <2>3. page' \in Page /\ calls' \subseteq Call /\ loads' \subseteq Load /\ route' = route
    BY <2>2, BumpKeeps DEF TypeOK
  <2> QED BY <1>17, <2>3 DEF Refreshed, TypeOK
<1>18. ASSUME NEW c \in calls, Saved(c) PROVE TypeOK'
  <2> DEFINE p == [page EXCEPT !.editing = (page.editing /\ ~c.here)]
  <2>1. p \in Page /\ Bump(p, calls \ {c})
    BY <1>18 DEF Saved, TypeOK, Page, Call
  <2> HIDE DEF p
  <2>2. page' \in Page /\ calls' \subseteq Call /\ loads' \subseteq Load /\ route' = route
    BY <2>1, BumpKeeps DEF TypeOK
  <2> QED BY <1>18, <1>told, <2>2 DEF Saved, TypeOK
<1>19. ASSUME NEW c \in calls, Deleted(c) PROVE TypeOK'
  <2>1. page' \in Page /\ calls' \subseteq Call /\ loads' = {} /\ route' = Elsewhere
    BY <1>19, UnmountKeeps DEF Deleted, TypeOK
  <2> QED BY <1>19, <1>told, <2>1 DEF Deleted, TypeOK
<1>20. ASSUME NEW c \in calls, CallFails(c) PROVE TypeOK'
  <2> DEFINE e == page.error \/ (c.here /\ c.kind # "save")
  <2>1. e \in BOOLEAN
    BY DEF TypeOK, Page, Call
  <2>2. Render(route, [page EXCEPT !.error = e], calls \ {c})
    BY <1>20 DEF CallFails
  <2> HIDE DEF e
  <2>3. [page EXCEPT !.error = e] \in Page
    BY <2>1, <1>page DEF TypeOK
  <2>4. calls \ {c} \in SUBSET Call /\ route \in Hosts \cup {Elsewhere}
    BY DEF TypeOK
  <2>5. route' = route /\ page' \in Page /\ calls' \subseteq Call
    BY <2>2, <2>3, <2>4, RenderKeeps
  <2> QED BY <1>20, <2>5 DEF CallFails, TypeOK
<1> QED
  BY <1>0, <1>1, <1>2, <1>3, <1>4, <1>5, <1>6, <1>7, <1>8, <1>9, <1>10, <1>11, <1>12,
     <1>13, <1>14, <1>15, <1>16, <1>17, <1>18, <1>19, <1>20 DEF Next

-----------------------------------------------------------------------------
(* The steps that neither bring a row nor tell of a change *)

\* What such a step may do: it shows an error, or the row stays and does not
\* become visible; its loads are those of before, or of the Host of the URL and
\* current; its answers are those of before, or past.
Quiet ==
    /\ route' = route /\ told' = told
    /\ \A h \in Hosts : db[h].version <= db'[h].version
    /\ \/ page'.error
       \/ /\ page'.host = page.host /\ page'.error = page.error
          /\ page.loading => page'.loading
    /\ \A l \in loads' :
         \/ l \in loads
         \/ /\ l.host = route
            /\ l.at = "asked" \/ (l.at = "answered" /\ l.version >= told[route])
    /\ \A d \in calls' :
         \/ \E c \in calls : SameCall(c, d)
         \/ d.at = "answered" => d.version <= db'[d.host].version

\* Versions and bounds are numbers.
LEMMA VersionIsNat == Version \subseteq Nat
BY BoundsAssumption DEF Version

\* Where a row does not change, its version does not either.
LEMMA NotBackwards == TypeOK => \A h \in Hosts : db[h].version <= db[h].version
<1> SUFFICES ASSUME TypeOK, NEW h \in Hosts PROVE db[h].version <= db[h].version
  OBVIOUS
<1>1. db[h].version \in Version
  BY DEF TypeOK
<1>2. db[h].version \in Nat
  BY <1>1, VersionIsNat
<1> QED BY <1>2

\* Answers that were there before stay in the past of the rows.
LEMMA AnswersKeep ==
  ASSUME TypeOK, TypeOK', AnswersArePast,
         \A h \in Hosts : db[h].version <= db'[h].version,
         \A d \in calls' : \/ \E c \in calls : SameCall(c, d)
                           \/ d.at = "answered" => d.version <= db'[d.host].version
  PROVE  AnswersArePast'
<1> SUFFICES ASSUME NEW d \in calls', d.at = "answered",
                    NEW c \in calls, SameCall(c, d)
             PROVE  d.version <= db'[d.host].version
  BY DEF AnswersArePast
<1>1. c.version <= db[c.host].version
  BY DEF AnswersArePast, SameCall
<1>2. c.host \in Hosts /\ c.version \in Nat
  BY VersionIsNat DEF TypeOK, Call
<1>3. db[c.host].version \in Nat /\ db'[c.host].version \in Nat
  BY <1>2, VersionIsNat DEF TypeOK
<1>4. db[c.host].version <= db'[c.host].version
  BY <1>2
<1> QED BY <1>1, <1>2, <1>3, <1>4 DEF SameCall

\* A quiet step keeps the invariant.
LEMMA QuietKeeps == PageInvariant /\ TypeOK' /\ Quiet => PageInvariant'
<1> SUFFICES ASSUME PageInvariant, TypeOK', Quiet PROVE PageInvariant'
  OBVIOUS
<1>1. ToldIsPast'
  <2> SUFFICES ASSUME NEW h \in Hosts PROVE told'[h] <= db'[h].version
    BY DEF ToldIsPast
  <2>1. told'[h] = told[h] /\ told[h] <= db[h].version /\ db[h].version <= db'[h].version
    BY DEF Quiet, PageInvariant, ToldIsPast
  <2>2. told[h] \in Nat /\ db[h].version \in Nat /\ db'[h].version \in Nat
    BY VersionIsNat DEF PageInvariant, TypeOK
  <2> QED BY <2>1, <2>2
<1>2. AnswersArePast'
  BY AnswersKeep DEF Quiet, PageInvariant
<1>3. RowIsRight /\ ~page'.error => RowIsRight'
  BY DEF Quiet, RowIsRight
<1>4. LoadsAreCurrent'
  <2> SUFFICES ASSUME NEW l \in loads'
               PROVE  /\ l.host = route'
                      /\ l.at # "asked" => l.version >= told'[route']
                      /\ l.at = "site" => page'.error \/ RowIsRight'
    BY DEF LoadsAreCurrent
  <2>1. CASE l \in loads
    <3>1. page.error => page'.error
      BY DEF Quiet
    <3> QED BY <2>1, <3>1, <1>3 DEF Quiet, PageInvariant, LoadsAreCurrent
  <2>2. CASE /\ l.host = route
             /\ l.at = "asked" \/ (l.at = "answered" /\ l.version >= told[route])
    BY <2>2 DEF Quiet
  <2> QED BY <2>1, <2>2 DEF Quiet
<1>5. Settled' => RowIsRight'
  <2>1. Settled' => Settled /\ ~page'.error
    BY DEF Quiet, Settled
  <2> QED BY <2>1, <1>3 DEF PageInvariant
<1> QED BY <1>1, <1>2, <1>4, <1>5 DEF PageInvariant

-----------------------------------------------------------------------------
(* The steps that bring a row or tell of a change *)

\* bumpRefresh, after a change of the row and of what was told: what is left is
\* a load that was not answered yet, and a page that is loading.
LEMMA BumpIsSafe ==
  ASSUME PageInvariant, TypeOK', NEW p \in Page, NEW cs \in SUBSET calls, Bump(p, cs),
         db' = db, ToldIsPast'
  PROVE  PageInvariant'
<1>1. cs \in SUBSET Call
  BY DEF PageInvariant, TypeOK
<1>2. /\ route' = route /\ page'.loading
      /\ \A d \in calls' : \E c \in cs : SameCall(c, d)
      /\ route \in Hosts => \A l \in loads' : l.host = route /\ l.at = "asked"
      /\ route \notin Hosts => loads' = loads
  BY <1>1, BumpKeeps DEF PageInvariant
<1>3. AnswersArePast'
  <2>1. \A h \in Hosts : db[h].version <= db'[h].version
    BY NotBackwards DEF PageInvariant
  <2>2. \A d \in calls' : \E c \in calls : SameCall(c, d)
    BY <1>2
  <2> QED BY <2>1, <2>2, AnswersKeep DEF PageInvariant
<1>4. LoadsAreCurrent'
  <2>1. \A l \in loads : l.host \in Hosts /\ l.host = route
    BY DEF PageInvariant, TypeOK, Load, LoadsAreCurrent
  <2>2. \A l \in loads' : l.host = route /\ l.at = "asked"
    BY <1>2, <2>1
  <2> QED BY <1>2, <2>2 DEF LoadsAreCurrent
<1>5. ~Settled'
  BY <1>2 DEF Settled
<1> QED BY <1>3, <1>4, <1>5 DEF PageInvariant

\* Leaving the page takes its loads along.
LEMMA UnmountIsSafe ==
  ASSUME PageInvariant, TypeOK', NEW cs \in SUBSET calls, Unmount(cs),
         db' = db, ToldIsPast'
  PROVE  PageInvariant'
<1>1. cs \in SUBSET Call
  BY DEF PageInvariant, TypeOK
<1>2. /\ route' = Elsewhere /\ loads' = {}
      /\ \A d \in calls' : \E c \in calls : SameCall(c, d)
  BY <1>1, UnmountKeeps
<1>3. AnswersArePast'
  <2>1. \A h \in Hosts : db[h].version <= db'[h].version
    BY NotBackwards DEF PageInvariant
  <2> QED BY <1>2, <2>1, AnswersKeep DEF PageInvariant
<1> QED BY <1>2, <1>3, ElsewhereAssumption DEF PageInvariant, LoadsAreCurrent, Settled

\* The tab is told of what the Server has done.
LEMMA ToldStaysPast ==
  ASSUME PageInvariant, NEW c \in calls, c.at = "answered", Told(c), db' = db
  PROVE  ToldIsPast'
<1>1. c.host \in Hosts /\ c.version <= db[c.host].version
  BY DEF PageInvariant, TypeOK, Call, AnswersArePast
<1> QED BY <1>1 DEF PageInvariant, TypeOK, Told, ToldIsPast

\* Every action keeps the invariant.
LEMMA PageInductive == PageInvariant /\ [Next]_vars => PageInvariant'
<1> SUFFICES ASSUME PageInvariant, [Next]_vars PROVE PageInvariant'
  OBVIOUS
<1>type. TypeOK /\ TypeOK'
  BY TypeInductive DEF PageInvariant
<1>same. db' = db => \A h \in Hosts : db[h].version <= db'[h].version
  BY <1>type, NotBackwards
<1>calls. \A d \in calls : \E c \in calls : SameCall(c, d)
  BY DEF SameCall
<1>0. CASE UNCHANGED vars
  BY <1>0, <1>type, <1>same, <1>calls, QuietKeeps DEF vars, Quiet
<1>1. ASSUME NEW h \in Hosts, Open(h) PROVE PageInvariant'
  <2> DEFINE p == [(IF route = Elsewhere THEN Mounted ELSE page) EXCEPT !.loading = TRUE]
  <2>1. p \in Page /\ p.loading
    BY <1>type DEF TypeOK, Mounted, Page
  <2>2. Render(h, p, calls) /\ loads' = {First(h)} /\ db' = db /\ told' = told
    BY <1>1 DEF Open, Rerun
  <2> HIDE DEF p
  <2>3. /\ route' = h /\ page'.loading
        /\ \A d \in calls' : \E c \in calls : SameCall(c, d)
    BY <1>type, <2>1, <2>2, RenderKeeps DEF TypeOK
  <2>4. AnswersArePast'
    BY <1>type, <1>same, <2>2, <2>3, AnswersKeep DEF PageInvariant
  <2> QED
    BY <1>type, <2>2, <2>3, <2>4, FirstIsLoad
    DEF PageInvariant, ToldIsPast, LoadsAreCurrent, Settled
<1>2. ASSUME NEW h \in Hosts, OthersWrite(h) PROVE PageInvariant'
  <2>1. Quiet
    BY <1>2, <1>type, <1>calls, WriteKeeps DEF OthersWrite, Quiet
  <2> QED BY <2>1, <1>type, QuietKeeps
<1>3. CASE Leave
  BY <1>3, <1>type, UnmountIsSafe DEF Leave, PageInvariant, ToldIsPast
<1>send. ASSUME NEW h \in Hosts, NEW kind \in {"refresh", "save", "delete"}, Send(kind, h)
         PROVE  \A d \in calls' : \/ \E c \in calls : SameCall(c, d)
                                  \/ d.at = "answered" => d.version <= db'[d.host].version
  BY <1>send, <1>calls DEF Send
<1>4. CASE ClickRefresh
  <2>1. Quiet
    BY <1>4, <1>same, <1>send DEF ClickRefresh, Pane, Quiet
  <2> QED BY <2>1, <1>type, QuietKeeps
<1>5. CASE ClickDelete
  <2>1. page.host.id \in Hosts
    BY <1>5, <1>type DEF ClickDelete, Pane, TypeOK, Page, Shown
  <2>2. Quiet
    BY <1>5, <1>same, <1>send, <2>1 DEF ClickDelete, Quiet
  <2> QED BY <2>2, <1>type, QuietKeeps
<1>6. CASE ClickEdit
  <2>1. page'.host = page.host /\ page'.error = page.error /\ page'.loading = page.loading
    BY <1>6, <1>type DEF ClickEdit, TypeOK, Page
  <2>2. Quiet
    BY <1>6, <1>same, <1>calls, <2>1 DEF ClickEdit, Quiet
  <2> QED BY <2>2, <1>type, QuietKeeps
<1>7. CASE Type
  <2>1. page'.host = page.host /\ page'.error = page.error /\ page'.loading = page.loading
    BY <1>7, <1>type DEF Type, TypeOK, Page
  <2>2. Quiet
    BY <1>7, <1>same, <1>calls, <2>1 DEF Type, Quiet
  <2> QED BY <2>2, <1>type, QuietKeeps
<1>8. CASE Submit
  <2>1. page.host.id \in Hosts
    BY <1>8, <1>type DEF Submit, Form, TypeOK, Page, Shown
  <2>2. Quiet
    BY <1>8, <1>same, <1>send, <2>1 DEF Submit, Quiet
  <2> QED BY <2>2, <1>type, QuietKeeps
<1>9. CASE Cancel
  <2> DEFINE p == [page EXCEPT !.editing = FALSE]
  <2>1. p \in Page /\ p.host = page.host /\ p.error = page.error /\ p.loading = page.loading
    BY <1>type DEF TypeOK, Page
  <2>2. Render(route, p, calls)
    BY <1>9 DEF Cancel
  <2> HIDE DEF p
  <2>3. /\ route' = route /\ page'.host = page.host
        /\ page'.error = page.error /\ page'.loading = page.loading
        /\ \A d \in calls' : \E c \in calls : SameCall(c, d)
    BY <1>type, <2>1, <2>2, RenderKeeps DEF TypeOK
  <2>4. Quiet
    BY <1>9, <1>same, <2>3 DEF Cancel, Quiet
  <2> QED BY <2>4, <1>type, QuietKeeps
<1>10. CASE Poll
  <2>1. [First(route) EXCEPT !.first = FALSE].host = route
        /\ [First(route) EXCEPT !.first = FALSE].at = "asked"
    BY DEF First
  <2>2. Quiet
    BY <1>10, <1>same, <1>calls, <2>1 DEF Poll, Quiet
  <2> QED BY <2>2, <1>type, QuietKeeps
<1>11. ASSUME NEW l \in loads, ServeLoad(l) PROVE PageInvariant'
  <2>1. l \in Load /\ l.host \in Hosts /\ l.host = route
    BY <1>type DEF TypeOK, Load, PageInvariant, LoadsAreCurrent
  <2>2. Read(l).host = route /\ Read(l).at = "answered" /\ Read(l).version >= told[route]
    BY <1>type, <2>1, ReadKeeps, VersionIsNat DEF PageInvariant, ToldIsPast, TypeOK
  <2>3. Quiet
    BY <1>11, <1>same, <1>calls, <2>2 DEF ServeLoad, Quiet
  <2> QED BY <2>3, <1>type, QuietKeeps
<1>12. ASSUME NEW l \in loads, LoadFails(l) PROVE PageInvariant'
  <2> DEFINE p == [page EXCEPT !.error = TRUE, !.loading = (page.loading /\ ~l.first)]
  <2>1. p \in Page /\ p.error
    BY <1>type DEF TypeOK, Page, Load
  <2>2. Render(route, p, calls)
    BY <1>12 DEF LoadFails
  <2> HIDE DEF p
  <2>3. route' = route /\ page'.error /\ \A d \in calls' : \E c \in calls : SameCall(c, d)
    BY <1>type, <2>1, <2>2, RenderKeeps DEF TypeOK
  <2>4. Quiet
    BY <1>12, <1>same, <2>3 DEF LoadFails, Quiet
  <2> QED BY <2>4, <1>type, QuietKeeps
<1>13. ASSUME NEW l \in loads, Loaded(l) PROVE PageInvariant'
  <2> DEFINE p == [page EXCEPT !.host = Row(l), !.error = FALSE, !.typed = FALSE,
                               !.editing = (page.editing /\ ~l.first)]
  <2>1. l \in Load /\ l.host = route /\ route \in Hosts /\ l.version >= told[route]
    BY <1>13, <1>type DEF TypeOK, Load, PageInvariant, LoadsAreCurrent, Loaded
  <2>2. Row(l) \in Shown /\ Row(l) # NoRow /\ Row(l).id = route /\ Row(l).version = l.version
    BY <2>1, RowIsSome DEF Row, Load
  <2>3. p \in Page /\ p.host = Row(l)
    BY <1>type, <2>1, <2>2 DEF TypeOK, Page, Load
  <2>4. Render(route, p, calls)
    BY <1>13 DEF Loaded
  <2> HIDE DEF p
  <2>5. /\ route' = route /\ page'.host = Row(l)
        /\ \A d \in calls' : \E c \in calls : SameCall(c, d)
    BY <1>type, <2>3, <2>4, RenderKeeps DEF TypeOK
  <2>6. RowIsRight'
    BY <1>13, <2>1, <2>2, <2>5 DEF Loaded, RowIsRight
  <2>7. LoadsAreCurrent'
    <3>1. [l EXCEPT !.at = "site"].host = l.host
          /\ [l EXCEPT !.at = "site"].version = l.version
      BY <2>1 DEF Load
    <3> QED BY <1>13, <2>1, <2>5, <2>6, <3>1 DEF Loaded, PageInvariant, LoadsAreCurrent
  <2>8. AnswersArePast'
    BY <1>13, <1>type, <1>same, <2>5, AnswersKeep DEF Loaded, PageInvariant
  <2> QED BY <1>13, <1>type, <2>6, <2>7, <2>8 DEF Loaded, PageInvariant, ToldIsPast
<1>14. ASSUME NEW l \in loads, SiteNamed(l) PROVE PageInvariant'
  <2> DEFINE p == [page EXCEPT !.loading = FALSE]
  <2>1. p \in Page /\ p.host = page.host /\ p.error = page.error
    BY <1>type DEF TypeOK, Page
  <2>2. Render(route, p, calls)
    BY <1>14 DEF SiteNamed
  <2> HIDE DEF p
  <2>3. /\ route' = route /\ page'.host = page.host /\ page'.error = page.error
        /\ \A d \in calls' : \E c \in calls : SameCall(c, d)
    BY <1>type, <2>1, <2>2, RenderKeeps DEF TypeOK
  <2>4. page.error \/ RowIsRight
    BY <1>14 DEF SiteNamed, PageInvariant, LoadsAreCurrent
  <2>5. RowIsRight => RowIsRight'
    BY <1>14, <2>3 DEF SiteNamed, RowIsRight
  <2>6. LoadsAreCurrent'
    BY <1>14, <2>3, <2>4, <2>5 DEF SiteNamed, PageInvariant, LoadsAreCurrent
  <2>7. AnswersArePast'
    BY <1>14, <1>type, <1>same, <2>3, AnswersKeep DEF SiteNamed, PageInvariant
  <2> QED
    BY <1>14, <1>type, <2>3, <2>4, <2>5, <2>6, <2>7
    DEF SiteNamed, PageInvariant, ToldIsPast, Settled
<1>15. ASSUME NEW c \in calls, ServeRead(c) PROVE PageInvariant'
  <2>1. Read(c).version = db[c.host].version /\ Read(c).host = c.host /\ c.host \in Hosts
    BY <1>type, ReadKeeps DEF TypeOK, Call
  <2>2. db[c.host].version <= db[c.host].version
    BY <1>type, <2>1, NotBackwards
  <2>3. Quiet
    BY <1>15, <1>same, <1>calls, <2>1, <2>2 DEF ServeRead, Quiet
  <2> QED BY <2>3, <1>type, QuietKeeps
<1>16. ASSUME NEW c \in calls, ServeWrite(c) PROVE PageInvariant'
  <2> DEFINE d == [c EXCEPT !.at = "answered", !.version = db[c.host].version + 1]
  <2>1. c.host \in Hosts /\ d.host = c.host /\ d.version = db[c.host].version + 1
    BY <1>type DEF TypeOK, Call
  <2>2. /\ db'[c.host].version = db[c.host].version + 1
        /\ db[c.host].version + 1 \in Nat
        /\ \A g \in Hosts : db[g].version <= db'[g].version
    BY <1>16, <1>type, <2>1, WriteKeeps, VersionIsNat DEF ServeWrite
  <2>3. d.version <= db'[d.host].version
    BY <2>1, <2>2
  <2>4. calls' = (calls \ {c}) \cup {d}
    BY <1>16 DEF ServeWrite
  <2> HIDE DEF d
  <2>5. Quiet
    BY <1>16, <1>calls, <2>2, <2>3, <2>4 DEF ServeWrite, Quiet
  <2> QED BY <2>5, <1>type, QuietKeeps
<1>17. ASSUME NEW c \in calls, Refreshed(c) PROVE PageInvariant'
  <2> DEFINE p == IF c.here THEN [page EXCEPT !.host = Row(c), !.error = FALSE, !.typed = FALSE]
                            ELSE page
  <2>1. p \in Page /\ Bump(p, calls \ {c})
    BY <1>17, <1>type, RowIsSome DEF Refreshed, TypeOK, Page, Call, Row
  <2> HIDE DEF p
  <2> QED
    BY <1>17, <1>type, <2>1, BumpIsSafe DEF Refreshed, PageInvariant, ToldIsPast
<1>18. ASSUME NEW c \in calls, Saved(c) PROVE PageInvariant'
  <2> DEFINE p == [page EXCEPT !.editing = (page.editing /\ ~c.here)]
  <2>1. p \in Page /\ Bump(p, calls \ {c})
    BY <1>18, <1>type DEF Saved, TypeOK, Page, Call
  <2> HIDE DEF p
  <2> QED BY <1>18, <1>type, <2>1, BumpIsSafe, ToldStaysPast DEF Saved
<1>19. ASSUME NEW c \in calls, Deleted(c) PROVE PageInvariant'
  BY <1>19, <1>type, UnmountIsSafe, ToldStaysPast DEF Deleted
<1>20. ASSUME NEW c \in calls, CallFails(c) PROVE PageInvariant'
  <2> DEFINE e == page.error \/ (c.here /\ c.kind # "save")
             p == [page EXCEPT !.error = e]
  <2>1. p \in Page /\ p.host = page.host /\ p.loading = page.loading
        /\ (p.error = page.error \/ p.error)
    BY <1>type DEF TypeOK, Page, Call
  <2>2. Render(route, p, calls \ {c})
    BY <1>20 DEF CallFails
  <2> HIDE DEF e, p
  <2>3. calls \ {c} \in SUBSET Call /\ route \in Hosts \cup {Elsewhere}
    BY <1>type DEF TypeOK
  <2>4. /\ route' = route /\ page'.host = page.host /\ page'.loading = page.loading
        /\ page'.error = page.error \/ page'.error
        /\ \A d \in calls' : \E b \in calls : SameCall(b, d)
    BY <2>1, <2>2, <2>3, RenderKeeps
  <2>5. Quiet
    BY <1>20, <1>same, <2>4 DEF CallFails, Quiet
  <2> QED BY <2>5, <1>type, QuietKeeps
<1> QED
  BY <1>0, <1>1, <1>2, <1>3, <1>4, <1>5, <1>6, <1>7, <1>8, <1>9, <1>10, <1>11, <1>12,
     <1>13, <1>14, <1>15, <1>16, <1>17, <1>18, <1>19, <1>20 DEF Next

\* A page that is not open satisfies the invariant.
LEMMA PageInitial == Init => PageInvariant
<1> SUFFICES ASSUME Init PROVE PageInvariant
  OBVIOUS
<1>1. 0 \in Version /\ Mounted \in Page
  BY BoundsAssumption DEF Version, Mounted, Page
<1>2. TypeOK
  BY <1>1 DEF Init, TypeOK
<1> QED
  BY <1>2, ElsewhereAssumption
  DEF Init, PageInvariant, ToldIsPast, AnswersArePast, LoadsAreCurrent, Settled

-----------------------------------------------------------------------------
\* In every state of HostDetail the loads that still count are for the Host of
\* the URL and newer than the last change the tab was told of, and so is what a
\* page without an error shows.
THEOREM PageCorrect == Spec => []PageInvariant
BY PageInitial, PageInductive, PTL DEF Spec

\* However slow the answers for the Host one came from, HostDetail does not show
\* them under the URL of another.
THEOREM HostIsTheUrls == Spec => []NoForeignHost
<1>1. PageInvariant => NoForeignHost
  BY DEF PageInvariant, NoForeignHost, RowIsRight
<1> QED BY <1>1, PageCorrect, PTL

\* A row is not shown as it was before the last save or delete that bumpRefresh
\* was called for.
THEOREM SavesStick == Spec => []SavedSticks
<1>1. PageInvariant => SavedSticks
  BY DEF PageInvariant, SavedSticks, RowIsRight
<1> QED BY <1>1, PageCorrect, PTL
=============================================================================

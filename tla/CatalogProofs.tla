--------------------------- MODULE CatalogProofs ----------------------------
(***************************************************************************)
(* What is stored.                                                         *)
(*                                                                         *)
(* The references of the catalogue, for any number of requests, Sites,     *)
(* Credentials, Hosts and Agents and whatever connections enforce foreign  *)
(* keys: they are lost in races only.                                      *)
(*                                                                         *)
(* One Credential keeps its parts together: VaultInvariant is inductive,   *)
(* since it speaks of the rows in memory as well as of the row in the      *)
(* table, because a write brings back a whole row read any number of       *)
(* updates ago.  The form is one more client of the vault, so the same     *)
(* invariant holds behind it; what it promises its operator follows from   *)
(* how the fields of a form, and of the save it is in, belong together.    *)
(***************************************************************************)
EXTENDS Catalog, CredentialForm, TLAPS

-----------------------------------------------------------------------------
(* The references of the catalogue *)

\* Every action keeps the types.
LEMMA TypeInductive == TypeOK /\ [Next]_vars => TypeOK'
<1> SUFFICES ASSUME TypeOK, [Next]_vars PROVE TypeOK'
  OBVIOUS
<1> USE DefaultAssumption, NoneAssumption, LabelAssumption
<1>write. ASSUME NEW q \in Requests,
                 req[q].st \in {"insert", "update"} \/ req[q].checks # {}
          PROVE  req[q] \in WriteRequest
  <2>1. req[q] # Idle
    BY <1>write DEF Idle
  <2>2. \A d \in DeleteRequest : d.st = "deleteSite" /\ d.checks = {}
    BY DEF DeleteRequest
  <2>3. req[q] \notin DeleteRequest
    BY <1>write, <2>2
  <2> QED BY <2>1, <2>3 DEF TypeOK
<1>history. crossed' \subseteq Sites \cup Creds /\ kept' \subseteq Creds
  <2>1. crossed \cup Crossing(req') \subseteq Sites \cup Creds
    BY DEF Crossing, TypeOK
  <2>2. ASSUME NEW r \in Requests,
               SiteCount(r) \/ SiteDelete(r) \/ HostCreate(r) \/ HostUpdateRead(r)
                 \/ EnsureSite(r) \/ EnsureCredential(r) \/ AgentRead(r) \/ AgentEnrol(r)
                 \/ Insert(r) \/ Update(r)
        PROVE  crossed' = crossed \cup Crossing(req') /\ kept' = kept
    BY <2>2 DEF SiteCount, SiteDelete, HostCreate, HostUpdateRead, EnsureSite,
                EnsureCredential, AgentRead, AgentEnrol, Insert, Update, Answer, Goto
  <2>3. ASSUME NEW r \in Requests, CredentialDelete(r)
        PROVE  crossed' \subseteq Sites \cup Creds /\ kept' \subseteq Creds
    BY <2>3 DEF CredentialDelete, TypeOK
  <2>4. ASSUME NEW r \in Requests, SiteCreate(r) \/ CredentialCreate(r) \/ HostDelete(r)
        PROVE  UNCHANGED <<crossed, kept>>
    BY <2>4 DEF SiteCreate, CredentialCreate, HostDelete
  <2> QED BY <2>1, <2>2, <2>3, <2>4 DEF Next, Portal, vars, TypeOK
<1>answer. ASSUME NEW q \in Requests, Answer(q)
           PROVE  req' \in [Requests -> WriteRequest \cup DeleteRequest \cup {Idle}]
  BY <1>answer DEF Answer, Goto, TypeOK
<1>looked. ASSUME NEW q \in Requests, NEW C \in SUBSET {"site", "cred"},
                  req[q] \in WriteRequest, Goto(q, [req[q] EXCEPT !.checks = C])
           PROVE  req' \in [Requests -> WriteRequest \cup DeleteRequest \cup {Idle}]
  <2>1. [req[q] EXCEPT !.checks = C] \in WriteRequest
    BY <1>looked DEF WriteRequest
  <2> QED BY <1>looked, <2>1 DEF Goto, TypeOK
<1>1. CASE UNCHANGED vars
  BY <1>history, <1>1 DEF TypeOK, vars
<1>2. ASSUME NEW r \in Requests, SiteCreate(r) PROVE TypeOK'
  BY <1>history, <1>2 DEF SiteCreate, TypeOK
<1>3. ASSUME NEW r \in Requests, SiteCount(r) PROVE TypeOK'
  <2>1. PICK s \in sites :
          req' = [req EXCEPT ![r] = [Idle EXCEPT !.st = "deleteSite", !.row.site = s]]
    BY <1>3 DEF SiteCount, Goto
  <2>2. [Idle EXCEPT !.st = "deleteSite", !.row.site = s] \in DeleteRequest
    BY DEF Idle, NoHost, DeleteRequest, TypeOK
  <2> QED BY <1>history, <1>3, <2>1, <2>2 DEF SiteCount, TypeOK
<1>4. ASSUME NEW r \in Requests, SiteDelete(r) PROVE TypeOK'
  BY <1>history, <1>4 DEF SiteDelete, Answer, Goto, TypeOK
<1>5. ASSUME NEW r \in Requests, CredentialCreate(r) PROVE TypeOK'
  BY <1>history, <1>5 DEF CredentialCreate, TypeOK
<1>6. ASSUME NEW r \in Requests, CredentialDelete(r) PROVE TypeOK'
  <2>1. hosts' \in [Hosts -> Row \cup {NoHost}]
    BY <1>6 DEF CredentialDelete, TypeOK, Row, NoHost
  <2> QED BY <1>history, <1>6, <2>1 DEF CredentialDelete, TypeOK
<1>7. ASSUME NEW r \in Requests, HostCreate(r) PROVE TypeOK'
  <2>1. PICK h \in NewHosts, s \in Sites, c \in Creds \cup {None},
             l \in Labels \cup {NoLabel} :
          req' = [req EXCEPT ![r] =
                    [st |-> "insert", host |-> h, agent |-> FALSE,
                     checks |-> {"site"} \cup (IF c = None THEN {} ELSE {"cred"}),
                     row |-> [site |-> s, cred |-> c, fp |-> None, label |-> l]]]
    BY <1>7 DEF HostCreate, Goto
  <2> QED BY <1>history, <1>7, <2>1 DEF HostCreate, NewHosts, TypeOK, WriteRequest, Row
<1>8. ASSUME NEW r \in Requests, HostUpdateRead(r) PROVE TypeOK'
  <2>1. PICK h \in Live, fields \in SUBSET {"site", "cred", "label"}, s \in Sites,
             c \in Creds \cup {None}, l \in Labels \cup {NoLabel} :
          req' = [req EXCEPT ![r] =
                    [st |-> "update", host |-> h, agent |-> FALSE,
                     checks |-> (fields \ {"label"}) \ (IF c = None THEN {"cred"} ELSE {}),
                     row |-> [hosts[h] EXCEPT !.site = IF "site" \in fields THEN s ELSE @,
                                              !.cred = IF "cred" \in fields THEN c ELSE @,
                                              !.label = IF "label" \in fields THEN l ELSE @]]]
    BY <1>8, Zenon DEF HostUpdateRead, Goto
  <2>2. hosts[h] \in Row
    BY DEF TypeOK, Live
  <2>3. [hosts[h] EXCEPT !.site = IF "site" \in fields THEN s ELSE @,
                         !.cred = IF "cred" \in fields THEN c ELSE @,
                         !.label = IF "label" \in fields THEN l ELSE @] \in Row
    BY <2>2 DEF Row
  <2>4. h \in Hosts
    BY DEF Live
  <2>5. (fields \ {"label"}) \ (IF c = None THEN {"cred"} ELSE {}) \in SUBSET {"site", "cred"}
    OBVIOUS
  <2>6. req'[r] \in WriteRequest
    BY <2>1, <2>3, <2>4, <2>5 DEF TypeOK, WriteRequest
  <2>7. req' = [req EXCEPT ![r] = req'[r]]
    BY <2>1 DEF TypeOK
  <2> QED BY <1>history, <1>8, <2>6, <2>7 DEF HostUpdateRead, TypeOK
<1>9. ASSUME NEW r \in Requests, EnsureSite(r) PROVE TypeOK'
  <2>1. req[r] \in WriteRequest
    BY <1>9, <1>write DEF EnsureSite
  <2>2. req[r].checks \ {"site"} \in SUBSET {"site", "cred"}
    BY <2>1 DEF WriteRequest
  <2>3. Goto(r, [req[r] EXCEPT !.checks = req[r].checks \ {"site"}]) \/ Answer(r)
    BY <1>9 DEF EnsureSite, Goto
  <2>4. req' \in [Requests -> WriteRequest \cup DeleteRequest \cup {Idle}]
    BY <2>1, <2>2, <2>3, <1>answer, <1>looked
  <2> QED BY <1>history, <1>9, <2>4 DEF EnsureSite, TypeOK
<1>10. ASSUME NEW r \in Requests, EnsureCredential(r) PROVE TypeOK'
  <2>1. req[r] \in WriteRequest
    BY <1>10, <1>write DEF EnsureCredential
  <2>2. Goto(r, [req[r] EXCEPT !.checks = {}]) \/ Answer(r)
    BY <1>10 DEF EnsureCredential
  <2>3. req' \in [Requests -> WriteRequest \cup DeleteRequest \cup {Idle}]
    <3>1. CASE Answer(r)
      BY <3>1, <1>answer
    <3>2. CASE Goto(r, [req[r] EXCEPT !.checks = {}])
      <4>1. {} \in SUBSET {"site", "cred"}
        OBVIOUS
      <4> QED BY <2>1, <3>2, <4>1, <1>looked
    <3> QED BY <2>2, <3>1, <3>2
  <2> QED BY <1>history, <1>10, <2>3 DEF EnsureCredential, TypeOK
<1>11. ASSUME NEW r \in Requests, HostDelete(r) PROVE TypeOK'
  BY <1>history, <1>11 DEF HostDelete, TypeOK
<1>12. ASSUME NEW r \in Requests, AgentRead(r) PROVE TypeOK'
  <2>1. PICK h \in Live :
          req' = [req EXCEPT ![r] = [st |-> "update", host |-> h, agent |-> TRUE,
                                     checks |-> {}, row |-> hosts[h]]]
    BY <1>12 DEF AgentRead, Goto
  <2>2. hosts[h] \in Row /\ h \in Hosts
    BY DEF TypeOK, Live
  <2> QED BY <1>history, <1>12, <2>1, <2>2 DEF AgentRead, TypeOK, WriteRequest, DeleteRequest
<1>13. ASSUME NEW r \in Requests, AgentEnrol(r) PROVE TypeOK'
  <2>1. PICK a \in Agents, h \in NewHosts :
          req' = [req EXCEPT ![r] =
                    [st |-> "insert", host |-> h, agent |-> TRUE, checks |-> {},
                     row |-> [site |-> DefaultSite, cred |-> None, fp |-> a,
                              label |-> NoLabel]]]
    BY <1>13 DEF AgentEnrol, Goto
  <2> QED BY <1>history, <1>13, <2>1 DEF AgentEnrol, NewHosts, TypeOK, WriteRequest, Row
<1>14. ASSUME NEW r \in Requests, Insert(r) PROVE TypeOK'
  <2>1. req[r].host \in Hosts /\ req[r].row \in Row
    BY <1>14, <1>write DEF Insert, Pending, WriteRequest
  <2>2. req' \in [Requests -> WriteRequest \cup DeleteRequest \cup {Idle}]
    BY <1>14, <1>answer DEF Insert
  <2>3. hosts' \in [Hosts -> Row \cup {NoHost}] /\ used' \subseteq Sites \cup Creds \cup Hosts
    BY <1>14, <2>1 DEF Insert, TypeOK
  <2> QED BY <1>history, <1>14, <2>2, <2>3 DEF Insert, TypeOK
<1>15. ASSUME NEW r \in Requests, Update(r) PROVE TypeOK'
  <2>1. req[r].host \in Hosts /\ req[r].row \in Row
    BY <1>15, <1>write DEF Update, Pending, WriteRequest
  <2>2. req' \in [Requests -> WriteRequest \cup DeleteRequest \cup {Idle}]
    BY <1>15, <1>answer DEF Update
  <2>3. hosts' \in [Hosts -> Row \cup {NoHost}]
    BY <1>15, <2>1 DEF Update, TypeOK
  <2> QED BY <1>history, <1>15, <2>2, <2>3 DEF Update, TypeOK
<1> QED
  BY <1>1, <1>2, <1>3, <1>4, <1>5, <1>6, <1>7, <1>8, <1>9, <1>10, <1>11, <1>12, <1>13,
     <1>14, <1>15 DEF Next, Portal

\* The types hold: in particular a Host that exists has a Site at all, which no
\* ON DELETE clause takes from it.
THEOREM TypeCorrect == Spec => []TypeOK
<1>1. Init => TypeOK
  BY DefaultAssumption DEF Init, TypeOK
<1> QED BY <1>1, TypeInductive, PTL DEF Spec

-----------------------------------------------------------------------------
\* ReferenceInvariant is inductive.
LEMMA ReferenceStep ==
  ASSUME TypeOK, ReferenceInvariant, [Next]_vars
  PROVE  ReferenceInvariant'
<1> USE DEF ReferenceInvariant, SiteLostOnlyInRace, LinkLostOnlyInRace, Live
\* A request begins, or makes one of its checks.
<1>goto. ASSUME NEW r \in Requests, NEW next, Goto(r, next),
                UNCHANGED <<sites, creds, hosts, kept>>,
                next.st \in {"insert", "update"} =>
                  /\ "site" \notin next.checks => Grounded(next.row)
                  /\ "cred" \notin next.checks => Linked(next.row),
                next.st = "deleteSite" =>
                  next.row.site \in crossed \/ \A h \in Live : hosts[h].site # next.row.site
         PROVE  ReferenceInvariant'
  <2>1. req' = [req EXCEPT ![r] = next] /\ crossed \subseteq crossed'
        /\ Crossing(req') \subseteq crossed'
    BY <1>goto DEF Goto
  <2>2. \A w : (Grounded(w) => Grounded(w)') /\ (Linked(w) => Linked(w)')
    BY <1>goto, <2>1 DEF Grounded, Linked
  <2>3. \A q \in Requests : req'[q] = IF q = r THEN next ELSE req[q]
    BY <2>1 DEF TypeOK
  <2> QED BY <1>goto, <2>1, <2>2, <2>3
<1>1. CASE UNCHANGED vars
  BY <1>1 DEF vars, Grounded, Linked
<1>2. ASSUME NEW r \in Requests, SiteCreate(r) \/ CredentialCreate(r) \/ HostDelete(r)
      PROVE  ReferenceInvariant'
  <2>1. /\ UNCHANGED <<req, crossed, kept>>
        /\ sites \subseteq sites' /\ creds \subseteq creds'
        /\ \A h \in Hosts : hosts'[h] = hosts[h] \/ hosts'[h] = NoHost
    BY <1>2 DEF SiteCreate, CredentialCreate, HostDelete, TypeOK
  <2>2. \A w : (Grounded(w) => Grounded(w)') /\ (Linked(w) => Linked(w)')
    BY <2>1 DEF Grounded, Linked
  <2> QED BY <2>1, <2>2
<1>3. ASSUME NEW r \in Requests, SiteCount(r) PROVE ReferenceInvariant'
  <2>1. PICK s \in sites :
          /\ \A h \in Live : hosts[h].site # s
          /\ Goto(r, [Idle EXCEPT !.st = "deleteSite", !.row.site = s])
    BY <1>3 DEF SiteCount
  <2> DEFINE next == [Idle EXCEPT !.st = "deleteSite", !.row.site = s]
  <2>2. next.st = "deleteSite" /\ next.row.site = s
    BY DEF Idle, NoHost
  <2>3. UNCHANGED <<sites, creds, hosts, kept>>
    BY <1>3 DEF SiteCount
  <2> HIDE DEF next
  <2> QED BY <1>goto, <2>1, <2>2, <2>3 DEF next
\* The Site goes: what is left of it is crossed or an Agent's.
<1>4. ASSUME NEW r \in Requests, SiteDelete(r) PROVE ReferenceInvariant'
  <2>1. /\ req[r].st = "deleteSite" /\ req' = [req EXCEPT ![r] = Idle]
        /\ UNCHANGED <<creds, hosts, kept>>
        /\ crossed \subseteq crossed' /\ Crossing(req') \subseteq crossed'
        /\ sites \ {req[r].row.site} \subseteq sites'
    BY <1>4 DEF SiteDelete, Pending, Answer, Goto
  <2>2. req[r].row.site \in Sites
    <3>1. req[r] \in DeleteRequest
      BY <2>1 DEF TypeOK, WriteRequest, Idle
    <3> QED BY <3>1 DEF DeleteRequest, NoHost
  <2>3. \A w : Linked(w) => Linked(w)'
    BY <2>1 DEF Linked
  <2>4. ASSUME NEW w, Grounded(w), w.site = req[r].row.site => w.site \in crossed
        PROVE  Grounded(w)'
    BY <2>1, <2>4 DEF Grounded
  <2>5. \A q \in Requests \ {r} : req'[q] = req[q]
    BY <2>1 DEF TypeOK
  <2>6. req'[r].st = "idle"
    BY <2>1 DEF TypeOK, Idle
  <2>7. \A h \in Live : Grounded(hosts[h])'
    BY <2>1, <2>4
  <2>8. ASSUME NEW q \in Requests, req[q].st \in {"insert", "update"},
               req[q].row.site = req[r].row.site
        PROVE  req[q].row.site \in crossed
    BY <2>1, <2>2, <2>8 DEF Crossing
  <2>9. \A q \in Requests \ {r} : req'[q].st \in {"insert", "update"} =>
           /\ "site" \notin req'[q].checks => Grounded(req[q].row)'
           /\ "cred" \notin req'[q].checks => Linked(req[q].row)'
    BY <2>3, <2>4, <2>5, <2>8
  <2> QED BY <2>1, <2>3, <2>5, <2>6, <2>7, <2>9
\* The Credential goes: who has it in hand has been crossed by that.
<1>5. ASSUME NEW r \in Requests, CredentialDelete(r) PROVE ReferenceInvariant'
  <2>1. PICK c \in creds, fk \in BOOLEAN :
          /\ creds' = creds \ {c}
          /\ hosts' = [h \in Hosts |->
                        IF fk /\ hosts[h].cred = c THEN [hosts[h] EXCEPT !.cred = None]
                                                   ELSE hosts[h]]
          /\ kept' = IF fk THEN kept ELSE kept \cup {c}
          /\ crossed' = IF \E q \in Requests : req[q].row.cred = c
                        THEN crossed \cup {c} ELSE crossed
    BY <1>5 DEF CredentialDelete, FkOn
  <2>2. UNCHANGED <<sites, req>>
    BY <1>5 DEF CredentialDelete
  <2>3. c # None
    BY NoneAssumption DEF TypeOK
  <2>4. \A w : Grounded(w) => Grounded(w)'
    BY <2>1, <2>2 DEF Grounded
  <2>5. ASSUME NEW h \in Hosts, hosts'[h] # NoHost
        PROVE  /\ hosts[h] # NoHost
               /\ hosts'[h].site = hosts[h].site /\ hosts'[h].fp = hosts[h].fp
               /\ hosts'[h].cred = None \/ (hosts'[h] = hosts[h] /\ (fk => hosts[h].cred # c))
    <3>1. hosts[h] # NoHost
      BY <2>1, <2>3, <2>5 DEF NoHost
    <3>2. hosts[h] \in Row
      BY <3>1 DEF TypeOK
    <3> QED BY <2>1, <3>1, <3>2 DEF Row
  <2>6. ASSUME NEW h \in Hosts, hosts'[h] # NoHost
        PROVE  Grounded(hosts[h])' /\ Linked(hosts[h])'
    <3>1. Grounded(hosts[h])
      BY <2>5, <2>6
    <3>2. Grounded(hosts[h])'
      BY <2>1, <2>2, <2>5, <2>6, <3>1 DEF Grounded
    <3>3. Linked(hosts[h])'
      BY <2>1, <2>5, <2>6 DEF Linked
    <3> QED BY <3>2, <3>3
  <2>7. ASSUME NEW q \in Requests, Linked(req[q].row)
        PROVE  Linked(req[q].row)'
    BY <2>1, <2>2, <2>7 DEF Linked
  <2>8. crossed \subseteq crossed'
    BY <2>1
  <2> QED BY <2>2, <2>4, <2>5, <2>6, <2>7, <2>8
<1>6. ASSUME NEW r \in Requests, HostCreate(r) PROVE ReferenceInvariant'
  <2>1. PICK h \in NewHosts, s \in Sites, c \in Creds \cup {None},
             l \in Labels \cup {NoLabel} :
          Goto(r, [st |-> "insert", host |-> h, agent |-> FALSE,
                   checks |-> {"site"} \cup (IF c = None THEN {} ELSE {"cred"}),
                   row |-> [site |-> s, cred |-> c, fp |-> None, label |-> l]])
    BY <1>6 DEF HostCreate
  <2>2. UNCHANGED <<sites, creds, hosts, kept>>
    BY <1>6 DEF HostCreate
  <2> QED BY <1>goto, <2>1, <2>2 DEF Linked
<1>7. ASSUME NEW r \in Requests, HostUpdateRead(r) PROVE ReferenceInvariant'
  <2>1. PICK h \in Live, fields \in SUBSET {"site", "cred", "label"}, s \in Sites,
             c \in Creds \cup {None}, l \in Labels \cup {NoLabel} :
          Goto(r, [st |-> "update", host |-> h, agent |-> FALSE,
                   checks |-> (fields \ {"label"}) \ (IF c = None THEN {"cred"} ELSE {}),
                   row |-> [hosts[h] EXCEPT !.site = IF "site" \in fields THEN s ELSE @,
                                            !.cred = IF "cred" \in fields THEN c ELSE @,
                                            !.label = IF "label" \in fields THEN l ELSE @]])
    BY <1>7, Zenon DEF HostUpdateRead
  <2> DEFINE new == [hosts[h] EXCEPT !.site = IF "site" \in fields THEN s ELSE @,
                                     !.cred = IF "cred" \in fields THEN c ELSE @,
                                     !.label = IF "label" \in fields THEN l ELSE @]
             checks == (fields \ {"label"}) \ (IF c = None THEN {"cred"} ELSE {})
  <2>2. hosts[h] \in Row
    BY DEF TypeOK
  <2>3. /\ new.fp = hosts[h].fp
        /\ "site" \notin fields => new.site = hosts[h].site
        /\ new.cred = IF "cred" \in fields THEN c ELSE hosts[h].cred
    BY <2>2 DEF Row
  <2>4. "site" \notin checks => Grounded(new)
    BY <2>3 DEF Grounded
  <2>5. "cred" \notin checks => Linked(new)
    BY <2>3 DEF Linked
  <2>6. UNCHANGED <<sites, creds, hosts, kept>>
    BY <1>7 DEF HostUpdateRead
  <2> HIDE DEF new, checks
  <2>7. Goto(r, [st |-> "update", host |-> h, agent |-> FALSE, checks |-> checks,
                 row |-> new])
    BY <2>1 DEF new, checks
  <2> QED BY <1>goto, <2>4, <2>5, <2>6, <2>7
<1>8. ASSUME NEW r \in Requests, EnsureSite(r) \/ EnsureCredential(r)
      PROVE  ReferenceInvariant'
  <2>1. UNCHANGED <<sites, creds, hosts, kept>>
    BY <1>8 DEF EnsureSite, EnsureCredential
  <2>2. CASE Answer(r)
    <3>1. Goto(r, Idle) /\ Idle.st = "idle"
      BY <2>2 DEF Answer, Idle
    <3> HIDE DEF Live
    <3> QED BY <1>goto, <2>1, <3>1
  <2>3. ASSUME NEW C, Goto(r, [req[r] EXCEPT !.checks = C]),
               req[r].checks # {},
               "site" \in req[r].checks /\ "site" \notin C => req[r].row.site \in sites,
               "cred" \in req[r].checks /\ "cred" \notin C => req[r].row.cred \in creds
        PROVE  ReferenceInvariant'
    <3>1. req[r] \in WriteRequest
      <4>1. Idle.checks = {} /\ \A d \in DeleteRequest : d.checks = {}
        BY DEF Idle, DeleteRequest
      <4> QED BY <2>3, <4>1 DEF TypeOK
    <3> DEFINE next == [req[r] EXCEPT !.checks = C]
    <3>2. next.st = req[r].st /\ next.checks = C /\ next.row = req[r].row
          /\ next.st \in {"insert", "update"}
      BY <3>1 DEF WriteRequest
    <3>3. "site" \notin C => Grounded(req[r].row)
      BY <2>3, <3>2 DEF Grounded
    <3>4. "cred" \notin C => Linked(req[r].row)
      BY <2>3, <3>2 DEF Linked
    <3> HIDE DEF next
    <3> QED BY <1>goto, <2>1, <2>3, <3>2, <3>3, <3>4 DEF next
  <2>4. CASE EnsureSite(r) /\ ~Answer(r)
    <3>1. /\ "site" \in req[r].checks /\ req[r].row.site \in sites
          /\ Goto(r, [req[r] EXCEPT !.checks = req[r].checks \ {"site"}])
      BY <2>4 DEF EnsureSite, Goto
    <3> QED BY <2>3, <3>1
  <2>5. CASE EnsureCredential(r) /\ ~Answer(r)
    <3>1. /\ req[r].checks = {"cred"} /\ req[r].row.cred \in creds
          /\ Goto(r, [req[r] EXCEPT !.checks = {}])
      BY <2>5 DEF EnsureCredential
    <3> QED BY <2>3, <3>1
  <2> QED BY <1>8, <2>2, <2>4, <2>5
<1>9. ASSUME NEW r \in Requests, AgentRead(r) PROVE ReferenceInvariant'
  <2>1. PICK h \in Live : Goto(r, [st |-> "update", host |-> h, agent |-> TRUE,
                                   checks |-> {}, row |-> hosts[h]])
    BY <1>9 DEF AgentRead
  <2>2. UNCHANGED <<sites, creds, hosts, kept>>
    BY <1>9 DEF AgentRead
  <2> QED BY <1>goto, <2>1, <2>2
<1>10. ASSUME NEW r \in Requests, AgentEnrol(r) PROVE ReferenceInvariant'
  <2>1. PICK a \in Agents, h \in NewHosts :
          Goto(r, [st |-> "insert", host |-> h, agent |-> TRUE, checks |-> {},
                   row |-> [site |-> DefaultSite, cred |-> None, fp |-> a,
                            label |-> NoLabel]])
    BY <1>10 DEF AgentEnrol
  <2>2. UNCHANGED <<sites, creds, hosts, kept>>
    BY <1>10 DEF AgentEnrol
  <2>3. \A x : x \in Agents => x # None
    BY NoneAssumption
  <2> QED BY <1>goto, <2>1, <2>2, <2>3 DEF Grounded, Linked
\* A Host is written as it was checked.
<1>11. ASSUME NEW r \in Requests, Insert(r) \/ Update(r) PROVE ReferenceInvariant'
  <2>1. /\ UNCHANGED <<sites, creds, kept>>
        /\ req[r].st \in {"insert", "update"} /\ req[r].checks = {}
        /\ req' = [req EXCEPT ![r] = Idle]
        /\ crossed \subseteq crossed' /\ Crossing(req') \subseteq crossed'
    BY <1>11 DEF Insert, Update, Pending, Answer, Goto
  <2>2. hosts' = hosts \/ hosts' = [hosts EXCEPT ![req[r].host] = req[r].row]
    BY <1>11 DEF Insert, Update
  <2>3. \A w : (Grounded(w) => Grounded(w)') /\ (Linked(w) => Linked(w)')
    BY <2>1 DEF Grounded, Linked
  <2>4. \A h \in Hosts : hosts'[h] = hosts[h] \/ hosts'[h] = req[r].row
    BY <2>2 DEF TypeOK
  <2>5. Grounded(req[r].row) /\ Linked(req[r].row)
    BY <2>1
  <2>6. \A q \in Requests : q # r => req'[q] = req[q]
    BY <2>1 DEF TypeOK
  <2>7. req'[r].st = "idle"
    BY <2>1 DEF TypeOK, Idle
  <2>8. ASSUME NEW q \in Requests, req'[q].st = "deleteSite",
               req[q].row.site = req[r].row.site
        PROVE  req[q].row.site \in crossed
    <3>1. req[q].st = "deleteSite" /\ req[q] \in DeleteRequest
      BY <2>6, <2>7, <2>8 DEF TypeOK, WriteRequest, Idle
    <3>2. req[q].row.site \in Sites
      BY <3>1 DEF DeleteRequest, NoHost
    <3> QED BY <2>1, <2>8, <3>1, <3>2 DEF Crossing
  <2>9. ASSUME NEW q \in Requests, req'[q].st = "deleteSite"
        PROVE  req'[q].row.site \in crossed'
                 \/ \A h \in Hosts : hosts'[h] # NoHost => hosts'[h].site # req'[q].row.site
    BY <2>1, <2>4, <2>6, <2>7, <2>8, <2>9
  <2>10. \A h \in Hosts : hosts'[h] # NoHost => Grounded(hosts[h])' /\ Linked(hosts[h])'
    BY <2>3, <2>4, <2>5
  <2> QED BY <2>1, <2>3, <2>6, <2>7, <2>9, <2>10
<1> QED BY <1>1, <1>2, <1>3, <1>4, <1>5, <1>6, <1>7, <1>8, <1>9, <1>10, <1>11
        DEF Next, Portal

\* It holds in every state.
THEOREM ReferencesKept == Spec => []ReferenceInvariant
<1>1. Init => ReferenceInvariant
  BY DEF Init, ReferenceInvariant, SiteLostOnlyInRace, LinkLostOnlyInRace, Live, Crossing,
         Idle
<1>2. TypeOK /\ ReferenceInvariant /\ [Next]_vars => ReferenceInvariant'
  BY ReferenceStep
<1> QED BY <1>1, <1>2, TypeCorrect, PTL DEF Spec

\* Whatever connections enforce foreign keys, a Host loses its Site only to a request
\* that deletes the Site while the Host is on its way into it, or as an Agent's Host
\* in the Default Site.
THEOREM SiteLostInRace == Spec => []SiteLostOnlyInRace
<1>1. ReferenceInvariant => SiteLostOnlyInRace
  BY DEF ReferenceInvariant
<1> QED BY <1>1, ReferencesKept, PTL

\* The link to a Credential outlives it only where a request had the Host in hand as
\* it went, or where ON DELETE SET NULL was not enforced.
THEOREM LinkLostInRace == Spec => []LinkLostOnlyInRace
<1>1. ReferenceInvariant => LinkLostOnlyInRace
  BY DEF ReferenceInvariant
<1> QED BY <1>1, ReferencesKept, PTL

-----------------------------------------------------------------------------
(* One Credential, and the form over it *)

\* A row whose parts belong together.
Sound(r) ==
    /\ r \in Credential
    /\ r.phrase # NoPhrase => r.type = "ssh_key" /\ Fits(r)
    /\ r.type = "ssh_key" => r.secret \in Keys /\ r.public = r.secret
    /\ r.type = "password" => r.secret = Password /\ r.public = NoKey
    /\ r.become = "none" => ~r.becomeSecret

\* The invariant, row by row.
LEMMA VaultIsSound ==
    VaultInvariant <=>
        /\ VaultTypeOK
        /\ row # NoRow => Sound(row)
        /\ \A c \in Clients : edit[c] # NoRow => Sound(edit[c])
BY DEF VaultInvariant, VaultTypeOK, PhraseOpensKey, PublicMatchesSecret,
       NoBecomeNoSecret, Rows, Sound

\* WithBecome leaves the key and its passphrase alone and drops the secret of
\* `none`.
LEMMA WithBecomeSound ==
    ASSUME NEW r \in Credential, NEW rq \in Request,
           r.phrase # NoPhrase => r.type = "ssh_key" /\ Fits(r),
           r.type = "ssh_key" => r.secret \in Keys /\ r.public = r.secret,
           r.type = "password" => r.secret = Password /\ r.public = NoKey
    PROVE  Sound(WithBecome(r, rq))
<1> DEFINE become == IF rq.become = "absent" THEN r.become ELSE rq.become
           keeps == CASE become = "none" -> FALSE
                     [] become # "none" /\ rq.becomeSecret = "absent" -> r.becomeSecret
                     [] OTHER -> rq.becomeSecret = "set"
<1>1. become \in {"none", "sudo"} /\ keeps \in BOOLEAN /\ (become = "none" => ~keeps)
  BY DEF Credential, Request
<1>2. WithBecome(r, rq) = [r EXCEPT !.become = become, !.becomeSecret = keeps]
  BY DEF WithBecome
<1> HIDE DEF become, keeps
<1> DEFINE w == [r EXCEPT !.become = become, !.becomeSecret = keeps]
<1>3. /\ w \in Credential
      /\ w.type = r.type /\ w.secret = r.secret /\ w.public = r.public
      /\ w.phrase = r.phrase /\ w.become = become /\ w.becomeSecret = keeps
  BY <1>1 DEF Credential
<1> HIDE DEF w
<1> QED BY <1>1, <1>2, <1>3 DEF w, Sound, Fits

\* What Update makes of a sound row is sound.
LEMMA EditedSound ==
    ASSUME NEW r, Sound(r), NEW rq \in Request, NEW e \in Edited(r, rq)
    PROVE  Sound(e)
<1>1. PICK s \in IF HasSecret(rq) THEN Prepared(r.type, rq, PhraseIn(r, rq))
                 ELSE {[secret |-> r.secret, public |-> r.public]} :
        /\ PhraseAllowed(r, rq)
        /\ e = WithBecome([r EXCEPT !.secret = s.secret, !.public = s.public,
                                    !.phrase = PhraseIn(r, rq)], rq)
  BY DEF Edited
<1> DEFINE n == [r EXCEPT !.secret = s.secret, !.public = s.public,
                          !.phrase = PhraseIn(r, rq)]
<1>3. PhraseIn(r, rq) \in Phrases \cup {NoPhrase}
  BY DEF PhraseIn, Sound, Credential, Request
<1>4. /\ s.secret \in Keys \cup {Password} /\ s.public \in Keys \cup {NoKey}
      /\ r.type = "ssh_key" => s.secret \in Keys /\ s.public = s.secret
      /\ r.type = "password" => s.secret = Password /\ s.public = NoKey
  BY DEF Prepared, Sound, Credential
<1>5. PhraseIn(r, rq) # NoPhrase =>
        r.type = "ssh_key" /\ Parses(s.secret, PhraseIn(r, rq))
  BY <1>1 DEF PhraseAllowed, NewPhrase, PhraseIn, Prepared, Sound, Fits, Credential, Request
<1>6. /\ n \in Credential
      /\ n.type = r.type /\ n.secret = s.secret /\ n.public = s.public
      /\ n.phrase = PhraseIn(r, rq)
  BY <1>3, <1>4 DEF Sound, Credential
<1> HIDE DEF n
<1>7. Sound(WithBecome(n, rq))
  BY <1>4, <1>5, <1>6, WithBecomeSound DEF Fits
<1> QED BY <1>1, <1>7 DEF n

\* A step keeps every row sound.
LEMMA VaultStep == VaultInvariant /\ [VaultNext]_vault => VaultInvariant'
<1> SUFFICES ASSUME VaultTypeOK,
                    row # NoRow => Sound(row),
                    \A c \in Clients : edit[c] # NoRow => Sound(edit[c]),
                    [VaultNext]_vault
             PROVE  /\ VaultTypeOK'
                    /\ row' # NoRow => Sound(row')
                    /\ \A c \in Clients : edit'[c] # NoRow => Sound(edit'[c])
  <2>1. (row # NoRow => Sound(row))' <=> (row' # NoRow => Sound(row'))
    BY DEF Sound, Fits
  <2>2. (\A c \in Clients : edit[c] # NoRow => Sound(edit[c]))' <=>
          \A c \in Clients : edit'[c] # NoRow => Sound(edit'[c])
    BY DEF Sound, Fits
  <2>3. VaultInvariant' <=>
          /\ VaultTypeOK'
          /\ (row # NoRow => Sound(row))'
          /\ (\A c \in Clients : edit[c] # NoRow => Sound(edit[c]))'
    BY VaultIsSound, PTL
  <2> QED BY <2>1, <2>2, <2>3, VaultIsSound
<1>1. \A r : Sound(r) => r \in Credential
  BY DEF Sound
<1>2. CASE Create
  <2>1. PICK type \in {"password", "ssh_key"}, rq \in Request :
          /\ rq.phrase # Absent
          /\ rq.phrase # NoPhrase => type = "ssh_key"
          /\ \E s \in Prepared(type, rq, rq.phrase) :
               row' = WithBecome([type |-> type, secret |-> s.secret,
                                  public |-> s.public, phrase |-> rq.phrase,
                                  become |-> "none", becomeSecret |-> FALSE], rq)
    BY <1>2 DEF Create, CreateRow
  <2>2. PICK s \in Prepared(type, rq, rq.phrase) :
          row' = WithBecome([type |-> type, secret |-> s.secret,
                             public |-> s.public, phrase |-> rq.phrase,
                             become |-> "none", becomeSecret |-> FALSE], rq)
    BY <2>1
  <2> DEFINE n == [type |-> type, secret |-> s.secret, public |-> s.public,
                   phrase |-> rq.phrase, become |-> "none", becomeSecret |-> FALSE]
  <2>3. /\ s.secret \in Keys \cup {Password} /\ s.public \in Keys \cup {NoKey}
        /\ type = "ssh_key" => s.secret \in Keys /\ s.public = s.secret
                                 /\ Parses(s.secret, rq.phrase)
        /\ type = "password" => s.secret = Password /\ s.public = NoKey
    BY DEF Prepared
  <2>4. n \in Credential /\ (n.phrase # NoPhrase => n.type = "ssh_key" /\ Fits(n))
    BY <2>1, <2>3 DEF Credential, Request, Fits
  <2>5. Sound(row')
    <3> HIDE DEF n
    <3>1. /\ n.type = "ssh_key" => n.secret \in Keys /\ n.public = n.secret
          /\ n.type = "password" => n.secret = Password /\ n.public = NoKey
      BY <2>3 DEF n
    <3>2. row' = WithBecome(n, rq) BY <2>2 DEF n
    <3> QED BY <2>4, <3>1, <3>2, WithBecomeSound
  <2> QED BY <1>1, <1>2, <2>5 DEF Create, CreateRow, VaultTypeOK
<1>3. CASE Delete
  BY <1>3 DEF Delete, VaultTypeOK
<1>4. CASE SSHAuth
  BY <1>4 DEF SSHAuth, VaultTypeOK
<1>5. ASSUME NEW c \in Clients, UpdateRead(c)
      PROVE  /\ VaultTypeOK'
             /\ row' # NoRow => Sound(row')
             /\ \A d \in Clients : edit'[d] # NoRow => Sound(edit'[d])
  <2>1. PICK rq \in Request : \E r \in Edited(row, rq) :
          edit' = [edit EXCEPT ![c] = r]
    BY <1>5 DEF UpdateRead, UpdateReadFor
  <2>2. PICK r \in Edited(row, rq) : edit' = [edit EXCEPT ![c] = r]
    BY <2>1
  <2>3. Sound(r)
    BY <1>5, EditedSound DEF UpdateRead, UpdateReadFor
  <2> QED BY <1>1, <1>5, <2>2, <2>3 DEF UpdateRead, UpdateReadFor, VaultTypeOK
<1>6. ASSUME NEW c \in Clients, UpdateWrite(c)
      PROVE  /\ VaultTypeOK'
             /\ row' # NoRow => Sound(row')
             /\ \A d \in Clients : edit'[d] # NoRow => Sound(edit'[d])
  BY <1>1, <1>6 DEF UpdateWrite, VaultTypeOK
<1>7. CASE UNCHANGED vault
  BY <1>7 DEF vault, VaultTypeOK
<1> QED BY <1>2, <1>3, <1>4, <1>5, <1>6, <1>7 DEF VaultNext

\* Whatever the keys, the passphrases and the number of concurrent requests,
\* the vault's rows stay consistent.
THEOREM Vault == VaultSpec => []VaultInvariant
<1>1. VaultInit => VaultInvariant
  BY VaultIsSound DEF VaultInit, VaultTypeOK
<1> QED BY <1>1, VaultStep, PTL DEF VaultSpec

\* No interleaving of updates puts a passphrase next to a key it does not open
\* (credentials.service.go Update, CredentialRepository.Update).
THEOREM PairFits == VaultSpec => []PhraseOpensKey
<1>1. VaultInvariant => PhraseOpensKey BY DEF VaultInvariant
<1> QED BY <1>1, Vault, PTL

\* The public key shown is always that of the stored private key.
THEOREM PublicHalf == VaultSpec => []PublicMatchesSecret
<1>1. VaultInvariant => PublicMatchesSecret BY DEF VaultInvariant
<1> QED BY <1>1, Vault, PTL

-----------------------------------------------------------------------------
(* The Portal's form *)

FormTypes ==
    /\ page \in Page
    /\ form \in Fields
    /\ call \in Saves \cup {NoCall}
    /\ counts \in [typed: Nat, forms: Nat, others: Nat]

\* A public key shown next to a private key is that key's.
ShowsOwnKey(f) ==
    f.preview # NoKey => f.type = "ssh_key" /\ f.key \in {NoKey, f.preview}

\* A form shows what the Server had consistent, and saves it once; a row on its
\* way to the table has the blank fields of one that was there during the save.
FormInvariant ==
    /\ VaultInvariant
    /\ FormTypes
    /\ page.item # NoRow => Sound(page.item)
    /\ page.mode = "edit" => page.item # NoRow
    /\ ShowsOwnKey(form)
    /\ call # NoCall =>
         /\ page.mode # "list" /\ form.busy = "saving"
         /\ ShowsOwnKey(call.was)
         /\ call.at # "written" /\ row # NoRow => row \in call.seen
    /\ edit[Operator] # NoRow <=> (call # NoCall /\ call.at = "writing")
    /\ edit[Operator] # NoRow
         => \E r \in call.seen : LeavesAlone(call.was, edit[Operator], r)
    /\ edit[Operator] # NoRow /\ call.was.key # NoKey /\ call.was.preview # NoKey
         => edit[Operator].public = call.was.preview

\* The request of a form is one the vault's Update and Create know.
LEMMA FormRequestType == ASSUME NEW f \in Fields PROVE FormRequest(f) \in Request
BY DEF FormRequest, Fields, Request

\* WithBecome touches the become method and its secret only.
LEMMA WithBecomeKeeps ==
    ASSUME NEW r \in Credential, NEW rq \in Request
    PROVE  LET w == WithBecome(r, rq)
           IN /\ w.secret = r.secret /\ w.public = r.public /\ w.phrase = r.phrase
              /\ rq.become = "sudo" /\ rq.becomeSecret = "absent"
                   => w.becomeSecret = r.becomeSecret
<1> DEFINE become == IF rq.become = "absent" THEN r.become ELSE rq.become
           keeps == CASE become = "none" -> FALSE
                     [] become # "none" /\ rq.becomeSecret = "absent" -> r.becomeSecret
                     [] OTHER -> rq.becomeSecret = "set"
<1>1. WithBecome(r, rq) = [r EXCEPT !.become = become, !.becomeSecret = keeps]
  BY DEF WithBecome
<1>2. rq.become = "sudo" /\ rq.becomeSecret = "absent" => keeps = r.becomeSecret
  OBVIOUS
<1> HIDE DEF become, keeps
<1> QED BY <1>1, <1>2 DEF Credential

\* What Update takes from the request, and what it leaves as it read it.
LEMMA EditedKeeps ==
    ASSUME NEW r, Sound(r), NEW rq \in Request, NEW e \in Edited(r, rq)
    PROVE  /\ rq.key # NoKey /\ ~rq.password => e.public = rq.key
           /\ ~HasSecret(rq) => e.secret = r.secret /\ e.public = r.public
           /\ rq.phrase = Absent => e.phrase = r.phrase
           /\ rq.become = "sudo" /\ rq.becomeSecret = "absent"
                => e.becomeSecret = r.becomeSecret
<1>1. PICK s \in IF HasSecret(rq) THEN Prepared(r.type, rq, PhraseIn(r, rq))
                 ELSE {[secret |-> r.secret, public |-> r.public]} :
        e = WithBecome([r EXCEPT !.secret = s.secret, !.public = s.public,
                                 !.phrase = PhraseIn(r, rq)], rq)
  BY DEF Edited
<1> DEFINE n == [r EXCEPT !.secret = s.secret, !.public = s.public,
                          !.phrase = PhraseIn(r, rq)]
<1>2. PhraseIn(r, rq) \in Phrases \cup {NoPhrase}
  BY DEF PhraseIn, Sound, Credential, Request
<1>3. /\ s.secret \in Keys \cup {Password} /\ s.public \in Keys \cup {NoKey}
      /\ rq.key # NoKey /\ ~rq.password => s.public = rq.key
      /\ ~HasSecret(rq) => s.secret = r.secret /\ s.public = r.public
  BY DEF Prepared, HasSecret, Sound, Credential
<1>4. /\ n \in Credential /\ n.secret = s.secret /\ n.public = s.public
      /\ n.phrase = PhraseIn(r, rq) /\ n.becomeSecret = r.becomeSecret
  BY <1>2, <1>3 DEF Sound, Credential
<1>5. rq.phrase = Absent => PhraseIn(r, rq) = r.phrase
  BY DEF PhraseIn
<1> HIDE DEF n
<1>6. e = WithBecome(n, rq)
  BY <1>1 DEF n
<1> QED BY <1>3, <1>4, <1>5, <1>6, WithBecomeKeeps

\* The request of an edit form leaves alone what the operator did, in the row
\* the Server reads.
LEMMA RequestLeavesAlone ==
    ASSUME NEW f \in Fields, Editing, NEW r, Sound(r), NEW e \in Edited(r, FormRequest(f))
    PROVE  LeavesAlone(f, e, r)
<1> DEFINE rq == FormRequest(f)
<1>1. rq \in Request
  BY FormRequestType
<1>2. /\ f.key = NoKey /\ ~f.password => ~HasSecret(rq)
      /\ f.phrase = NoPhrase /\ ~f.clear => rq.phrase = Absent
      /\ f.become # "none" /\ ~f.becomeSecret /\ ~f.clearBecome
           => rq.become = "sudo" /\ rq.becomeSecret = "absent"
  BY DEF FormRequest, HasSecret, Fields
<1>3. e \in Edited(r, rq)
  OBVIOUS
<1> HIDE DEF rq
<1> QED BY <1>1, <1>2, <1>3, EditedKeeps DEF LeavesAlone

\* What Create stores under the key of the request.
LEMMA CreatedKey ==
    ASSUME NEW type \in {"password", "ssh_key"}, NEW rq \in Request,
           CreateRow(type, rq), type = "ssh_key"
    PROVE  row'.public = rq.key
<1>1. PICK s \in Prepared(type, rq, rq.phrase) :
        row' = WithBecome([type |-> type, secret |-> s.secret,
                           public |-> s.public, phrase |-> rq.phrase,
                           become |-> "none", becomeSecret |-> FALSE], rq)
  BY DEF CreateRow
<1> DEFINE n == [type |-> type, secret |-> s.secret, public |-> s.public,
                 phrase |-> rq.phrase, become |-> "none", becomeSecret |-> FALSE]
<1>2. s.secret \in Keys /\ s.public = rq.key /\ s.public \in Keys
  BY DEF Prepared
<1>3. n \in Credential /\ n.public = rq.key
  BY <1>2 DEF Credential, Request, CreateRow
<1> HIDE DEF n
<1>4. row' = WithBecome(n, rq) BY <1>1 DEF n
<1> QED BY <1>3, <1>4, WithBecomeKeeps

\* The form is one more client of the vault: its steps are the vault's.
LEMMA FormStepIsVaultStep == FormTypes /\ [NextForm]_formVars => [VaultNext]_vault
<1> SUFFICES ASSUME FormTypes, [NextForm]_formVars PROVE [VaultNext]_vault
  OBVIOUS
<1>1. CASE ServerTakes
  <2>1. call.was \in Fields
    BY <1>1 DEF ServerTakes, FormTypes, Saves
  <2>2. FormRequest(call.was) \in Request /\ call.was.type \in {"password", "ssh_key"}
    BY <2>1, FormRequestType DEF Fields
  <2>3. CASE Editing
    <3>1. UpdateRead(Operator)
      BY <1>1, <2>2, <2>3 DEF ServerTakes, UpdateRead
    <3> QED BY <3>1, OperatorAssumption DEF VaultNext
  <2>4. CASE ~Editing
    <3>1. Create
      BY <1>1, <2>2, <2>4 DEF ServerTakes, Create
    <3> QED BY <3>1 DEF VaultNext
  <2> QED BY <2>3, <2>4
<1>2. CASE ServerWrites
  BY <1>2, OperatorAssumption DEF ServerWrites, VaultNext
<1>3. CASE DeleteListed \/ Others
  BY <1>3 DEF DeleteListed, Others, VaultNext, vault
<1>4. CASE UNCHANGED vault
  BY <1>4 DEF vault
<1>5. \A f : Typed(f) => UNCHANGED vault
  BY DEF Typed
<1>6. CASE \/ ListLoads \/ \E mode \in {"create", "generate", "edit"} : Open(mode)
           \/ Generate \/ GenerateAnswered \/ GenerateFails
           \/ Submit \/ Saved \/ SaveFails \/ Cancel \/ UNCHANGED formVars
  BY <1>4, <1>6 DEF ListLoads, Open, Generate, GenerateAnswered, GenerateFails,
       Submit, Saved, SaveFails, Cancel, formVars, vault
<1>7. CASE \/ ChooseType \/ TypeKey \/ TypePhrase \/ ToggleClear \/ TypePassword
           \/ ChooseBecome \/ TypeBecomeSecret \/ ToggleClearBecome
  BY <1>4, <1>5, <1>7 DEF ChooseType, TypeKey, TypePhrase, ToggleClear, TypePassword,
       ChooseBecome, TypeBecomeSecret, ToggleClearBecome
<1> QED BY <1>1, <1>2, <1>3, <1>6, <1>7 DEF NextForm

\* A step that changes fields of the form only.
LEMMA FieldsMove ==
    ASSUME FormInvariant, UNCHANGED <<vault, page, call>>,
           counts' \in [typed: Nat, forms: Nat, others: Nat],
           form' \in Fields, ShowsOwnKey(form)',
           form'.busy = form.busy \/ call = NoCall
    PROVE  FormInvariant'
<1>1. VaultInvariant'
  BY VaultStep DEF FormInvariant, vault
<1>2. FormTypes'
  BY DEF FormInvariant, FormTypes
<1>3. (page.item # NoRow => Sound(page.item))' /\ (page.mode = "edit" => page.item # NoRow)'
  BY DEF FormInvariant, Sound, Fits
<1> QED BY <1>1, <1>2, <1>3 DEF FormInvariant, vault, ShowsOwnKey

\* Changing a field, generating a key: the preview goes with the key.
LEMMA FieldsStep ==
    ASSUME FormInvariant,
           \/ ChooseType \/ TypeKey \/ TypePhrase \/ ToggleClear \/ TypePassword
           \/ ChooseBecome \/ TypeBecomeSecret \/ ToggleClearBecome
           \/ Generate \/ GenerateAnswered \/ GenerateFails
    PROVE  FormInvariant'
<1>1. /\ form \in Fields /\ ShowsOwnKey(form)
      /\ counts \in [typed: Nat, forms: Nat, others: Nat]
      /\ call # NoCall => form.busy = "saving"
  BY DEF FormInvariant, FormTypes
<1>2. Used("typed") => counts' \in [typed: Nat, forms: Nat, others: Nat]
  BY <1>1 DEF Used
<1>3. \A f \in Fields :
        ShowsOwnKey(f) /\ f.busy = form.busy /\ Typed(f) => FormInvariant'
  BY <1>2, FieldsMove DEF Typed, ShowsOwnKey
<1>4. CASE ChooseType
  <2>1. /\ [form EXCEPT !.type = "ssh_key"] \in Fields
        /\ [form EXCEPT !.type = "password", !.preview = NoKey,
                        !.phrase = NoPhrase, !.clear = FALSE] \in Fields
    BY <1>1 DEF Fields
  <2> QED BY <1>1, <1>3, <1>4, <2>1 DEF ChooseType, ShowsOwnKey, Fields
<1>5. CASE TypeKey
  <2>1. PICK k \in (Keys \cup {NoKey}) \ {form.key} :
          Typed([form EXCEPT !.key = k, !.preview = NoKey])
    BY <1>5 DEF TypeKey
  <2>2. [form EXCEPT !.key = k, !.preview = NoKey] \in Fields
    BY <1>1 DEF Fields
  <2> QED BY <1>1, <1>3, <2>1, <2>2 DEF ShowsOwnKey, Fields
<1>6. CASE TypePhrase
  <2>1. PICK p \in Phrases \cup {NoPhrase} : Typed([form EXCEPT !.phrase = p])
    BY <1>6 DEF TypePhrase
  <2>2. [form EXCEPT !.phrase = p] \in Fields
    BY <1>1 DEF Fields
  <2> QED BY <1>1, <1>3, <2>1, <2>2 DEF ShowsOwnKey, Fields
<1>7. CASE ToggleClear
  <2>1. /\ [form EXCEPT !.clear = FALSE] \in Fields
        /\ [form EXCEPT !.clear = TRUE, !.phrase = NoPhrase] \in Fields
    BY <1>1 DEF Fields
  <2> QED BY <1>1, <1>3, <1>7, <2>1 DEF ToggleClear, ShowsOwnKey, Fields
<1>8. CASE TypePassword
  <2>1. [form EXCEPT !.password = ~@] \in Fields
    BY <1>1 DEF Fields
  <2> QED BY <1>1, <1>3, <1>8, <2>1 DEF TypePassword, ShowsOwnKey, Fields
<1>9. CASE ChooseBecome
  <2>1. [form EXCEPT !.become = IF @ = "none" THEN "sudo" ELSE "none"] \in Fields
    BY <1>1 DEF Fields
  <2> QED BY <1>1, <1>3, <1>9, <2>1 DEF ChooseBecome, ShowsOwnKey, Fields
<1>10. CASE TypeBecomeSecret
  <2>1. [form EXCEPT !.becomeSecret = ~@] \in Fields
    BY <1>1 DEF Fields
  <2> QED BY <1>1, <1>3, <1>10, <2>1 DEF TypeBecomeSecret, ShowsOwnKey, Fields
<1>11. CASE ToggleClearBecome
  <2>1. /\ [form EXCEPT !.clearBecome = FALSE] \in Fields
        /\ [form EXCEPT !.clearBecome = TRUE, !.becomeSecret = FALSE] \in Fields
    BY <1>1 DEF Fields
  <2> QED BY <1>1, <1>3, <1>11, <2>1 DEF ToggleClearBecome, ShowsOwnKey, Fields
<1>12. CASE Generate
  <2>1. form' \in Fields /\ ShowsOwnKey(form)' /\ call = NoCall
    BY <1>1, <1>12 DEF Generate, Fields, ShowsOwnKey
  <2> QED BY <1>2, <1>12, <2>1, FieldsMove DEF Generate
<1>13. CASE GenerateAnswered
  <2>1. PICK k \in Generated :
          form' = [form EXCEPT
                     !.type = "ssh_key", !.key = k, !.preview = k, !.busy = "no",
                     !.phrase = IF form.busy = "generating" THEN NoPhrase ELSE @,
                     !.clear = IF form.busy = "generating" THEN FALSE ELSE @]
    BY <1>13 DEF GenerateAnswered
  <2>2. form' \in Fields /\ ShowsOwnKey(form)' /\ call = NoCall
    BY <1>1, <1>13, <2>1, GeneratedAssumption DEF GenerateAnswered, Fields, ShowsOwnKey
  <2> QED BY <1>1, <1>13, <2>2, FieldsMove DEF GenerateAnswered
<1>14. CASE GenerateFails
  <2>1. form' \in Fields /\ ShowsOwnKey(form)' /\ call = NoCall
    BY <1>1, <1>14 DEF GenerateFails, Fields, ShowsOwnKey
  <2> QED BY <1>1, <1>14, <2>1, FieldsMove DEF GenerateFails
<1> QED BY <1>4, <1>5, <1>6, <1>7, <1>8, <1>9, <1>10, <1>11, <1>12, <1>13, <1>14

\* Every step of the page and of the other clients keeps the invariant.
LEMMA FormStep == FormInvariant /\ [NextForm]_formVars => FormInvariant'
<1> SUFFICES ASSUME FormInvariant, [NextForm]_formVars PROVE FormInvariant'
  OBVIOUS
<1>1. VaultInvariant'
  BY FormStepIsVaultStep, VaultStep DEF FormInvariant
<1>2. /\ page \in Page /\ form \in Fields /\ call \in Saves \cup {NoCall}
      /\ counts \in [typed: Nat, forms: Nat, others: Nat]
      /\ page.item # NoRow => Sound(page.item)
      /\ ShowsOwnKey(form)
      /\ edit \in [Clients -> Credential \cup {NoRow}] /\ row \in Credential \cup {NoRow}
      /\ row # NoRow => Sound(row)
  BY VaultIsSound DEF FormInvariant, FormTypes, VaultTypeOK
<1>3. (page.item # NoRow => Sound(page.item))' <=>
        (page'.item # NoRow => Sound(page'.item))
  BY DEF Sound, Fits
<1>4. ShowsOwnKey(form)' <=> ShowsOwnKey(form')
  BY DEF ShowsOwnKey
<1>5. /\ Blank("create", NoRow) \in Fields /\ Blank("generate", NoRow) \in Fields
      /\ \A mode \in {"create", "generate", "edit"}, item \in Credential \cup {NoRow} :
           (mode = "edit" => item # NoRow) => Blank(mode, item) \in Fields
      /\ \A mode \in {"create", "generate", "edit"}, item \in Credential \cup {NoRow} :
           (mode = "edit" => item # NoRow /\ Sound(item)) => ShowsOwnKey(Blank(mode, item))
  BY DEF Blank, Fields, Credential, Sound, ShowsOwnKey
<1>6. ASSUME UNCHANGED <<form, call, vault>>, counts' = counts,
             page' \in Page, page'.item # NoRow => Sound(page'.item),
             page'.mode = "edit" => page'.item # NoRow,
             call = NoCall
      PROVE  FormInvariant'
  BY <1>1, <1>3, <1>6 DEF FormInvariant, FormTypes, vault, ShowsOwnKey
<1>7. CASE ListLoads
  <2>1. PICK item \in {row, NoRow} :
          page' = [page EXCEPT !.loading = FALSE, !.item = item]
    BY <1>7 DEF ListLoads
  <2>2. page' \in Page /\ (page'.item # NoRow => Sound(page'.item)) /\ page'.mode = "list"
    BY <1>2, <1>7, <2>1 DEF Page, ListLoads
  <2> QED BY <1>6, <1>7, <2>2 DEF ListLoads, FormInvariant
<1>8. ASSUME NEW mode \in {"create", "generate", "edit"}, Open(mode) PROVE FormInvariant'
  <2>1. page' \in Page /\ page'.item = page.item /\ page'.mode = mode
    BY <1>2, <1>8 DEF Open, Page
  <2>2. form' \in Fields /\ ShowsOwnKey(form')
    BY <1>2, <1>5, <1>8 DEF Open, Page
  <2>3. counts' \in [typed: Nat, forms: Nat, others: Nat]
    BY <1>2, <1>8 DEF Open, Used
  <2> QED BY <1>1, <1>2, <1>3, <1>4, <1>8, <2>1, <2>2, <2>3
          DEF Open, FormInvariant, FormTypes, vault
<1>9. CASE DeleteListed
  <2>1. page' \in Page /\ page'.item = NoRow /\ page'.mode = "list"
    BY <1>2, <1>9, NoRowAssumption DEF DeleteListed, Page
  <2> QED BY <1>1, <1>9, <2>1
          DEF DeleteListed, Delete, FormInvariant, FormTypes, ShowsOwnKey
<1>10. CASE Submit
  <2>1. /\ call' \in Saves /\ call' # NoCall /\ call'.was = form /\ call'.at = "sent"
        /\ row' # NoRow => row' \in call'.seen
    BY <1>2, <1>10, NoCallAssumption DEF Submit, Saves, vault
  <2>2. form' \in Fields /\ form'.busy = "saving" /\ ShowsOwnKey(form')
    BY <1>2, <1>10 DEF Submit, Fields, ShowsOwnKey
  <2>3. call = NoCall /\ edit[Operator] = NoRow
    BY <1>10 DEF Submit, FormInvariant
  <2>4. (page.item # NoRow => Sound(page.item))'
    BY <1>2, <1>3, <1>10 DEF Submit
  <2> QED BY <1>1, <1>2, <1>10, <2>1, <2>2, <2>3, <2>4
          DEF Submit, FormInvariant, FormTypes, vault, ShowsOwnKey
<1>11. CASE ServerTakes
  <2>1. /\ call \in Saves /\ call.was \in Fields /\ call.at = "sent"
        /\ ShowsOwnKey(call.was)
        /\ page.mode # "list" /\ form.busy = "saving"
    BY <1>2, <1>11 DEF ServerTakes, Saves, FormInvariant
  <2>2. edit[Operator] = NoRow
    BY <2>1 DEF FormInvariant
  <2>3. UNCHANGED <<page, form, counts>>
    BY <1>11 DEF ServerTakes
  <2>4. (page.item # NoRow => Sound(page.item))'
    BY <1>2, <1>3, <2>3
  <2>5. CASE Editing
    <3>1. /\ UpdateReadFor(Operator, FormRequest(call.was))
          /\ call' = [call EXCEPT !.at = "writing"]
      BY <1>11, <2>5 DEF ServerTakes
    <3>2. /\ call' \in Saves /\ call' # NoCall /\ call'.seen = call.seen
          /\ call'.was = call.was /\ call'.at = "writing"
      BY <2>1, <3>1, NoCallAssumption DEF Saves
    <3>3. PICK r \in Edited(row, FormRequest(call.was)) :
            edit' = [edit EXCEPT ![Operator] = r]
      BY <3>1 DEF UpdateReadFor
    <3>4. row # NoRow /\ FormRequest(call.was) \in Request
      BY <2>1, <3>1, FormRequestType DEF UpdateReadFor
    <3>5. Sound(r)
      BY <1>2, <3>4, EditedSound
    <3>6. call.was.key # NoKey /\ call.was.preview # NoKey => r.public = call.was.preview
      <4>1. SUFFICES ASSUME call.was.key # NoKey, call.was.preview # NoKey
                     PROVE  r.public = call.was.preview
        OBVIOUS
      <4>2. /\ FormRequest(call.was).key = call.was.preview
            /\ ~FormRequest(call.was).password
        BY <2>1, <4>1 DEF FormRequest, ShowsOwnKey
      <4> QED BY <1>2, <3>4, <4>1, <4>2, EditedKeeps
    <3>7. edit'[Operator] = r /\ r # NoRow
      BY <1>2, <3>3, <3>5, OperatorAssumption, NoRowAssumption DEF Sound
    <3>8. row' = row /\ row \in call.seen /\ LeavesAlone(call.was, r, row)
      <4>1. Sound(row)
        BY <1>2, <3>4
      <4>2. LeavesAlone(call.was, r, row)
        BY <2>1, <2>5, <3>3, <4>1, RequestLeavesAlone
      <4> QED BY <1>11, <2>1, <3>1, <3>4, <4>2 DEF ServerTakes, UpdateReadFor, FormInvariant
    <3> QED BY <1>1, <1>2, <2>1, <2>3, <2>4, <3>2, <3>6, <3>7, <3>8
            DEF FormInvariant, FormTypes, ShowsOwnKey
  <2>6. CASE ~Editing
    <3>1. call' = [call EXCEPT !.at = "written"] /\ edit' = edit
      BY <1>11, <2>6 DEF ServerTakes, CreateRow
    <3>2. /\ call' \in Saves /\ call' # NoCall
          /\ call'.was = call.was /\ call'.at = "written"
      BY <2>1, <3>1, NoCallAssumption DEF Saves
    <3> QED BY <1>1, <1>2, <2>1, <2>2, <2>3, <2>4, <3>1, <3>2
            DEF FormInvariant, FormTypes, ShowsOwnKey
  <2> QED BY <2>5, <2>6
<1>12. CASE ServerWrites
  <2>1. /\ call \in Saves /\ ShowsOwnKey(call.was)
        /\ page.mode # "list" /\ form.busy = "saving"
    BY <1>2, <1>12 DEF ServerWrites, FormInvariant
  <2>2. /\ call' \in Saves /\ call' # NoCall
        /\ call'.was = call.was /\ call'.at = "written"
    BY <1>12, <2>1, NoCallAssumption DEF ServerWrites, Saves
  <2>3. edit'[Operator] = NoRow
    BY <1>2, <1>12, OperatorAssumption DEF ServerWrites, UpdateWrite
  <2>4. UNCHANGED <<page, form, counts>>
    BY <1>12 DEF ServerWrites
  <2>5. (page.item # NoRow => Sound(page.item))'
    BY <1>2, <1>3, <2>4
  <2> QED BY <1>1, <1>2, <2>1, <2>2, <2>3, <2>4, <2>5
          DEF FormInvariant, FormTypes, ShowsOwnKey
<1>13. CASE Saved \/ Cancel
  <2>1. page' = [mode |-> "list", loading |-> TRUE, item |-> NoRow]
        /\ form' = Blank("create", NoRow)
    BY <1>13 DEF Saved, Cancel
  <2>2. page' \in Page /\ page'.item = NoRow /\ page'.mode = "list"
    BY <2>1 DEF Page
  <2>3. form' \in Fields /\ ShowsOwnKey(form')
    BY <1>5, <2>1
  <2>4. call' = NoCall /\ edit[Operator] = NoRow /\ UNCHANGED <<vault, counts>>
    BY <1>13 DEF Saved, Cancel, FormInvariant
  <2> QED BY <1>1, <1>2, <1>4, <2>2, <2>3, <2>4 DEF FormInvariant, FormTypes, vault
<1>14. CASE SaveFails
  <2>1. form' \in Fields /\ ShowsOwnKey(form')
    BY <1>2, <1>14 DEF SaveFails, Fields, ShowsOwnKey
  <2>2. call' = NoCall /\ edit[Operator] = NoRow /\ UNCHANGED <<vault, page, counts>>
    BY <1>14 DEF SaveFails, FormInvariant
  <2>3. (page.item # NoRow => Sound(page.item))'
    BY <1>2, <1>3, <2>2
  <2> QED BY <1>1, <1>2, <1>4, <2>1, <2>2, <2>3 DEF FormInvariant, FormTypes, vault
<1>15. CASE Others
  <2>1. edit'[Operator] = edit[Operator]
    BY <1>2, <1>15, OperatorAssumption
       DEF Others, Create, CreateRow, Delete, UpdateRead, UpdateReadFor, SSHAuth, UpdateWrite
  <2>2. UNCHANGED <<page, form>> /\ counts' \in [typed: Nat, forms: Nat, others: Nat]
    BY <1>2, <1>15 DEF Others, Used
  <2>3. (page.item # NoRow => Sound(page.item))'
    BY <1>2, <1>3, <2>2
  <2>4. row' \in Credential \cup {NoRow}
    BY <1>1 DEF VaultInvariant, VaultTypeOK
  <2>5. CASE call = NoCall \/ call.at = "written"
    <3>1. call' = call
      BY <1>15, <2>5 DEF Others, SaveSees
    <3> QED BY <1>1, <1>2, <2>1, <2>2, <2>3, <2>5, <3>1
            DEF FormInvariant, FormTypes, ShowsOwnKey
  <2>6. CASE call # NoCall /\ call.at # "written"
    <3>1. call' = [call EXCEPT !.seen = @ \cup ({row'} \ {NoRow})]
      BY <1>15, <2>6 DEF Others, SaveSees
    <3>2. /\ call' \in Saves /\ call' # NoCall
          /\ call'.at = call.at /\ call'.was = call.was
          /\ call.seen \subseteq call'.seen /\ (row' # NoRow => row' \in call'.seen)
      BY <1>2, <2>4, <2>6, <3>1, NoCallAssumption DEF Saves
    <3> QED BY <1>1, <1>2, <2>1, <2>2, <2>3, <2>6, <3>2
            DEF FormInvariant, FormTypes, ShowsOwnKey
  <2> QED BY <2>5, <2>6
<1>16. CASE UNCHANGED formVars
  <2>1. UNCHANGED <<vault, page, form, call, counts>>
    BY <1>16 DEF formVars, vault
  <2> QED BY <1>2, <1>4, <2>1, FieldsMove
<1> QED BY <1>7, <1>8, <1>9, <1>10, <1>11, <1>12, <1>13, <1>14, <1>15, <1>16, FieldsStep
        DEF NextForm

\* A form opens blank, on an empty vault.
LEMMA InitFormInvariant == InitForm => FormInvariant
<1> SUFFICES ASSUME InitForm PROVE FormInvariant
  OBVIOUS
<1>1. VaultInvariant
  BY VaultIsSound DEF InitForm, VaultInit, VaultTypeOK
<1>2. FormTypes
  BY DEF InitForm, FormTypes, Page, Blank, Fields
<1> QED BY <1>1, <1>2, OperatorAssumption
        DEF InitForm, VaultInit, FormInvariant, ShowsOwnKey, Blank

\* Whatever the operator types and others write meanwhile, the rows stay
\* consistent behind the form as well (CredentialForm.tsx handleSubmit).
THEOREM VaultBehindForm == SpecForm => VaultSpec /\ []VaultInvariant
<1>1. InitForm => VaultInit BY DEF InitForm
<1>2. FormInvariant => FormTypes /\ VaultInvariant BY DEF FormInvariant
<1> QED BY <1>1, <1>2, InitFormInvariant, FormStep, FormStepIsVaultStep, PTL DEF SpecForm, VaultSpec

\* Only the Server's handler takes a save further.
LEMMA SaveMoves ==
    ASSUME FormInvariant, [NextForm]_formVars,
           call # NoCall, call' # NoCall, call'.at # call.at
    PROVE  ServerTakes \/ ServerWrites
<1>1. call \in Saves /\ form.busy = "saving" /\ page.mode # "list"
  BY DEF FormInvariant, FormTypes
<1>2. call' # call
  OBVIOUS
<1>3. \A f : Typed(f) => call' = call
  BY DEF Typed
<1>4. ~Others
  BY <1>1 DEF Others, SaveSees, Saves
<1> QED BY <1>1, <1>2, <1>3, <1>4
        DEF NextForm, ListLoads, DeleteListed, Open, ChooseType, TypeKey, TypePhrase,
            ToggleClear, TypePassword, ChooseBecome, TypeBecomeSecret,
            ToggleClearBecome, Generate, GenerateAnswered, GenerateFails, Submit,
            Saved, SaveFails, Cancel, formVars

\* The public key copied from a form is that of the private key its save
\* stores, whatever is typed during the save.
THEOREM CopiedKey == SpecForm => CopiedKeyIsStored
<1>1. FormInvariant /\ [NextForm]_formVars =>
        ((call # NoCall /\ call' # NoCall /\ call'.at = "written" /\ call.at # "written")
          => (call.was.key # NoKey /\ call.was.preview # NoKey /\ row' # NoRow
                => row'.public = call.was.preview))
  <2> SUFFICES ASSUME FormInvariant, [NextForm]_formVars,
                      call # NoCall, call' # NoCall,
                      call'.at = "written", call.at # "written",
                      call.was.key # NoKey, call.was.preview # NoKey, row' # NoRow
               PROVE  row'.public = call.was.preview
    OBVIOUS
  <2>1. /\ call \in Saves /\ call.was \in Fields /\ ShowsOwnKey(call.was)
        /\ form.busy = "saving" /\ page.mode # "list"
    BY DEF FormInvariant, FormTypes, Saves
  <2>2. ServerTakes \/ ServerWrites
    BY SaveMoves
  <2>3. CASE ServerWrites
    BY <2>3 DEF ServerWrites, UpdateWrite, FormInvariant
  <2>4. CASE ServerTakes
    <3>1. CreateRow(call.was.type, FormRequest(call.was))
      BY <2>1, <2>4 DEF ServerTakes, Saves
    <3>2. /\ FormRequest(call.was).key = call.was.preview
          /\ call.was.type = "ssh_key" /\ FormRequest(call.was) \in Request
      BY <2>1, FormRequestType DEF FormRequest, ShowsOwnKey
    <3> QED BY <3>1, <3>2, CreatedKey
  <2> QED BY <2>2, <2>3, <2>4
<1> QED BY <1>1, InitFormInvariant, FormStep, PTL DEF SpecForm, CopiedKeyIsStored

\* "Leave blank to keep": the row a save writes has, in every field left blank,
\* what one row had that was stored while that save was under way.
THEOREM BlankIsKept == SpecForm => BlankKeeps
<1>1. FormInvariant /\ [NextForm]_formVars =>
        (EditWritten => \E s \in call.seen : LeavesAlone(call.was, row', s))
  <2> SUFFICES ASSUME FormInvariant, [NextForm]_formVars, EditWritten
               PROVE  \E s \in call.seen : LeavesAlone(call.was, row', s)
    OBVIOUS
  <2>1. ServerWrites
    BY SaveMoves DEF EditWritten, ServerTakes
  <2>2. row' = edit[Operator] /\ edit[Operator] # NoRow
    BY <2>1 DEF ServerWrites, UpdateWrite, EditWritten
  <2> QED BY <2>2 DEF FormInvariant
<1> QED BY <1>1, InitFormInvariant, FormStep, PTL DEF SpecForm, BlankKeeps
=============================================================================

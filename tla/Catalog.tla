------------------------------- MODULE Catalog -------------------------------
(***************************************************************************)
(* The catalogue: Sites, Credentials and the Hosts that refer to both      *)
(* (internal/site, internal/inventory/hosts.service.go, the credentials    *)
(* table, migrations/00001_init.sql).  Requests of the Portal and of       *)
(* Agents run concurrently; each is a few statements with no transaction   *)
(* around them, so what a request has checked may have gone when it        *)
(* writes.  Behind the checks stand only the foreign keys of the schema,   *)
(* which SQLite enforces on the connections that were told to.             *)
(*                                                                         *)
(* Names, addresses and secrets are left out, except the label of a Host,  *)
(* which the Portal owns.                                                  *)
(***************************************************************************)
EXTENDS Naturals

CONSTANTS
    Sites, Creds, Hosts,   \* ids; every row gets a new one
    DefaultSite,           \* seeded by the migration
    Agents,                \* certificate fingerprints
    Labels,                \* names an operator gives a Host
    NoLabel, None,
    Requests               \* requests under way

ASSUME DefaultAssumption == DefaultSite \in Sites
ASSUME NoneAssumption == None \notin Creds \cup Agents \cup Hosts \cup Sites
ASSUME LabelAssumption == NoLabel \notin Labels

VARIABLES
    sites, creds,   \* the rows of these tables
    hosts,          \* a row for each id, or NoHost
    used,           \* ids that rows have had: none is given twice
    req,            \* the requests
    crossed,        \* history: ids that one request was deleting while another
                    \* had a Host in hand that refers to them
    kept            \* history: Credentials deleted where no foreign key was on

vars == <<sites, creds, hosts, used, req, crossed, kept>>

-----------------------------------------------------------------------------
Row == [site: Sites, cred: Creds \cup {None}, fp: Agents \cup {None},
        label: Labels \cup {NoLabel}]
NoHost == [site |-> None, cred |-> None, fp |-> None, label |-> NoLabel]

Live == {h \in Hosts : hosts[h] # NoHost}

\* row: what the request is about to write, whole.  checks: what is still to be
\* looked up before.  agent: the request is an Agent's.
WriteRequest == [st: {"insert", "update"}, checks: SUBSET {"site", "cred"},
                 host: Hosts, row: Row, agent: BOOLEAN]
DeleteRequest == [st: {"deleteSite"}, checks: {{}}, host: {None},
                  row: {[NoHost EXCEPT !.site = s] : s \in Sites}, agent: {FALSE}]
Idle == [st |-> "idle", checks |-> {}, host |-> None, row |-> NoHost, agent |-> FALSE]

\* SQLite keeps PRAGMA foreign_keys per connection, NewDB sets it on one of the
\* pool, and a statement runs on any of them.
FkOn == BOOLEAN

Init ==
    /\ sites = {DefaultSite}
    /\ creds = {}
    /\ hosts = [h \in Hosts |-> NoHost]
    /\ used = {DefaultSite}
    /\ req = [r \in Requests |-> Idle]
    /\ crossed = {}
    /\ kept = {}

\* uuid.NewString for a row that is not inserted yet.
NewHosts == Hosts \ (used \cup {req[r].host : r \in Requests})

\* The Sites that are being deleted while a Host is written into them.
Crossing(reqs) ==
    {s \in Sites : \E q, r \in Requests :
        /\ reqs[q].st = "deleteSite" /\ reqs[q].row.site = s
        /\ reqs[r].st \in {"insert", "update"} /\ reqs[r].row.site = s}

Goto(r, next) ==
    /\ req' = [req EXCEPT ![r] = next]
    /\ crossed' = crossed \cup Crossing(req')
Answer(r) == Goto(r, Idle)
Pending(r, st) == req[r].st = st /\ req[r].checks = {}

-----------------------------------------------------------------------------
(* Sites and Credentials *)

SiteCreate(r) ==
    /\ req[r].st = "idle"
    /\ \E s \in Sites \ used : sites' = sites \cup {s} /\ used' = used \cup {s}
    /\ UNCHANGED <<creds, hosts, req, crossed, kept>>

\* Mutant of SiteCount: the Hosts of the Site are not counted.
SiteCountForgotten(r) ==
    /\ req[r].st = "idle"
    /\ \E s \in sites : Goto(r, [Idle EXCEPT !.st = "deleteSite", !.row.site = s])
    /\ UNCHANGED <<sites, creds, hosts, used, kept>>

\* Service.Delete, up to the count.
SiteCount(r) ==
    /\ req[r].st = "idle"
    /\ \E s \in sites :
         /\ \A h \in Live : hosts[h].site # s
         /\ Goto(r, [Idle EXCEPT !.st = "deleteSite", !.row.site = s])
    /\ UNCHANGED <<sites, creds, hosts, used, kept>>

\* ...and the statement, which ON DELETE RESTRICT may refuse.
SiteDelete(r) ==
    /\ Pending(r, "deleteSite")
    /\ \E fk \in FkOn :
         sites' = IF fk /\ \E h \in Live : hosts[h].site = req[r].row.site
                  THEN sites ELSE sites \ {req[r].row.site}
    /\ Answer(r)
    /\ UNCHANGED <<creds, hosts, used, kept>>

CredentialCreate(r) ==
    /\ req[r].st = "idle"
    /\ \E c \in Creds \ used : creds' = creds \cup {c} /\ used' = used \cup {c}
    /\ UNCHANGED <<sites, hosts, req, crossed, kept>>

\* ON DELETE SET NULL takes the link out of the Hosts.
CredentialDelete(r) ==
    /\ req[r].st = "idle"
    /\ \E c \in creds, fk \in FkOn :
         /\ creds' = creds \ {c}
         /\ hosts' = [h \in Hosts |->
                        IF fk /\ hosts[h].cred = c THEN [hosts[h] EXCEPT !.cred = None]
                                                   ELSE hosts[h]]
         /\ kept' = IF fk THEN kept ELSE kept \cup {c}
         /\ crossed' = IF \E q \in Requests : req[q].row.cred = c
                       THEN crossed \cup {c} ELSE crossed
    /\ UNCHANGED <<sites, used, req>>

-----------------------------------------------------------------------------
(* Hosts, from the Portal *)

\* Service.Create: the row of the request; nothing is looked up yet.
HostCreate(r) ==
    /\ req[r].st = "idle"
    /\ \E h \in NewHosts, s \in Sites, c \in Creds \cup {None},
          l \in Labels \cup {NoLabel} :
         Goto(r, [st |-> "insert", host |-> h, agent |-> FALSE,
                  checks |-> {"site"} \cup (IF c = None THEN {} ELSE {"cred"}),
                  row |-> [site |-> s, cred |-> c, fp |-> None, label |-> l]])
    /\ UNCHANGED <<sites, creds, hosts, used, kept>>

\* Service.Update: the row read, with the fields of the request laid over it.
\* A field the request leaves out keeps what was read and is not looked up.
HostUpdateRead(r) ==
    /\ req[r].st = "idle"
    /\ \E h \in Live, fields \in SUBSET {"site", "cred", "label"}, s \in Sites,
          c \in Creds \cup {None}, l \in Labels \cup {NoLabel} :
         Goto(r, [st |-> "update", host |-> h, agent |-> FALSE,
                  checks |-> (fields \ {"label"}) \ (IF c = None THEN {"cred"} ELSE {}),
                  row |-> [hosts[h] EXCEPT !.site = IF "site" \in fields THEN s ELSE @,
                                           !.cred = IF "cred" \in fields THEN c ELSE @,
                                           !.label = IF "label" \in fields THEN l ELSE @]])
    /\ UNCHANGED <<sites, creds, hosts, used, kept>>

EnsureSite(r) ==
    /\ "site" \in req[r].checks
    /\ IF req[r].row.site \in sites
       THEN Goto(r, [req[r] EXCEPT !.checks = @ \ {"site"}])
       ELSE Answer(r)
    /\ UNCHANGED <<sites, creds, hosts, used, kept>>

\* Mutant of EnsureCredential: a Credential that is not found is no error.
EnsureCredentialAnyway(r) ==
    /\ req[r].checks = {"cred"}
    /\ Goto(r, [req[r] EXCEPT !.checks = {}])
    /\ UNCHANGED <<sites, creds, hosts, used, kept>>

EnsureCredential(r) ==
    /\ req[r].checks = {"cred"}
    /\ IF req[r].row.cred \in creds
       THEN Goto(r, [req[r] EXCEPT !.checks = {}])
       ELSE Answer(r)
    /\ UNCHANGED <<sites, creds, hosts, used, kept>>

HostDelete(r) ==
    /\ req[r].st = "idle"
    /\ \E h \in Live : hosts' = [hosts EXCEPT ![h] = NoHost]
    /\ UNCHANGED <<sites, creds, used, req, crossed, kept>>

-----------------------------------------------------------------------------
(* Hosts, from their Agents *)

\* UpsertFromAgent, Heartbeat, MarkAgentOffline and MarkAllAgentsOffline: the
\* row that is found is written back whole.
AgentRead(r) ==
    /\ req[r].st = "idle"
    /\ \E h \in Live :
         /\ hosts[h].fp # None
         /\ Goto(r, [st |-> "update", host |-> h, agent |-> TRUE, checks |-> {},
                     row |-> hosts[h]])
    /\ UNCHANGED <<sites, creds, hosts, used, kept>>

\* UpsertFromAgent of an Agent that has no row: into the Default Site.
AgentEnrol(r) ==
    /\ req[r].st = "idle"
    /\ \E a \in Agents, h \in NewHosts :
         /\ \A g \in Live : hosts[g].fp # a
         /\ Goto(r, [st |-> "insert", host |-> h, agent |-> TRUE, checks |-> {},
                     row |-> [site |-> DefaultSite, cred |-> None, fp |-> a,
                              label |-> NoLabel]])
    /\ UNCHANGED <<sites, creds, hosts, used, kept>>

-----------------------------------------------------------------------------
(* The statements *)

\* What the foreign keys of hosts ask of a row.
Refers(row) == row.site \in sites /\ row.cred \in creds \cup {None}

\* INSERT: refused when a reference is broken or the fingerprint is taken.
Insert(r) ==
    /\ Pending(r, "insert")
    /\ \E fk \in FkOn :
         LET row == req[r].row
             taken == row.fp # None /\ \E h \in Live : hosts[h].fp = row.fp
         IN IF taken \/ (fk /\ ~Refers(row))
            THEN UNCHANGED <<hosts, used>>
            ELSE /\ hosts' = [hosts EXCEPT ![req[r].host] = row]
                 /\ used' = used \cup {req[r].host}
    /\ Answer(r)
    /\ UNCHANGED <<sites, creds, kept>>

\* UPDATE of every column, of a row that may have gone.
Update(r) ==
    /\ Pending(r, "update")
    /\ \E fk \in FkOn :
         hosts' = IF req[r].host \notin Live \/ (fk /\ ~Refers(req[r].row))
                  THEN hosts ELSE [hosts EXCEPT ![req[r].host] = req[r].row]
    /\ Answer(r)
    /\ UNCHANGED <<sites, creds, used, kept>>

Portal(r) ==
    \/ SiteCreate(r) \/ SiteCount(r) \/ SiteDelete(r)
    \/ CredentialCreate(r) \/ CredentialDelete(r)
    \/ HostCreate(r) \/ HostUpdateRead(r) \/ EnsureSite(r) \/ EnsureCredential(r)
    \/ HostDelete(r)

Next == \E r \in Requests : Portal(r) \/ AgentRead(r) \/ AgentEnrol(r)
                                      \/ Insert(r) \/ Update(r)

Spec == Init /\ [][Next]_vars

-----------------------------------------------------------------------------
(* Properties *)

TypeOK ==
    /\ sites \subseteq Sites
    /\ creds \subseteq Creds
    /\ hosts \in [Hosts -> Row \cup {NoHost}]
    /\ used \subseteq Sites \cup Creds \cup Hosts
    /\ req \in [Requests -> WriteRequest \cup DeleteRequest \cup {Idle}]
    /\ crossed \subseteq Sites \cup Creds
    /\ kept \subseteq Creds

\* Every Host belongs to a Site that exists ("Hosts belong to one Site").
HostBelongsToSite == \A h \in Live : hosts[h].site \in sites

\* A Host is linked to a Credential that exists or to none ("ON DELETE SET NULL").
CredentialLinkHolds == \A h \in Live : hosts[h].cred \in creds \cup {None}

Grounded(row) ==
    \/ row.site \in sites \cup crossed
    \/ row.site = DefaultSite /\ row.fp # None

Linked(row) == row.cred \in creds \cup {None} \cup crossed \cup kept

\* The checks of the Server do without the foreign keys, but for two things: a Host
\* outlives its Site only if the Site was being deleted while the Host was on its
\* way into it, or as an Agent's Host in the Default Site, which nobody looks up.
SiteLostOnlyInRace == \A h \in Live : Grounded(hosts[h])

\* And a Host links to a Credential that is gone only if that was deleted while a
\* request had such a Host in hand, or by a statement that no foreign key saw.
LinkLostOnlyInRace == \A h \in Live : Linked(hosts[h])

\* An Agent that enrols gets its row ("Default site for Agent upserts").
AgentEnrolled ==
    [][\A r \in Requests :
         (Pending(r, "insert") /\ req[r].agent /\ req'[r] = Idle)
            => \E h \in Hosts : hosts'[h].fp = req[r].row.fp]_vars

\* An Agent's write leaves the label of its Host alone ("optional friendly
\* label; Agent only fills hostname").
AgentKeepsLabel ==
    [][\A r \in Requests :
         (Pending(r, "update") /\ req[r].agent /\ req'[r] = Idle)
            => \A h \in Hosts : hosts'[h].label = hosts[h].label]_vars

-----------------------------------------------------------------------------
(* Inductive invariant (proved in CatalogProofs) *)

\* What a request has checked it may write, and a Site whose deletion nobody has
\* crossed has no Host.
ReferenceInvariant ==
    /\ SiteLostOnlyInRace /\ LinkLostOnlyInRace
    /\ \A r \in Requests : req[r].st \in {"insert", "update"} =>
         /\ "site" \notin req[r].checks => Grounded(req[r].row)
         /\ "cred" \notin req[r].checks => Linked(req[r].row)
    /\ \A r \in Requests : req[r].st = "deleteSite" =>
         req[r].row.site \in crossed \/ \A h \in Live : hosts[h].site # req[r].row.site
    /\ Crossing(req) \subseteq crossed
=============================================================================

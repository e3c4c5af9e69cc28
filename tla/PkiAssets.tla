------------------------------ MODULE PkiAssets ------------------------------
(***************************************************************************)
(* The local development PKI (internal/pki/pki.go): six files in a shared  *)
(* temporary directory, which whoever starts first, Server or Agent,       *)
(* creates and replaces when they near their end, and which each process   *)
(* loads once, at its start.                                               *)
(*                                                                         *)
(* One run of EnsureAssets makes a generation: a CA and two leaf           *)
(* certificates signed by it, with their keys.  A file is open-truncated   *)
(* and then written, so a crash leaves it torn; nothing is renamed into    *)
(* place and nothing locks the directory.                                  *)
(***************************************************************************)
EXTENDS Naturals, FiniteSets, Sequences, SequencesExt

CONSTANTS
    Gens,        \* generations, each made at most once
    NoGen,       \* nothing loaded; no generation under way
    Together,    \* may a process start while the other is starting?
    MaxCrashes   \* bound on processes killed while they start

ASSUME NoGenAssumption == NoGen \notin Gens
ASSUME NamesAssumption == "absent" \notin Gens /\ "torn" \notin Gens
ASSUME BoundsAssumption == Together \in BOOLEAN /\ MaxCrashes \in Nat

VARIABLES
    files,    \* what each file holds: a generation, "absent" or "torn"
    old,      \* generations that near their end
    proc,     \* the Server and the Agent
    crashes

vars == <<files, old, proc, crashes>>

-----------------------------------------------------------------------------
\* In the order EnsureAssets writes them.
WriteOrder ==
    <<"caCert", "caKey", "serverCert", "serverKey", "clientCert", "clientKey">>

Files == ToSet(WriteOrder)
Certificates == {"caCert", "serverCert", "clientCert"}
Procs == {"server", "agent"}

\* left: the files still to be written; up: the TLS config is loaded.
Proc == [st: {"down", "check", "write", "torn", "load", "up"},
         gen: Gens \cup {NoGen}, left: 0..Len(WriteOrder),
         leaf: Gens \cup {NoGen}, ca: Gens \cup {NoGen}]

Down == [st |-> "down", gen |-> NoGen, left |-> 0, leaf |-> NoGen, ca |-> NoGen]

CertOf(p) == IF p = "server" THEN "serverCert" ELSE "clientCert"
KeyOf(p) == IF p = "server" THEN "serverKey" ELSE "clientKey"

\* A generation nobody has used.
Made == {files[f] : f \in Files} \cup old \cup {proc[p].gen : p \in Procs}
          \cup {proc[p].leaf : p \in Procs} \cup {proc[p].ca : p \in Procs}

\* Mutant of AssetsValid: the end of the certificates is not looked at.
AssetsExist ==
    /\ \A f \in Files : files[f] # "absent"
    /\ \A f \in Certificates : files[f] \in Gens

\* assetsValid: every file exists, every certificate parses and has an hour
\* left.  Keys are not read, nor is who signed what compared.
AssetsValid ==
    /\ \A f \in Files : files[f] # "absent"
    /\ \A f \in Certificates : files[f] \in Gens \ old

Init ==
    /\ files = [f \in Files |-> "absent"]
    /\ old = {}
    /\ proc = [p \in Procs |-> Down]
    /\ crashes = 0

-----------------------------------------------------------------------------
Starting(p) == proc[p].st \notin {"down", "up"}

SetProc(p, q) == proc' = [proc EXCEPT ![p] = q]

\* EnsureAssets is the first thing the Agent does, and what Hub.start does
\* before it listens.
Start(p) ==
    /\ proc[p].st = "down"
    /\ Together \/ \A q \in Procs : ~Starting(q)
    /\ SetProc(p, [Down EXCEPT !.st = "check"])
    /\ UNCHANGED <<files, old, crashes>>

\* EnsureAssets: keep what is valid, else make a generation in memory.
Check(p) ==
    /\ proc[p].st = "check"
    /\ IF AssetsValid
       THEN SetProc(p, [proc[p] EXCEPT !.st = "load"])
       ELSE \E g \in Gens \ Made :
              SetProc(p, [proc[p] EXCEPT !.st = "write", !.gen = g,
                                         !.left = Len(WriteOrder)])
    /\ UNCHANGED <<files, old, crashes>>

\* The file that is next.
Current(p) == WriteOrder[Len(WriteOrder) - proc[p].left + 1]

\* writePEM: O_TRUNC...
Truncate(p) ==
    /\ proc[p].st = "write"
    /\ files' = [files EXCEPT ![Current(p)] = "torn"]
    /\ SetProc(p, [proc[p] EXCEPT !.st = "torn"])
    /\ UNCHANGED <<old, crashes>>

\* Mutant of Encode: the keys of an earlier generation are kept.
EncodeCertificates(p) ==
    /\ proc[p].st = "torn"
    /\ files' = [files EXCEPT
                   ![Current(p)] = IF Current(p) \in Certificates THEN proc[p].gen ELSE @]
    /\ SetProc(p, [proc[p] EXCEPT !.st = IF proc[p].left = 1 THEN "load" ELSE "write",
                                  !.left = @ - 1])
    /\ UNCHANGED <<old, crashes>>

\* ...and the encoding.
Encode(p) ==
    /\ proc[p].st = "torn"
    /\ files' = [files EXCEPT ![Current(p)] = proc[p].gen]
    /\ SetProc(p, [proc[p] EXCEPT !.st = IF proc[p].left = 1 THEN "load" ELSE "write",
                                  !.left = @ - 1])
    /\ UNCHANGED <<old, crashes>>

\* LoadServerTLSConfig, LoadClientTLSConfig: X509KeyPair wants the key of the
\* certificate; the CA needs only parse.
Loadable(p) ==
    /\ files[CertOf(p)] \in Gens
    /\ files[KeyOf(p)] = files[CertOf(p)]
    /\ files["caCert"] \in Gens

Load(p) ==
    /\ proc[p].st = "load"
    /\ Loadable(p)
    /\ SetProc(p, [Down EXCEPT !.st = "up", !.leaf = files[CertOf(p)],
                               !.ca = files["caCert"]])
    /\ UNCHANGED <<files, old, crashes>>

\* The start fails, the process exits; its operator starts it again.
LoadFails(p) ==
    /\ proc[p].st = "load"
    /\ ~Loadable(p)
    /\ SetProc(p, Down)
    /\ UNCHANGED <<files, old, crashes>>

\* Killed while it starts.
Crash(p) ==
    /\ Starting(p)
    /\ crashes < MaxCrashes
    /\ crashes' = crashes + 1
    /\ SetProc(p, Down)
    /\ UNCHANGED <<files, old>>

\* A process that runs is stopped.
Stop(p) ==
    /\ proc[p].st = "up"
    /\ SetProc(p, Down)
    /\ UNCHANGED <<files, old, crashes>>

\* Leaves live thirty days.  A start takes seconds: no generation ages during
\* one.
Age(g) ==
    /\ g \in Made \ old
    /\ \A p \in Procs : ~Starting(p)
    /\ old' = old \cup {g}
    /\ Cardinality(Gens \ Made) > MaxCrashes  \* bound: new ones can still be made
    /\ UNCHANGED <<files, proc, crashes>>

Step(p) == Check(p) \/ Truncate(p) \/ Encode(p) \/ Load(p) \/ LoadFails(p)

Next ==
    \/ \E p \in Procs : Start(p) \/ Step(p) \/ Crash(p) \/ Stop(p)
    \/ \E g \in Gens : Age(g)

Spec == Init /\ [][Next]_vars

\* A process that starts goes on; one that is down is started again when the
\* other one is not starting.
Fairness == \A p \in Procs : SF_vars(Start(p)) /\ WF_vars(Step(p))

FairSpec == Spec /\ Fairness

-----------------------------------------------------------------------------
(* Properties *)

TypeOK ==
    /\ files \in [Files -> Gens \cup {"absent", "torn"}]
    /\ old \subseteq Gens
    /\ proc \in [Procs -> Proc]
    /\ crashes \in 0..MaxCrashes

Up(p) == proc[p].st = "up"

\* The Server and the Agent accept each other: each one's certificate is signed
\* by the CA the other has loaded, and no certificate has run out.
Handshake ==
    /\ proc["server"].leaf = proc["agent"].ca
    /\ proc["agent"].leaf = proc["server"].ca
    /\ {proc["server"].leaf, proc["agent"].leaf} \cap old = {}

\* Between starts the directory holds one generation, unless a start was killed:
\* whoever replaces it replaces it all, the other's certificate with its own.
DirectoryInvariant ==
    /\ TypeOK
    /\ (crashes = 0 /\ \A p \in Procs : ~Starting(p)) => \A f, g \in Files : files[f] = files[g]

\* What EnsureAssets has just checked or written can be loaded, in spite of what
\* earlier starts, of either process and of other generations, left behind - as
\* long as none was killed.
EnsuredAssetsLoad ==
    \A p \in Procs : (crashes = 0 /\ proc[p].st = "load") => Loadable(p)

\* A process never comes up on a certificate that is about to end: the six
\* files are replaced first.
LoadsNoOldCertificate ==
    [][\A p \in Procs :
         (~Up(p) /\ Up(p)') => {proc'[p].leaf, proc'[p].ca} \cap old = {}]_vars

\* Server and Agent that both run on what the directory holds now can talk,
\* whichever of them created it, and whatever starts were killed between two
\* writes: a mixed directory is never taken for a valid one.
CurrentPairTalks ==
    (/\ \A p \in Procs : Up(p) /\ proc[p].leaf = files[CertOf(p)]
                            /\ proc[p].ca = files["caCert"])
        => proc["server"].leaf = proc["agent"].ca /\ proc["agent"].leaf = proc["server"].ca

\* What a start ensures, it can load and talk with.
EnsuredAssetsWork == EnsuredAssetsLoad /\ CurrentPairTalks

\* Two processes that start at once agree on one PKI ("On first start, Server
\* or Agent creates a local development CA plus server/client certificates").
StartedTogetherTalk ==
    (old = {} /\ \A p \in Procs : Up(p)) => Handshake

\* A start succeeds, at once or after the restarts that follow its failure: the
\* directory never gets into a state that EnsureAssets takes for valid and the
\* loader refuses ("On first start, Server or Agent creates ... certificates").
StartsAtLast == \A p \in Procs : Starting(p) ~> Up(p)

\* The same as long as no start is killed.
StartsUnlessKilled == \A p \in Procs : Starting(p) ~> (Up(p) \/ crashes > 0)

\* Unless it is killed a start ends up, and on certificates that will last.
StartsWell == LoadsNoOldCertificate /\ StartsUnlessKilled

\* An Agent that stays up gets its link back from a Server that went away and
\* stays up again on certificates that are good ("reconnects with backoff if
\* Server goes away").
AgentReconnects ==
    (<>[]Up("agent") /\ <>[](Up("server") /\ proc["server"].leaf \notin old))
        => <>[](proc["server"].leaf = proc["agent"].ca)
=============================================================================

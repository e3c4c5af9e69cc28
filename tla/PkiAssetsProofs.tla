--------------------------- MODULE PkiAssetsProofs ---------------------------
(***************************************************************************)
(* Theorems about PkiAssets, for starts that do not overlap, any number of *)
(* generations and any number of killed starts.                            *)
(*                                                                         *)
(* The files are written in one order, and the Agent's certificate is the  *)
(* last certificate: what is found after a killed start is either whole    *)
(* or has an Agent's certificate that is not valid, or no Agent's key.     *)
(***************************************************************************)
EXTENDS PkiAssets, TLAPS

\* The file to write when n are left, and those written by then.
Target(n) == WriteOrder[Len(WriteOrder) - n + 1]
Done(n) == {WriteOrder[i] : i \in 1..(Len(WriteOrder) - n)}

Writing(p) == proc[p].st \in {"write", "torn"}

\* All certificates are of one generation.
OneIssuer == \A f, g \in Certificates : files[f] = files[g]

\* The last certificate or the last key gives away that something is wrong.
Unfinished == files["clientCert"] \notin Gens \ old \/ files["clientKey"] = "absent"

-----------------------------------------------------------------------------
(* The parts of the inductive invariant *)

OneStarts == \A p, q \in Procs : Starting(p) /\ Starting(q) => p = q

\* A start that writes has a generation that will last, and has written the
\* files before the one whose turn it is.
WritesInOrder ==
    \A p \in Procs : Writing(p) =>
        /\ proc[p].gen \in Gens \ old
        /\ proc[p].left \in 1..Len(WriteOrder)
        /\ \A f \in Done(proc[p].left) : files[f] = proc[p].gen

\* What is missing is missing from somewhere to the end.
MissingToTheEnd ==
    \A f \in Files \ {"clientKey"} :
        files[f] = "absent" => files["clientCert"] = "absent"

MixedIsUnfinished == OneIssuer \/ Unfinished

\* Until it has written the last certificate, a start can be told to be one.
UnfinishedUntilWritten ==
    \A p \in Procs : Writing(p) /\ proc[p].left > 1 => Unfinished

\* What is about to be loaded was checked or written, and lasts.
LoadsWhole ==
    \A p \in Procs : proc[p].st = "load" => OneIssuer /\ files["caCert"] \in Gens \ old

\* A process that is up has a certificate of the CA it trusts.
OwnCa == \A p \in Procs : Up(p) => proc[p].leaf = proc[p].ca

WholeUnlessKilled ==
    (crashes = 0 /\ \A p \in Procs : ~Writing(p)) => \A f, g \in Files : files[f] = files[g]

AssetsInvariant ==
    /\ TypeOK
    /\ OneStarts
    /\ WritesInOrder
    /\ MissingToTheEnd
    /\ MixedIsUnfinished
    /\ UnfinishedUntilWritten
    /\ LoadsWhole
    /\ OwnCa
    /\ WholeUnlessKilled

-----------------------------------------------------------------------------
(* The order of the files *)

\* The files by name.
LEMMA SixFiles ==
    /\ Len(WriteOrder) = 6
    /\ Files = {"caCert", "caKey", "serverCert", "serverKey", "clientCert", "clientKey"}
    /\ Certificates \subseteq Files
    /\ Procs = {"server", "agent"}
<1>1. Len(WriteOrder) = 6
  BY DEF WriteOrder
<1>2. DOMAIN WriteOrder = 1..6
  BY DEF WriteOrder
<1>3. 1..6 = {1, 2, 3, 4, 5, 6}
  OBVIOUS
<1>4. Files = {WriteOrder[1], WriteOrder[2], WriteOrder[3], WriteOrder[4], WriteOrder[5],
               WriteOrder[6]}
  BY <1>2, <1>3 DEF Files, ToSet
<1>5. Files = {"caCert", "caKey", "serverCert", "serverKey", "clientCert", "clientKey"}
  BY <1>4 DEF WriteOrder
<1> QED
  BY <1>1, <1>5 DEF Certificates, Procs

\* Each write adds its file to those that are written.
LEMMA EachInTurn ==
    ASSUME NEW n \in 1..6
    PROVE  /\ Target(n) \in Files \ Done(n)
           /\ Done(n - 1) = Done(n) \cup {Target(n)}
<1>1. Done(n) = {WriteOrder[i] : i \in 1..(6 - n)}
      /\ Done(n - 1) = {WriteOrder[i] : i \in 1..(6 - (n - 1))}
      /\ Target(n) = WriteOrder[6 - n + 1]
  BY SixFiles DEF Done, Target
<1>2. 1..(6 - (n - 1)) = 1..(6 - n) \cup {6 - n + 1}
  OBVIOUS
<1>3. \A i \in 1..(6 - n) : i \in 1..6 /\ i # 6 - n + 1
  OBVIOUS
<1>4. 6 - n + 1 \in 1..6
  OBVIOUS
<1>5. \A i, j \in 1..6 : i # j => WriteOrder[i] # WriteOrder[j]
  BY DEF WriteOrder
<1>6. \A i \in 1..6 : WriteOrder[i] \in Files
  BY DEF WriteOrder, Files, ToSet
<1> QED
  BY <1>1, <1>2, <1>3, <1>4, <1>5, <1>6

\* The Agent's certificate and key come last.
LEMMA AgentLast ==
    /\ Target(2) = "clientCert"
    /\ Target(1) = "clientKey"
    /\ \A n \in 3..6 : Target(n) \notin {"clientCert", "clientKey"}
    /\ Done(6) = {}
    /\ Done(2) = Files \ {"clientCert", "clientKey"}
    /\ Done(1) = Files \ {"clientKey"}
    /\ Done(0) = Files
<1>1. Target(2) = "clientCert" /\ Target(1) = "clientKey"
  BY SixFiles DEF Target, WriteOrder
<1>2. ASSUME NEW n \in 3..6 PROVE Target(n) \notin {"clientCert", "clientKey"}
  <2>1. n = 3 \/ n = 4 \/ n = 5 \/ n = 6
    OBVIOUS
  <2>2. Target(n) = WriteOrder[6 - n + 1]
    BY SixFiles DEF Target
  <2>3. /\ WriteOrder[1] = "caCert" /\ WriteOrder[2] = "caKey"
        /\ WriteOrder[3] = "serverCert" /\ WriteOrder[4] = "serverKey"
    BY DEF WriteOrder
  <2> QED
    BY <2>1, <2>2, <2>3
<1>3. Done(6) = {}
  BY SixFiles DEF Done
<1>4. Done(2) = Files \ {"clientCert", "clientKey"}
  <2>1. 1..(6 - 2) = {1, 2, 3, 4}
    OBVIOUS
  <2>2. Done(2) = {WriteOrder[1], WriteOrder[2], WriteOrder[3], WriteOrder[4]}
    BY <2>1, SixFiles DEF Done
  <2> QED
    BY <2>2, SixFiles DEF WriteOrder
<1>5. Done(1) = Files \ {"clientKey"}
  BY <1>1, <1>4, SixFiles, EachInTurn
<1>6. Done(0) = Files
  BY <1>1, <1>5, SixFiles, EachInTurn
<1> QED
  BY <1>1, <1>2, <1>3, <1>4, <1>5, <1>6

-----------------------------------------------------------------------------
(* Facts about one state *)

\* A process that is down is a process.
LEMMA DownTypes == Down \in Proc /\ Down.st = "down"
BY SixFiles DEF Down, Proc

\* The fields of a process.
LEMMA ProcTypes ==
    ASSUME TypeOK, NEW p \in Procs
    PROVE  /\ proc[p] \in Proc
           /\ proc[p].st \in {"down", "check", "write", "torn", "load", "up"}
           /\ proc[p].left \in 0..6
           /\ proc[p].gen \in Gens \cup {NoGen}
BY SixFiles DEF TypeOK, Proc

\* An empty directory satisfies the invariant.
LEMMA InitHolds ==
    ASSUME Init
    PROVE  AssetsInvariant
<1>1. \A p \in Procs : proc[p] = Down
  BY DEF Init
<1>2. \A f \in Files : files[f] = "absent"
  BY DEF Init
<1>3. TypeOK
  BY DownTypes, BoundsAssumption DEF Init, TypeOK
<1>4. Unfinished
  BY <1>2, SixFiles DEF Unfinished
<1>5. \A p \in Procs : ~Starting(p) /\ ~Writing(p) /\ ~Up(p) /\ proc[p].st # "load"
  BY <1>1, DownTypes DEF Starting, Writing, Up
<1>6. MissingToTheEnd /\ WholeUnlessKilled
  BY <1>2, SixFiles DEF MissingToTheEnd, WholeUnlessKilled
<1> QED
  BY <1>3, <1>4, <1>5, <1>6
  DEF AssetsInvariant, OneStarts, WritesInOrder, MixedIsUnfinished,
      UnfinishedUntilWritten, LoadsWhole, OwnCa

\* Valid assets are those of one generation that will last; assets that are not
\* valid can be told to be unfinished.
LEMMA ValidIsWhole ==
    ASSUME AssetsInvariant
    PROVE  /\ AssetsValid => OneIssuer /\ files["caCert"] \in Gens \ old
           /\ ~AssetsValid => Unfinished
<1>1. ASSUME AssetsValid PROVE OneIssuer /\ files["caCert"] \in Gens \ old
  <2>1. ~Unfinished
    BY <1>1, SixFiles DEF AssetsValid, Unfinished, Certificates
  <2> QED
    BY <1>1, <2>1 DEF AssetsInvariant, MixedIsUnfinished, AssetsValid, Certificates
<1>2. ASSUME ~AssetsValid PROVE Unfinished
  <2>1. CASE \E f \in Files : files[f] = "absent"
    BY <2>1, NamesAssumption DEF AssetsInvariant, MissingToTheEnd, Unfinished
  <2>2. CASE \E f \in Certificates : files[f] \notin Gens \ old
    BY <2>2 DEF AssetsInvariant, MixedIsUnfinished, OneIssuer, Unfinished, Certificates
  <2> QED
    BY <1>2, <2>1, <2>2 DEF AssetsValid
<1> QED
  BY <1>1, <1>2

\* What is about to be loaded fits, unless a start was killed.
LEMMA WholeLoads ==
    ASSUME AssetsInvariant, NEW p \in Procs, proc[p].st = "load", crashes = 0
    PROVE  Loadable(p)
<1>1. \A q \in Procs : ~Writing(q)
  BY DEF AssetsInvariant, OneStarts, Starting, Writing
<1>2. \A f, g \in Files : files[f] = files[g]
  BY <1>1 DEF AssetsInvariant, WholeUnlessKilled
<1>3. files["caCert"] \in Gens
  BY DEF AssetsInvariant, LoadsWhole
<1> QED
  BY <1>2, <1>3, SixFiles DEF Loadable, CertOf, KeyOf

-----------------------------------------------------------------------------
(* The steps *)

\* A process goes on and the files stay as they are.
LEMMA FilesStay ==
    ASSUME AssetsInvariant, NEW p \in Procs, NEW q \in Proc, SetProc(p, q),
           UNCHANGED <<files, old>>, crashes' \in 0..MaxCrashes,
           q.st \in {"down", "check", "load", "up"},
           q.st \in {"check", "load"} => \A r \in Procs \ {p} : ~Starting(r),
           q.st = "load" => OneIssuer /\ files["caCert"] \in Gens \ old,
           q.st = "up" => q.leaf = q.ca,
           crashes' = 0 => crashes = 0 /\ ~Writing(p)
    PROVE  AssetsInvariant'
<1>1. proc' = [proc EXCEPT ![p] = q] /\ proc \in [Procs -> Proc]
  BY DEF SetProc, AssetsInvariant, TypeOK
<1>2. proc'[p] = q /\ \A r \in Procs \ {p} : proc'[r] = proc[r]
  BY <1>1
<1>3. TypeOK'
  BY <1>1 DEF AssetsInvariant, TypeOK
<1>4. OneStarts'
  BY <1>2 DEF AssetsInvariant, OneStarts, Starting
<1>5. WritesInOrder' /\ UnfinishedUntilWritten'
  BY <1>2 DEF AssetsInvariant, WritesInOrder, UnfinishedUntilWritten, Writing, Unfinished
<1>6. MissingToTheEnd' /\ MixedIsUnfinished'
  BY DEF AssetsInvariant, MissingToTheEnd, MixedIsUnfinished, OneIssuer, Unfinished
<1>7. LoadsWhole' /\ OwnCa'
  BY <1>2 DEF AssetsInvariant, LoadsWhole, OneIssuer, OwnCa, Up
<1>8. WholeUnlessKilled'
  BY <1>2 DEF AssetsInvariant, WholeUnlessKilled, Writing
<1> QED
  BY <1>3, <1>4, <1>5, <1>6, <1>7, <1>8 DEF AssetsInvariant

\* The one that starts is the only one.
LEMMA OthersRest ==
    ASSUME AssetsInvariant, NEW p \in Procs, Starting(p)
    PROVE  \A r \in Procs \ {p} : ~Starting(r)
BY DEF AssetsInvariant, OneStarts

\* A start that looks at the assets keeps it.
LEMMA CheckStep ==
    ASSUME AssetsInvariant, NEW p \in Procs, Check(p)
    PROVE  AssetsInvariant'
<1>0. proc[p] \in Proc /\ crashes \in 0..MaxCrashes /\ ~Writing(p)
  BY ProcTypes DEF AssetsInvariant, TypeOK, Check, Writing
<1>1. \A r \in Procs \ {p} : ~Starting(r)
  BY OthersRest DEF Check, Starting
<1>2. CASE AssetsValid
  <2>1. SetProc(p, [proc[p] EXCEPT !.st = "load"])
    BY <1>2 DEF Check
  <2>2. [proc[p] EXCEPT !.st = "load"] \in Proc /\ [proc[p] EXCEPT !.st = "load"].st = "load"
    BY <1>0 DEF Proc
  <2>3. OneIssuer /\ files["caCert"] \in Gens \ old
    BY <1>2, ValidIsWhole
  <2> QED
    BY <1>0, <1>1, <2>1, <2>2, <2>3, FilesStay DEF Check
<1>3. CASE ~AssetsValid
  <2> PICK g \in Gens \ Made :
             SetProc(p, [proc[p] EXCEPT !.st = "write", !.gen = g, !.left = Len(WriteOrder)])
    BY <1>3 DEF Check
  <2> DEFINE q == [proc[p] EXCEPT !.st = "write", !.gen = g, !.left = Len(WriteOrder)]
  <2>1. q \in Proc /\ q.st = "write" /\ q.gen = g /\ q.left = 6
    <3>1. Len(WriteOrder) \in 0..Len(WriteOrder)
      BY SixFiles
    <3>2. q \in Proc
      BY <1>0, <3>1 DEF Proc
    <3> QED
      BY <1>0, <3>2, SixFiles DEF Proc
  <2>2. proc'[p] = q /\ (\A r \in Procs \ {p} : proc'[r] = proc[r]) /\ TypeOK'
    BY <2>1 DEF SetProc, AssetsInvariant, TypeOK, Check
  <2>3. g \in Gens \ old
    BY DEF Made
  <2>4. Unfinished /\ UNCHANGED <<files, old, crashes>>
    BY <1>3, ValidIsWhole DEF Check
  <2> HIDE DEF q
  <2>5. OneStarts'
    BY <1>1, <2>2 DEF OneStarts, Starting
  <2>6. WritesInOrder'
    BY <1>1, <2>1, <2>2, <2>3, <2>4, AgentLast, SixFiles DEF WritesInOrder, Writing, Starting
  <2>7. UnfinishedUntilWritten' /\ MixedIsUnfinished'
    BY <2>4 DEF UnfinishedUntilWritten, MixedIsUnfinished, Unfinished
  <2>8. MissingToTheEnd'
    BY <2>4 DEF AssetsInvariant, MissingToTheEnd
  <2>9. LoadsWhole' /\ OwnCa'
    BY <2>1, <2>2, <2>4 DEF AssetsInvariant, LoadsWhole, OneIssuer, OwnCa, Up
  <2>10. WholeUnlessKilled'
    BY <2>1, <2>2 DEF WholeUnlessKilled, Writing
  <2> QED
    BY <2>2, <2>5, <2>6, <2>7, <2>8, <2>9, <2>10 DEF AssetsInvariant
<1> QED
  BY <1>2, <1>3

\* The file whose turn it is gets something else: those written stay written,
\* and until the Agent's certificate is whole nothing is finished.
LEMMA Rewritten ==
    ASSUME AssetsInvariant, NEW p \in Procs, Writing(p), UNCHANGED old,
           NEW v \in {"torn", proc[p].gen},
           files' = [files EXCEPT ![Target(proc[p].left)] = v]
    PROVE  /\ files' \in [Files -> Gens \cup {"absent", "torn"}]
           /\ files'[Target(proc[p].left)] = v
           /\ \A f \in Done(proc[p].left) : files'[f] = proc[p].gen
           /\ MissingToTheEnd'
           /\ proc[p].left > 2 => Unfinished'
           /\ proc[p].left = 2 /\ v = "torn" => Unfinished'
           /\ proc[p].left = 1 => OneIssuer'
<1> DEFINE n == proc[p].left
<1> DEFINE g == proc[p].gen
<1>1. n \in 1..6 /\ g \in Gens \ old /\ \A f \in Done(n) : files[f] = g
  BY SixFiles DEF AssetsInvariant, WritesInOrder
<1>2. files \in [Files -> Gens \cup {"absent", "torn"}]
  BY DEF AssetsInvariant, TypeOK
<1>3. Target(n) \in Files \ Done(n) /\ Done(n) \subseteq Files
  <2>1. Done(n) \subseteq Files
    BY <1>1, SixFiles DEF Done, Files, ToSet, WriteOrder
  <2> QED
    BY <1>1, <2>1, EachInTurn
<1>4. files'[Target(n)] = v /\ \A f \in Files \ {Target(n)} : files'[f] = files[f]
  BY <1>2, <1>3
<1>5. v \in Gens \cup {"torn"} /\ v # "absent"
  BY <1>1, NamesAssumption
<1>6. files' \in [Files -> Gens \cup {"absent", "torn"}]
  BY <1>2, <1>3, <1>5
<1>7. \A f \in Done(n) : files'[f] = g
  BY <1>1, <1>3, <1>4
<1> HIDE DEF n, g
<1>8. CASE n > 2
  <2>1. Target(n) \notin {"clientCert", "clientKey"}
    BY <1>1, <1>8, AgentLast
  <2>2. files'["clientCert"] = files["clientCert"] /\ files'["clientKey"] = files["clientKey"]
    BY <1>4, <2>1, SixFiles
  <2>3. Unfinished
    BY <1>1, <1>8 DEF AssetsInvariant, UnfinishedUntilWritten, n
  <2>4. Unfinished'
    BY <2>2, <2>3 DEF Unfinished
  <2>5. MissingToTheEnd'
    BY <1>4, <1>5, <2>2 DEF AssetsInvariant, MissingToTheEnd
  <2> QED
    BY <1>1, <1>4, <1>6, <1>7, <1>8, <2>4, <2>5 DEF n, g
<1>9. CASE n = 2
  <2>1. files'["clientCert"] = v
    BY <1>4, <1>9, AgentLast
  <2>2. v = "torn" => Unfinished'
    BY <2>1, NamesAssumption DEF Unfinished
  <2>3. MissingToTheEnd'
    BY <1>1, <1>5, <1>7, <1>9, <2>1, AgentLast, NamesAssumption DEF MissingToTheEnd
  <2> QED
    BY <1>4, <1>6, <1>7, <1>9, <2>2, <2>3 DEF n, g
<1>10. CASE n = 1
  <2>1. \A f \in Files \ {"clientKey"} : files'[f] = g
    BY <1>7, <1>10, AgentLast
  <2>2. OneIssuer'
    BY <2>1, SixFiles DEF OneIssuer, Certificates
  <2>3. MissingToTheEnd'
    BY <1>1, <2>1, NamesAssumption DEF MissingToTheEnd
  <2> QED
    BY <1>4, <1>6, <1>7, <1>10, <2>2, <2>3 DEF n, g
<1> QED
  BY <1>1, <1>8, <1>9, <1>10

\* So does one that empties the next file.
LEMMA TruncateStep ==
    ASSUME AssetsInvariant, NEW p \in Procs, Truncate(p)
    PROVE  AssetsInvariant'
<1> DEFINE q == [proc[p] EXCEPT !.st = "torn"]
<1>1. proc[p] \in Proc /\ proc[p].left \in 1..6 /\ Writing(p)
  BY ProcTypes, SixFiles DEF Truncate, Writing, AssetsInvariant, WritesInOrder
<1>2. q \in Proc /\ q.st = "torn" /\ q.gen = proc[p].gen /\ q.left = proc[p].left
  BY <1>1 DEF Proc
<1>3. proc'[p] = q /\ \A r \in Procs \ {p} : proc'[r] = proc[r]
  BY DEF Truncate, SetProc, AssetsInvariant, TypeOK
<1>4. proc' \in [Procs -> Proc]
  BY <1>2 DEF Truncate, SetProc, AssetsInvariant, TypeOK
<1>5. files' = [files EXCEPT ![Target(proc[p].left)] = "torn"] /\ UNCHANGED <<old, crashes>>
  BY DEF Truncate, Current, Target
<1>6. \A r \in Procs \ {p} : ~Starting(r)
  BY OthersRest DEF Truncate, Starting
<1> HIDE DEF q
<1>7. /\ files' \in [Files -> Gens \cup {"absent", "torn"}]
      /\ \A f \in Done(proc[p].left) : files'[f] = proc[p].gen
      /\ MissingToTheEnd'
      /\ proc[p].left > 1 => Unfinished'
      /\ proc[p].left = 1 => OneIssuer'
  <2>1. /\ files' \in [Files -> Gens \cup {"absent", "torn"}]
        /\ \A f \in Done(proc[p].left) : files'[f] = proc[p].gen
        /\ MissingToTheEnd'
        /\ proc[p].left > 2 => Unfinished'
        /\ proc[p].left = 2 => Unfinished'
        /\ proc[p].left = 1 => OneIssuer'
    BY <1>1, <1>5, Rewritten
  <2>2. proc[p].left > 1 => proc[p].left > 2 \/ proc[p].left = 2
    BY <1>1
  <2> QED
    BY <2>1, <2>2
<1>8. TypeOK'
  BY <1>4, <1>5, <1>7 DEF AssetsInvariant, TypeOK
<1>9. OneStarts'
  BY <1>3, <1>6 DEF OneStarts, Starting
<1>10. WritesInOrder'
  BY <1>1, <1>2, <1>3, <1>5, <1>6, <1>7
  DEF AssetsInvariant, WritesInOrder, Writing, Starting
<1>11. MixedIsUnfinished' /\ UnfinishedUntilWritten'
  BY <1>1, <1>2, <1>3, <1>6, <1>7
  DEF MixedIsUnfinished, UnfinishedUntilWritten, Writing, Starting
<1>12. LoadsWhole' /\ OwnCa' /\ WholeUnlessKilled'
  BY <1>2, <1>3, <1>6 DEF AssetsInvariant, LoadsWhole, OwnCa, Up, WholeUnlessKilled, Writing, Starting
<1> QED
  BY <1>7, <1>8, <1>9, <1>10, <1>11, <1>12 DEF AssetsInvariant

\* So does one that fills it.
LEMMA EncodeStep ==
    ASSUME AssetsInvariant, NEW p \in Procs, Encode(p)
    PROVE  AssetsInvariant'
<1> DEFINE n == proc[p].left
<1> DEFINE g == proc[p].gen
<1> DEFINE q == [proc[p] EXCEPT !.st = IF n = 1 THEN "load" ELSE "write", !.left = n - 1]
<1>1. proc[p] \in Proc /\ n \in 1..6 /\ g \in Gens \ old /\ Writing(p)
  BY ProcTypes, SixFiles DEF Encode, Writing, AssetsInvariant, WritesInOrder
<1>2. /\ q \in Proc
      /\ q.st = (IF n = 1 THEN "load" ELSE "write")
      /\ q.gen = g
      /\ q.left = n - 1
  <2>1. n - 1 \in 0..Len(WriteOrder)
    BY <1>1, SixFiles
  <2>2. (IF n = 1 THEN "load" ELSE "write") \in {"load", "write"}
    OBVIOUS
  <2>3. q \in Proc
    BY <1>1, <2>1, <2>2 DEF Proc
  <2> QED
    BY <1>1, <2>3 DEF Proc
<1>3. proc'[p] = q /\ \A r \in Procs \ {p} : proc'[r] = proc[r]
  BY DEF Encode, SetProc, AssetsInvariant, TypeOK
<1>4. proc' \in [Procs -> Proc]
  BY <1>2 DEF Encode, SetProc, AssetsInvariant, TypeOK
<1>5. files' = [files EXCEPT ![Target(n)] = g] /\ UNCHANGED <<old, crashes>>
  BY DEF Encode, Current, Target
<1>6. \A r \in Procs \ {p} : ~Starting(r)
  BY OthersRest DEF Encode, Starting
<1>7. /\ files' \in [Files -> Gens \cup {"absent", "torn"}]
      /\ files'[Target(n)] = g
      /\ \A f \in Done(n) : files'[f] = g
      /\ MissingToTheEnd'
      /\ n > 2 => Unfinished'
  BY <1>1, <1>5, Rewritten
<1> HIDE DEF q, n, g
<1>8. \A f \in Done(n - 1) : files'[f] = g
  BY <1>1, <1>7, EachInTurn
<1>9. n \in {1, 2} => OneIssuer' /\ files'["caCert"] = g
  BY <1>8, AgentLast, SixFiles DEF OneIssuer, Certificates
<1>10. n = 1 => \A f \in Files : files'[f] = g
  BY <1>8, AgentLast
<1>11. TypeOK'
  BY <1>4, <1>5, <1>7 DEF AssetsInvariant, TypeOK
<1>12. OneStarts'
  BY <1>3, <1>6 DEF OneStarts, Starting
<1>13. WritesInOrder'
  BY <1>1, <1>2, <1>3, <1>5, <1>6, <1>8, SixFiles DEF WritesInOrder, Writing, Starting
<1>14. MixedIsUnfinished' /\ UnfinishedUntilWritten'
  BY <1>1, <1>2, <1>3, <1>6, <1>7, <1>9
  DEF MixedIsUnfinished, UnfinishedUntilWritten, Writing, Starting
<1>15. LoadsWhole'
  BY <1>1, <1>2, <1>3, <1>5, <1>6, <1>9 DEF LoadsWhole, Starting
<1>16. OwnCa'
  BY <1>2, <1>3 DEF AssetsInvariant, OwnCa, Up
<1>17. WholeUnlessKilled'
  BY <1>2, <1>3, <1>10 DEF WholeUnlessKilled, Writing
<1> QED
  BY <1>7, <1>11, <1>12, <1>13, <1>14, <1>15, <1>16, <1>17 DEF AssetsInvariant

\* So does the passing of time.
LEMMA AgeStep ==
    ASSUME AssetsInvariant, NEW g \in Gens, Age(g)
    PROVE  AssetsInvariant'
<1>1. \A p \in Procs : ~Starting(p)
  BY DEF Age
<1>2. old' = old \cup {g} /\ UNCHANGED <<files, proc, crashes>>
  BY DEF Age
<1>3. Unfinished => Unfinished'
  BY <1>2 DEF Unfinished
<1> QED
  BY <1>1, <1>2, <1>3
  DEF AssetsInvariant, TypeOK, OneStarts, Starting, WritesInOrder, Writing, MissingToTheEnd,
      MixedIsUnfinished, OneIssuer, UnfinishedUntilWritten, LoadsWhole, OwnCa, Up,
      WholeUnlessKilled

\* Starts that do not overlap.
LEMMA StartStep ==
    ASSUME ~Together, AssetsInvariant, NEW p \in Procs, Start(p)
    PROVE  AssetsInvariant'
<1> DEFINE q == [Down EXCEPT !.st = "check"]
<1>1. q \in Proc /\ q.st = "check"
  BY DownTypes DEF Proc, Down
<1>2. SetProc(p, q) /\ UNCHANGED <<files, old, crashes>> /\ \A r \in Procs : ~Starting(r)
  BY DEF Start
<1>3. crashes \in 0..MaxCrashes /\ ~Writing(p)
  BY <1>2 DEF AssetsInvariant, TypeOK, Writing, Starting
<1> HIDE DEF q
<1> QED
  BY <1>1, <1>2, <1>3, FilesStay

\* What a process that comes up has loaded.
LEMMA LoadStep ==
    ASSUME AssetsInvariant, NEW p \in Procs, Load(p)
    PROVE  /\ AssetsInvariant'
           /\ {proc'[p].leaf, proc'[p].ca} \cap old = {}
           /\ \A r \in Procs \ {p} : proc'[r] = proc[r]
<1> DEFINE q == [Down EXCEPT !.st = "up", !.leaf = files[CertOf(p)], !.ca = files["caCert"]]
<1>1. files[CertOf(p)] = files["caCert"] /\ files["caCert"] \in Gens \ old
  BY DEF Load, AssetsInvariant, LoadsWhole, OneIssuer, CertOf, Certificates
<1>2. q \in Proc /\ q.st = "up" /\ q.leaf = files["caCert"] /\ q.ca = files["caCert"]
  BY <1>1, DownTypes DEF Proc, Down
<1>3. SetProc(p, q) /\ UNCHANGED <<files, old, crashes>>
  BY DEF Load
<1>4. crashes \in 0..MaxCrashes /\ ~Writing(p)
  BY DEF AssetsInvariant, TypeOK, Writing, Load
<1> HIDE DEF q
<1>5. AssetsInvariant'
  BY <1>2, <1>3, <1>4, FilesStay
<1>6. proc'[p] = q /\ \A r \in Procs \ {p} : proc'[r] = proc[r]
  BY <1>3 DEF SetProc, AssetsInvariant, TypeOK
<1> QED
  BY <1>1, <1>2, <1>5, <1>6

\* A start that fails, is killed, or a process that is stopped.
LEMMA EndStep ==
    ASSUME AssetsInvariant, NEW p \in Procs, LoadFails(p) \/ Crash(p) \/ Stop(p)
    PROVE  AssetsInvariant'
<1>1. SetProc(p, Down) /\ UNCHANGED <<files, old>>
  BY DEF LoadFails, Crash, Stop
<1>2. crashes \in 0..MaxCrashes
  BY DEF AssetsInvariant, TypeOK
<1>3. crashes' \in 0..MaxCrashes /\ (crashes' = 0 => crashes = 0 /\ ~Writing(p))
  BY <1>2, BoundsAssumption DEF LoadFails, Crash, Stop, Writing
<1> QED
  BY <1>1, <1>3, DownTypes, FilesStay

\* So does every step, where starts do not overlap.
LEMMA NextStep ==
    ASSUME ~Together, AssetsInvariant, [Next]_vars
    PROVE  AssetsInvariant'
<1>1. CASE UNCHANGED vars
  BY <1>1
  DEF vars, AssetsInvariant, TypeOK, OneStarts, Starting, WritesInOrder, Writing,
      MissingToTheEnd, MixedIsUnfinished, OneIssuer, Unfinished, UnfinishedUntilWritten,
      LoadsWhole, OwnCa, Up, WholeUnlessKilled
<1>2. CASE Next
  BY <1>2, StartStep, CheckStep, TruncateStep, EncodeStep, LoadStep, EndStep, AgeStep
  DEF Next, Step
<1> QED
  BY <1>1, <1>2

\* It holds in every reachable state.
LEMMA InvariantHolds ==
    ASSUME ~Together PROVE Spec => []AssetsInvariant
<1>1. Init => AssetsInvariant
  BY InitHolds
<1>2. AssetsInvariant /\ [Next]_vars => AssetsInvariant'
  BY NextStep
<1> QED
  BY <1>1, <1>2, PTL DEF Spec

-----------------------------------------------------------------------------
(* The theorems *)

\* As long as no start is killed and none overlaps another, the directory holds
\* one generation between starts, for any number of them.
THEOREM DirectoryIsWhole ==
    ASSUME ~Together PROVE Spec => []DirectoryInvariant
<1>1. AssetsInvariant => DirectoryInvariant
  BY DEF AssetsInvariant, WholeUnlessKilled, DirectoryInvariant, Writing, Starting
<1> QED
  BY <1>1, InvariantHolds, PTL

\* What EnsureAssets found or made can be loaded unless a start was killed, and
\* however many were killed, a Server and an Agent that run on what the
\* directory holds trust each other.
THEOREM AssetsWork ==
    ASSUME ~Together PROVE Spec => []EnsuredAssetsWork
<1>1. AssetsInvariant => EnsuredAssetsLoad
  BY WholeLoads DEF EnsuredAssetsLoad
<1>2. AssetsInvariant => CurrentPairTalks
  BY DEF AssetsInvariant, OwnCa, CurrentPairTalks, Procs
<1> QED
  BY <1>1, <1>2, InvariantHolds, PTL DEF EnsuredAssetsWork

\* However many starts were killed, no process comes up on a certificate that
\* nears its end.
THEOREM NoOldCertificate ==
    ASSUME ~Together PROVE Spec => LoadsNoOldCertificate
<1>1. AssetsInvariant /\ [Next]_vars
        => [\A p \in Procs :
              (~Up(p) /\ Up(p)') => {proc'[p].leaf, proc'[p].ca} \cap old = {}]_vars
  <2> SUFFICES ASSUME AssetsInvariant, Next, NEW p \in Procs, ~Up(p), Up(p)'
               PROVE  {proc'[p].leaf, proc'[p].ca} \cap old = {}
    OBVIOUS
  <2>1. ASSUME NEW r \in Procs, NEW q, q.st # "up", SetProc(r, q) PROVE FALSE
    BY <2>1 DEF SetProc, AssetsInvariant, TypeOK, Up
  <2>2. ASSUME NEW r \in Procs, Start(r) PROVE FALSE
    <3>1. [Down EXCEPT !.st = "check"].st = "check"
      BY DEF Down
    <3> QED
      BY <2>1, <2>2, <3>1 DEF Start
  <2>3. ASSUME NEW r \in Procs, Check(r) \/ Truncate(r) \/ Encode(r) PROVE FALSE
    <3>1. proc[r] \in Proc
      BY ProcTypes DEF AssetsInvariant
    <3>2. CASE Check(r)
      <4>1. [proc[r] EXCEPT !.st = "load"].st = "load"
        BY <3>1 DEF Proc
      <4>2. \A g : [proc[r] EXCEPT !.st = "write", !.gen = g, !.left = Len(WriteOrder)].st
                     = "write"
        BY <3>1 DEF Proc
      <4> QED
        BY <2>1, <3>2, <4>1, <4>2 DEF Check
    <3>3. CASE Truncate(r)
      <4>1. [proc[r] EXCEPT !.st = "torn"].st = "torn"
        BY <3>1 DEF Proc
      <4> QED
        BY <2>1, <3>3, <4>1 DEF Truncate
    <3>4. CASE Encode(r)
      <4> DEFINE q == [proc[r] EXCEPT !.st = IF proc[r].left = 1 THEN "load" ELSE "write",
                                      !.left = @ - 1]
      <4>1. q.st # "up"
        BY <3>1 DEF Proc
      <4>2. SetProc(r, q)
        BY <3>4 DEF Encode
      <4> HIDE DEF q
      <4> QED
        BY <2>1, <4>1, <4>2
    <3> QED
      BY <2>3, <3>2, <3>3, <3>4
  <2>4. ASSUME NEW r \in Procs, LoadFails(r) \/ Crash(r) \/ Stop(r) PROVE FALSE
    BY <2>1, <2>4, DownTypes DEF LoadFails, Crash, Stop
  <2>5. ASSUME NEW r \in Procs, Load(r)
        PROVE  {proc'[p].leaf, proc'[p].ca} \cap old = {}
    <3>1. r = p
      BY <2>5, LoadStep DEF Up
    <3> QED
      BY <2>5, <3>1, LoadStep
  <2>6. ASSUME NEW g \in Gens, Age(g) PROVE FALSE
    BY <2>6 DEF Age, Up
  <2> QED
    BY <2>2, <2>3, <2>4, <2>5, <2>6 DEF Next, Step
<1> QED
  BY <1>1, InvariantHolds, PTL DEF Spec, LoadsNoOldCertificate
=============================================================================

------------------------------ MODULE ScanPool ------------------------------
(***************************************************************************)
(* One Discovery scan (internal/discovery/scan.go, discovery.service.go):  *)
(* a CIDR is checked and expanded into addresses, the handler feeds them   *)
(* to a pool of workers through a buffered channel, each worker probes one *)
(* address at a time, and the deadline of the scan, or the browser hanging *)
(* up, cuts all of it short.                                               *)
(*                                                                         *)
(* An address is its number; private ranges and DNS names are left out.    *)
(* Candidates are sorted by their text: .10 comes before .2.               *)
(***************************************************************************)
EXTENDS Integers, FiniteSets, Sequences

CONSTANTS
    Width,      \* bits of an address (32)
    MinBits,    \* validateScanCIDR: the shortest prefix (23)
    MaxHosts,   \* maxHosts (512)
    Workers,    \* scanWorkers goroutines...
    Buffer,     \* ...and as many places in the channel
    Requested,  \* prefixes asked for, as [addr, bits]
    Networks,   \* what answers at each address: functions to SUBSET Methods
    Rank,       \* the place of each address in the order of their text
    NoAddr

ASSUME WidthAssumption == Width \in Nat /\ MinBits \in 0..Width
ASSUME LimitAssumption == MaxHosts = 2^(Width - MinBits)
ASSUME PowersAssumption ==  \* arithmetic, which the provers lack for 2^n
    /\ \A m, n \in 0..Width : m <= n => 2^m \in 1..(2^n) /\ 2^n % 2^m = 0
    /\ 2^2 = 4
ASSUME RankAssumption ==
    \A a, b \in 0..(2^Width - 1) : Rank[a] \in Nat /\ (Rank[a] = Rank[b] => a = b)
ASSUME PoolAssumption == Buffer \in Nat \ {0} /\ IsFiniteSet(Workers) /\ Workers # {}

VARIABLES
    prefix,    \* the request, masked
    network,   \* what answers
    expired,   \* scanCtx is done
    main,      \* the handler: where it is, addresses sent so far, was it cut short
    jobs,      \* the channel
    worker,    \* the workers
    out        \* candidates found so far

pool == <<prefix, network, expired, main, jobs, worker, out>>

-----------------------------------------------------------------------------
Methods == {"icmp", "tcp"}
Addr == 0..(2^Width - 1)

ASSUME InputsAssumption ==
    Requested \subseteq [addr: Addr, bits: 0..Width] /\ Networks \subseteq [Addr -> SUBSET Methods]

Size(p) == 2^(Width - p.bits)
Masked(p) == [p EXCEPT !.addr = @ - (@ % Size(p))]

\* Mutant of ExpandHosts: a /31 loses both of its addresses.
ExpandHostsShort(p) ==
    LET all == [i \in 1..Size(p) |-> p.addr + i - 1]
    IN IF p.bits < Width THEN SubSeq(all, 2, Len(all) - 1) ELSE all

\* expandHosts: the loop gives up after one address too many; the first and the
\* last are the network's own, except in a /31 and a /32.
ExpandHosts(p) ==
    LET count == IF Size(p) > MaxHosts THEN MaxHosts + 1 ELSE Size(p)
        all == [i \in 1..count |-> p.addr + i - 1]
    IN IF p.bits <= Width - 2 THEN SubSeq(all, 2, Len(all) - 1) ELSE all

Hosts == ExpandHosts(prefix)

IdleWorker == [st |-> "recv", ip |-> NoAddr, methods |-> {}]

\* Service.Scan up to the start of the pool: what validateScanCIDR refuses is
\* answered at once.  What it lets through is never empty, nor too large for
\* scanCIDR, whose own tests of that find nothing (LimitAssumption).
ScanStarted(p) == [st |-> IF p.bits < MinBits THEN "refused" ELSE "send",
                   sent |-> 0, cut |-> FALSE]

NoScan == [st |-> "none", sent |-> 0, cut |-> FALSE]
NoJobs == [queue |-> <<>>, closed |-> FALSE]

\* Before the first scan.
PoolInit ==
    /\ prefix = [addr |-> 0, bits |-> Width]
    /\ network \in Networks
    /\ expired = FALSE
    /\ main = NoScan
    /\ jobs = NoJobs
    /\ worker = [w \in Workers |-> IdleWorker]
    /\ out = <<>>

\* A request: what was left of the scan before is not looked at again.
PoolStarts(p) ==
    /\ prefix' = Masked(p)
    /\ main' = ScanStarted(p)
    /\ expired' = FALSE
    /\ jobs' = NoJobs
    /\ worker' = [w \in Workers |-> IdleWorker]
    /\ out' = <<>>
    /\ UNCHANGED network

-----------------------------------------------------------------------------
(* The handler *)

Running == main.st \in {"send", "wait"}

\* The deadline passes, or the request's own context ends.
Expire ==
    /\ Running
    /\ ~expired
    /\ expired' = TRUE
    /\ UNCHANGED <<prefix, network, main, jobs, worker, out>>

SendJob ==
    /\ main.st = "send"
    /\ main.sent < Len(Hosts)
    /\ Len(jobs.queue) < Buffer
    /\ jobs' = [jobs EXCEPT !.queue = Append(@, Hosts[main.sent + 1])]
    /\ main' = [main EXCEPT !.sent = @ + 1]
    /\ UNCHANGED <<prefix, network, expired, worker, out>>

\* Mutant of Cut: the channel is left open.
CutLeavesOpen ==
    /\ main.st = "send"
    /\ main.sent < Len(Hosts)
    /\ expired
    /\ main' = [main EXCEPT !.st = "wait", !.cut = TRUE]
    /\ UNCHANGED <<prefix, network, expired, jobs, worker, out>>

\* The other arm of the select, which may win even when there is room.
Cut ==
    /\ main.st = "send"
    /\ main.sent < Len(Hosts)
    /\ expired
    /\ jobs' = [jobs EXCEPT !.closed = TRUE]
    /\ main' = [main EXCEPT !.st = "wait", !.cut = TRUE]
    /\ UNCHANGED <<prefix, network, expired, worker, out>>

AllSent ==
    /\ main.st = "send"
    /\ main.sent = Len(Hosts)
    /\ jobs' = [jobs EXCEPT !.closed = TRUE]
    /\ main' = [main EXCEPT !.st = "wait"]
    /\ UNCHANGED <<prefix, network, expired, worker, out>>

\* The candidates in the order of their text, each at its place.
Place(cs, i) == Cardinality({j \in DOMAIN cs : Rank[cs[j].ip] <= Rank[cs[i].ip]})
Sorted(cs) == [k \in DOMAIN cs |-> cs[CHOOSE i \in DOMAIN cs : Place(cs, i) = k]]

\* wg.Wait; the candidates are sorted only when the scan was not cut short.
Return ==
    /\ main.st = "wait"
    /\ \A w \in Workers : worker[w].st = "done"
    /\ main' = [main EXCEPT !.st = "returned"]
    /\ out' = IF main.cut THEN out ELSE Sorted(out)
    /\ UNCHANGED <<prefix, network, expired, jobs, worker>>

-----------------------------------------------------------------------------
(* The workers *)

SetWorker(w, v) == worker' = [worker EXCEPT ![w] = v]

\* An address that is taken after the deadline is dropped with its worker.
Take(w) ==
    /\ worker[w].st = "recv"
    /\ jobs.queue # <<>>
    /\ jobs' = [jobs EXCEPT !.queue = Tail(@)]
    /\ SetWorker(w, [IdleWorker EXCEPT !.st = IF expired THEN "done" ELSE "ping",
                                       !.ip = IF expired THEN NoAddr ELSE Head(jobs.queue)])
    /\ UNCHANGED <<prefix, network, expired, main, out>>

\* The end of the range loop.
Drained(w) ==
    /\ worker[w].st = "recv"
    /\ jobs.queue = <<>>
    /\ jobs.closed
    /\ SetWorker(w, [IdleWorker EXCEPT !.st = "done"])
    /\ UNCHANGED <<prefix, network, expired, main, jobs, out>>

\* Ping and dials run under scanCtx: once it is done nothing answers.
Answers(w, m) == m \in network[worker[w].ip] /\ ~expired

Ping(w) ==
    /\ worker[w].st = "ping"
    /\ SetWorker(w, [worker[w] EXCEPT !.st = "tcp",
                                      !.methods = IF Answers(w, "icmp") THEN {"icmp"} ELSE {}])
    /\ UNCHANGED <<prefix, network, expired, main, jobs, out>>

\* TCPPorts, and probeHost's verdict: an address that is silent is no candidate.
Dial(w) ==
    /\ worker[w].st = "tcp"
    /\ LET found == worker[w].methods \cup (IF Answers(w, "tcp") THEN {"tcp"} ELSE {})
       IN SetWorker(w, IF found = {} THEN IdleWorker
                       ELSE [worker[w] EXCEPT !.st = "append", !.methods = found])
    /\ UNCHANGED <<prefix, network, expired, main, jobs, out>>

\* Under mu.
Found(w) ==
    /\ worker[w].st = "append"
    /\ out' = Append(out, [ip |-> worker[w].ip, methods |-> worker[w].methods])
    /\ SetWorker(w, IdleWorker)
    /\ UNCHANGED <<prefix, network, expired, main, jobs>>

Handler == SendJob \/ Cut \/ AllSent \/ Return
Worker(w) == Take(w) \/ Drained(w) \/ Ping(w) \/ Dial(w) \/ Found(w)

PoolNext == Expire \/ Handler \/ \E w \in Workers : Worker(w)

-----------------------------------------------------------------------------
(* Properties *)

MainState == [st: {"none", "refused", "send", "wait", "returned"},
              sent: 0..MaxHosts, cut: BOOLEAN]
Jobs == [queue: Seq(Addr), closed: BOOLEAN]
WorkerState == [st: {"recv", "ping", "tcp", "append", "done"},
                ip: Addr \cup {NoAddr}, methods: SUBSET Methods]
Candidate == [ip: Addr, methods: SUBSET Methods]

\* Every variable stays in its domain, the channel in its capacity.
PoolTypeOK ==
    /\ prefix \in [addr: Addr, bits: 0..Width]
    /\ network \in [Addr -> SUBSET Methods]
    /\ expired \in BOOLEAN
    /\ main \in MainState
    /\ jobs \in Jobs /\ Len(jobs.queue) <= Buffer
    /\ worker \in [Workers -> WorkerState]
    /\ out \in Seq(Candidate)

\* The addresses of a network that a host can have, by its definition.
Usable ==
    LET all == {a \in Addr : a - (a % Size(prefix)) = prefix.addr}
    IN IF prefix.bits >= Width - 1 THEN all
       ELSE all \ {prefix.addr, prefix.addr + Size(prefix) - 1}

\* A scan that met no deadline found every usable address that answers, once,
\* with everything it answers to, in the order of the addresses' text, however
\* the workers took turns.
FullScanIsComplete ==
    (main.st = "returned" /\ ~expired)
        => /\ {[ip |-> out[i].ip, methods |-> out[i].methods] : i \in DOMAIN out}
                = {[ip |-> a, methods |-> network[a]] :
                     a \in {b \in Usable : network[b] # {}}}
           /\ \A i, j \in DOMAIN out : i < j => Rank[out[i].ip] < Rank[out[j].ip]

\* A scan that was cut short reports part of the truth ("Partial results on
\* deadline are OK") and nothing else: addresses of the network that answered,
\* none of them twice.
PartialScanIsTrue ==
    /\ \A i \in DOMAIN out :
         out[i].ip \in Usable /\ out[i].methods # {} /\ out[i].methods \subseteq network[out[i].ip]
    /\ \A i, j \in DOMAIN out : out[i].ip = out[j].ip => i = j

AnswerIsRight == FullScanIsComplete /\ PartialScanIsTrue

\* Every scan returns, with or without a deadline: the handler is never left
\* with a full channel and no worker, nor the workers with an open one.
ScanReturns == Running ~> ~Running
=============================================================================

--------------------------- MODULE MCDiscoveryPanel ---------------------------
(* DiscoveryPanel on addresses of four bits: a "/32" is a prefix of four bits. *)
EXTENDS DiscoveryPanel, TLC

\* Requests as they may be typed: host bits set, too large, and of eight, four,
\* two and one addresses, at the start and at the end of a range.
MCRequested == {[addr |-> 6, bits |-> 0], [addr |-> 0, bits |-> 1],
                [addr |-> 13, bits |-> 2], [addr |-> 6, bits |-> 3],
                [addr |-> 15, bits |-> 4]}

\* The second scan looks again at addresses of the first.
MCRescans == {[addr |-> 6, bits |-> 3], [addr |-> 15, bits |-> 4]}

\* "10" to "15" come between "1" and "2".
MCRank == [a \in 0..15 |-> IF a < 2 THEN a ELSE IF a < 10 THEN a + 6 ELSE a - 8]

\* Some addresses answer ping only, some dials only, some both, some nothing.
MCNetworks ==
    {[a \in 0..15 |-> IF a % 2 = 1 THEN {"icmp"} ELSE IF a % 3 = 1 THEN {"tcp"} ELSE {}],
     [a \in 0..15 |-> IF a \in {1, 6, 7, 14, 15} THEN {"icmp", "tcp"} ELSE {}]}

\* One scan alone, of every prefix there is (ScanPrefixes.cfg).
MCPrefixes == [addr: {0, 6, 13, 15}, bits: 0..4]
MCPatterns ==
    {[a \in 0..15 |-> IF a % 2 = k THEN {"icmp"} ELSE IF a % 3 = k THEN {"tcp"} ELSE {}] : k \in 0..1}
      \cup {[a \in 0..15 |-> IF a = 5 THEN {} ELSE {"icmp", "tcp"}]}

MCInventories == {{2, 7}}
=============================================================================

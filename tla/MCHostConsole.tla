---------------------------- MODULE MCHostConsole ----------------------------
(* HostConsole on small instances: ids and runs are interchangeable. *)
EXTENDS HostConsole, TLC

Interchangeable == Permutations(Ids) \cup Permutations(Sockets)
=============================================================================

---------------------------- MODULE MCAgentShells ----------------------------
(* AgentShells on small instances. *)
EXTENDS AgentShells

LinksAndShells == Permutations(Links) \cup Permutations(Shells)
=============================================================================

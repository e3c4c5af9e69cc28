--------------------------- MODULE MCAgentPresence ---------------------------
(* AgentPresence on small instances: constants and symmetry for TLC. *)
EXTENDS AgentPresence, TLC

\* Connections and row ids are interchangeable; used by safety runs only.
ConnsAndHosts == Permutations(Conns) \cup Permutations(Hosts)
=============================================================================

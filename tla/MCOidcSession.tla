---------------------------- MODULE MCOidcSession ----------------------------
(* OidcSession on small instances. *)
EXTENDS OidcSession, TLC

Interchangeable ==
    Permutations(Calls) \cup Permutations(Gens) \cup Permutations(Logins)
        \cup Permutations(Mounts)
=============================================================================

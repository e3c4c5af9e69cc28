------------------------------ MODULE MCCatalog ------------------------------
(* Catalog on small instances. *)
EXTENDS Catalog, TLC

\* Ids are interchangeable; the Default Site is not one of OtherSites.
CONSTANT OtherSites
Symmetry == Permutations(Hosts) \cup Permutations(Creds) \cup Permutations(Requests)
             \cup Permutations(OtherSites)
=============================================================================

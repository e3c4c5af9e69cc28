----------------------------- MODULE MCPkiAssets -----------------------------
(* PkiAssets on small instances. *)
EXTENDS PkiAssets
=============================================================================

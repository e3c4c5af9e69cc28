--------------------------- MODULE MCCredentialForm ---------------------------
(* CredentialForm on a small instance: a key with a passphrase, and one that *)
(* the Server generates.                                                     *)
EXTENDS CredentialForm

CONSTANTS k1, k2, p1

MCLockOf(k) == IF k = k1 THEN p1 ELSE NoPhrase
=============================================================================

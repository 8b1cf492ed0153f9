------------------------- MODULE MCCredentialReads -------------------------
(* CredentialReads for TLC. *)
EXTENDS CredentialReads, TLC
CONSTANTS t1, t2
Two == {t1, t2}
=============================================================================

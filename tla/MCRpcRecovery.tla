--------------------------- MODULE MCRpcRecovery ---------------------------
(* RpcRecovery for TLC. *)
EXTENDS RpcRecovery, TLC
CONSTANTS c1
OneCall == {c1}
Both == BOOLEAN
=============================================================================

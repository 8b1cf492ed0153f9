--------------------------- MODULE MCProfileNames ---------------------------
(* Instances of ProfileNames for TLC. *)
EXTENDS ProfileNames, TLC

CONSTANTS c1, c2, p1, p2, a1, a2
MCCommands == {c1, c2}
MCNames == {p1, p2}
MCAccounts == {a1, a2}
Symmetry == Permutations(MCCommands) \cup Permutations(MCNames) \cup Permutations(MCAccounts)
=============================================================================

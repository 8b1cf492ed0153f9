---------------------------- MODULE MCBrowserLogins ----------------------------
(***************************************************************************)
(* Two commands at a time, on two profiles.                                *)
(***************************************************************************)
EXTENDS BrowserLogins, TLC
CONSTANTS c1, c2, p1, p2
TwoCommands == {c1, c2}
TwoProfiles == {p1, p2}
Symmetry == Permutations(TwoCommands)
=============================================================================

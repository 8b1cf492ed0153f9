---------------------------- MODULE MCDownloads ----------------------------
(* Downloads for TLC: two artifacts of one title, both streamed or both written in place. *)
EXTENDS Downloads, TLC
CONSTANTS a, b, p, q
Both == {a, b}
AllKinds == {{}, {a, b}}
OneTitle == [x \in Both |-> "notes"]
Two == {p, q}
=============================================================================

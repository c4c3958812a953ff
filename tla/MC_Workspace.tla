---------------------------- MODULE MC_Workspace ----------------------------
(* Workspace with the values TLC needs. *)
EXTENDS Workspace, TLC

CONSTANTS u1, c1, c2
MCUpstream == {u1}
MCChanges == {c1, c2}
MCSymmetry == Permutations(Changes)
=============================================================================

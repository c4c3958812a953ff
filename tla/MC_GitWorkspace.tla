-------------------------- MODULE MC_GitWorkspace --------------------------
(* GitWorkspace with the values TLC needs. *)
EXTENDS GitWorkspace, TLC

CONSTANTS c1, c2
MCChanges == {c1, c2}
MCSymmetry == Permutations(Changes)
MCPush == {TRUE}
MCNoPush == {FALSE}
=============================================================================

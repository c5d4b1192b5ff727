------------------------------ MODULE MCRecovery ------------------------------
(* Small instance of Recovery. *)
EXTENDS Recovery, TLC

CONSTANTS m1, m2, m3, r1, r2, r3, x1
MCMessage == {m1, m2, m3}
MCRun     == {r1, r2, r3}
Symm      == Permutations(MCMessage) \cup Permutations(MCRun)
=============================================================================

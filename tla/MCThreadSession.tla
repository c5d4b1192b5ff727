--------------------------- MODULE MCThreadSession ---------------------------
(* Small instance of ThreadSession for TLC. *)
EXTENDS ThreadSession, TLC

CONSTANTS m1, m2, m3, r1, r2, a1, c1, x1

MCMessage  == {m1, m2, m3}
MCRun      == {r1, r2}
MCApproval == {a1}
MCCall     == {c1}
MCRunner   == {x1}
Symm == Permutations(MCMessage) \cup Permutations(MCRun)
=============================================================================

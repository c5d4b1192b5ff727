----------------------------- MODULE MCToolRun -----------------------------
(* Three tools: a submission that needs a permit, a read of the file it goes *)
(* by and a read of another file.                                            *)
EXTENDS ToolRun

CONSTANTS read, look, submit

MCResource == [t \in Tools |-> IF t = look THEN "other" ELSE "file"]
=============================================================================

------------------------------- MODULE MCWire -------------------------------
(* Small instances of Wire: threads that share one workspace. *)
EXTENDS Wire, TLC

CONSTANTS t1, t2, k1, m1, m2, m3, m4, x1, x2

MCKeyOf == [t \in Thread |-> k1]

\* One runner object per thread, or two of them for one thread.
MCOwner       == (x1 :> t1) @@ (x2 :> t2)
MCOwnerReopen == (x1 :> t1) @@ (x2 :> t1)

MCInputs       == (t1 :> {m1, m2}) @@ (t2 :> {m3})
MCInputsLong   == (t1 :> {m1, m2, m3}) @@ (t2 :> {m4})
MCInputsReopen == (t1 :> {m1, m2, m3})
=============================================================================

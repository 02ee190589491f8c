----------------------------- MODULE MCTraceCheck -----------------------------
(***************************************************************************)
(* An instance of TraceCheck for TLC: the main thread and a worker.        *)
(***************************************************************************)
EXTENDS TraceCheck, TLC

CONSTANTS c1, c2

TwoChildren == {c1, c2}
AlikeChildren == Permutations(TwoChildren)
===============================================================================

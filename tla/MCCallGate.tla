----------------------------- MODULE MCCallGate -----------------------------
(***************************************************************************)
(* Instances of CallGate for TLC: two game threads, which are model values *)
(* (a property with a fairness condition rules out symmetry, and without   *)
(* it the graph is small enough).                                          *)
(***************************************************************************)
EXTENDS CallGate

CONSTANTS t1, t2

GameThreads == {t1, t2}
=============================================================================

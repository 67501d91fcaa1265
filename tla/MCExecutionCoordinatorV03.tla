---------------------- MODULE MCExecutionCoordinatorV03 ----------------------
(* Two sessions one after the other, two calls and two adapters.           *)
EXTENDS ExecutionCoordinatorV03

CONSTANTS s1, s2, c1, c2, a1, a2
=============================================================================

-------------------------- MODULE MCTerminationV04 --------------------------
(* TerminationV04 with two compensations and one writer.                  *)
EXTENDS TerminationV04, TLC

CONSTANTS c1, c2, w1

MCCompensations == {c1, c2}
MCWriters == {w1}
Interchangeable == Permutations(MCCompensations)
=============================================================================

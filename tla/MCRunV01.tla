------------------------------- MODULE MCRunV01 -------------------------------
(* Two processes that each run one command on one run directory, and three *)
(* loops: one that evidence can satisfy, one whose own no-t5 gate is weak, *)
(* and one with a blocking gate that asks for nothing.                     *)
EXTENDS RunV01

CONSTANTS p1, p2, k1, e1

Gate(id, blocking, inputs) == [id |-> id, blocking |-> blocking, inputs |-> inputs]

MCProcs == {p1, p2}
MCSealers == {p1}
MCPlanners == {k1}
MCInputs == {e1}
MCLoops ==
  {[t5 |-> FALSE, gates |-> <<Gate("review", TRUE, {e1})>>],
   [t5 |-> TRUE, gates |-> <<Gate("no-t5", FALSE, {})>>],
   [t5 |-> FALSE, gates |-> <<Gate("empty", TRUE, {})>>]}
=============================================================================

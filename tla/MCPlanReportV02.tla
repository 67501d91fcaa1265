--------------------------- MODULE MCPlanReportV02 ---------------------------
(* Two planners with one run id, and three builders; the renderer of the   *)
(* third is of another version, or they all have the same.                 *)
EXTENDS PlanReportV02, TLC

CONSTANTS k1, k2, b1, b2, b3, g1, g2

MCGeneration == [b \in {b1, b2, b3} |-> IF b = b3 THEN g2 ELSE g1]
OneGeneration == [b \in {b1, b2, b3} |-> g1]
Interchangeable == Permutations({k1, k2}) \cup Permutations({b1, b2})
AllInterchangeable == Permutations({b1, b2, b3})
=============================================================================

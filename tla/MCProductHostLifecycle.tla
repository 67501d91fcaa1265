---------------------- MODULE MCProductHostLifecycle ----------------------
(***************************************************************************)
(* Two anchors that could be the first, and a successor of one of them.    *)
(***************************************************************************)
EXTENDS ProductHostLifecycle, TLC

CONSTANTS p1, p2, p3, anchor1, rival1, anchor2

MCProcs == {p1, p2, p3}
MCAnchors == {anchor1, rival1, anchor2}
MCGeneration == (anchor1 :> 1) @@ (rival1 :> 1) @@ (anchor2 :> 2)
MCPredecessor == (anchor1 :> Absent) @@ (rival1 :> Absent) @@ (anchor2 :> anchor1)

Interchangeable == Permutations(MCProcs)
=============================================================================

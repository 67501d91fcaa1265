------------------------ MODULE MCCompilerOutputV02 ------------------------
(* Two compiles, with two ids to draw from.                                *)
EXTENDS CompilerOutputV02

CONSTANTS c1, c2, i1, i2
=============================================================================

---------------------------- MODULE MCSigningKey ----------------------------
(* SigningKey with three processes that call ensureSigningKey again and    *)
(* again.                                                                  *)
EXTENDS SigningKey, TLC

CONSTANTS p1, p2, p3

Three == {p1, p2, p3}

Interchangeable == Permutations(Procs)
=============================================================================

--------------------------- MODULE MCFileStoreV04 ---------------------------
(* FileStoreV04 on small instances: two processes; a plain commit, a       *)
(* commit with artifact files, and a second one that names the same files. *)
EXTENDS FileStoreV04, TLC

CONSTANTS p1, p2, plain, recorded, again, file1, file2

MCProcs == {p1, p2}

(* Revocations persist one file.                                           *)
Revocations == [b \in Batches |-> IF b = plain THEN <<>> ELSE <<file1>>]

Interchangeable == Permutations(MCProcs)
=============================================================================

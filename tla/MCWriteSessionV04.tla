-------------------------- MODULE MCWriteSessionV04 --------------------------
(* WriteSessionV04 on a small instance: a process that does everything, in *)
(* the presence of one that stops the run and gives leases back.           *)
EXTENDS WriteSessionV04

CONSTANTS w1, w2

MCWriters == {w1, w2}
MCOffered == [w \in MCWriters |-> IF w = w1 THEN Operations ELSE {"revoke"}]
=============================================================================

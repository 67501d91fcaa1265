------------------------------ MODULE FencedRun ------------------------------
(***************************************************************************)
(* What the control plane of a V04 run promises, with nothing of how: a    *)
(* run goes through epochs.  Whoever works for it holds a lease of the     *)
(* current epoch; leases are taken, and work is admitted, only while the   *)
(* owner of the attempt holds its own.  To stop a run, or to start its     *)
(* next attempt, is to begin an epoch, and no holder survives that.        *)
(***************************************************************************)
EXTENDS Naturals

CONSTANTS Actions, Ids

VARIABLES
  epoch,   \* 0 before the first attempt
  owner,   \* the owner of the current attempt
  holders, \* [id, epoch]: who holds a lease, and of which epoch
  work,    \* the actions in flight
  over     \* the run is sealed

vars == <<epoch, owner, holders, work, over>>

Init == epoch = 0 /\ owner = 0 /\ holders = {} /\ work = {} /\ over = FALSE

Holder(id, at) == [id |-> id, epoch |-> at]
OwnerHolds == Holder(owner, epoch) \in holders

Begin(h) ==
  /\ ~over
  /\ epoch' = epoch + 1 /\ owner' = h /\ holders' = {Holder(h, epoch')}
  /\ UNCHANGED <<work, over>>

Join(h) ==
  /\ ~over /\ OwnerHolds
  /\ holders' = holders \cup {Holder(h, epoch)}
  /\ UNCHANGED <<epoch, owner, work, over>>

Leave(h) ==
  /\ ~over
  /\ holders' = holders \ {Holder(h, epoch)}
  /\ UNCHANGED <<epoch, owner, work, over>>

Admit(a) ==
  /\ ~over /\ OwnerHolds /\ a \notin work
  /\ work' = work \cup {a}
  /\ UNCHANGED <<epoch, owner, holders, over>>

Settle(a) ==
  /\ ~over
  /\ work' = work \ {a}
  /\ UNCHANGED <<epoch, owner, holders, over>>

Stop ==
  /\ ~over
  /\ epoch' = epoch + 1 /\ holders' = {}
  /\ UNCHANGED <<owner, work, over>>

(* The end of the run: nobody holds it and nothing is in flight.           *)
Seal ==
  /\ ~over /\ work = {}
  /\ epoch' \in {epoch, epoch + 1} /\ holders' = {} /\ over' = TRUE
  /\ UNCHANGED <<owner, work>>

Next ==
  \/ \E h \in Ids : Begin(h) \/ Join(h) \/ Leave(h)
  \/ \E a \in Actions : Admit(a) \/ Settle(a)
  \/ Stop \/ Seal

Spec == Init /\ [][Next]_vars
=============================================================================

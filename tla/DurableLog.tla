----------------------------- MODULE DurableLog -----------------------------
(***************************************************************************)
(* What a run directory promises to the writers that share it: a log that  *)
(* one batch at a time extends, whatever happens to the processes and to   *)
(* the machine.  A batch takes effect at one instant, on top of exactly    *)
(* the log its writer had seen; once acknowledged it keeps its place; once *)
(* refused it never appears.  A batch that was not answered, or whose      *)
(* outcome was reported unknown, may be in the log or not, and may be lost *)
(* from its end.                                                           *)
(***************************************************************************)
EXTENDS Naturals, SequencesExt

CONSTANTS Batches

VARIABLES
  log,     \* the batches a reader of the run directory finds
  base,    \* the log that the writer of each open batch has seen
  status   \* what the writer of each batch knows

logVars == <<log, base, status>>

Closed == {"unissued", "no_answer", "COMMITTED", "NOT_COMMITTED", "OUTCOME_UNKNOWN"}

LogInit ==
  /\ log = <<>>
  /\ base = [b \in Batches |-> <<>>]
  /\ status = [b \in Batches |-> "unissued"]

(* A writer offers batch b on top of the log it has seen.                  *)
Offer(b) ==
  /\ status[b] = "unissued"
  /\ status' = [status EXCEPT ![b] = "pending"]
  /\ base' = [base EXCEPT ![b] = log]
  /\ UNCHANGED log

(* The batch takes effect, if the log is still the one its writer saw.     *)
Take(b) ==
  /\ status[b] = "pending"
  /\ log = base[b]
  /\ log' = Append(log, b)
  /\ UNCHANGED <<base, status>>

Close(b, answer) ==
  /\ status' = [status EXCEPT ![b] = answer]
  /\ base' = [base EXCEPT ![b] = <<>>]
  /\ UNCHANGED log

Acknowledge(b) == status[b] = "pending" /\ b \in ToSet(log) /\ Close(b, "COMMITTED")

Reject(b) ==
  /\ status[b] \in {"unissued", "pending"}
  /\ b \notin ToSet(log)
  /\ Close(b, "NOT_COMMITTED")

GiveUp(b) == status[b] = "pending" /\ Close(b, "OUTCOME_UNKNOWN")

(* Writers die without an answer, and the end of the log may go with them. *)
Committed == {b \in Batches : status[b] = "COMMITTED"}

Lose ==
  /\ \E n \in 0..Len(log) :
       /\ Committed \subseteq ToSet(SubSeq(log, 1, n))
       /\ log' = SubSeq(log, 1, n)
  /\ \E dead \in SUBSET {b \in Batches : status[b] = "pending"} :
       /\ status' = [b \in Batches |-> IF b \in dead THEN "no_answer" ELSE status[b]]
       /\ base' = [b \in Batches |-> IF b \in dead THEN <<>> ELSE base[b]]

LogNext ==
  \/ \E b \in Batches : Offer(b) \/ Take(b) \/ Acknowledge(b) \/ Reject(b) \/ GiveUp(b)
  \/ Lose

LogSpec == LogInit /\ [][LogNext]_logVars
=============================================================================

------------------------ MODULE WriteSessionV04Proofs ------------------------
(***************************************************************************)
(* The control plane, for any number of processes, actions, request ids    *)
(* and events.  The proof follows the code: what one accepted event makes  *)
(* of a ledger (Changes and the lemmas on each kind of event), what a      *)
(* ledger that grew by such events is like (Sound), what a batch and then  *)
(* a commit make of it, and at last who commits what (SessionInv).         *)
(***************************************************************************)
EXTENDS WriteSessionV04, FiniteSetTheorems, TLAPS

Fields ==
  {"seq", "head", "phase", "started", "ordinal", "attempt", "mode", "fence", "advanced", "leases",
   "inFlight", "settled", "facts", "acknowledged", "terminated", "nonStarts", "resume", "seenIds",
   "consumedIds", "pause", "control", "fenced", "aborted", "frozen"}

(* From s to t nothing but some fields changes.                            *)
Changes(s, t, fields) == DOMAIN t = Fields /\ \A f \in Fields \ fields : t[f] = s[f]

(* The next ledger, of which the event is the head.                        *)
Extends(s, t, e, fields) ==
  Changes(s, t, fields \cup {"seq", "head"}) /\ t.seq = s.seq + 1 /\ t.head = e.type

-----------------------------------------------------------------------------
(* A ledger that grew by accepted events.                                  *)

Counted(s) ==
  /\ DOMAIN s = Fields
  /\ s.seq \in Nat /\ s.fence \in Nat /\ s.ordinal \in Nat /\ s.attempt \in 0 .. s.seq

(* Before the first attempt nobody works, and nothing waits to be resumed. *)
Unstarted(s) ==
  /\ s.attempt = 0 => /\ s.leases = {} /\ s.inFlight = {} /\ s.ordinal = 0
                      /\ s.resume = {} /\ s.seenIds = {} /\ s.consumedIds = {}
  /\ s.phase = "initialized" => s.attempt = 0 /\ s.control = {}

Owned(s) == \A l \in s.leases : l.attempt = s.attempt /\ l.fence = s.fence /\ l.ref \in 1 .. s.seq

(* run.paused comes right after an advance of the fence, which took every  *)
(* owner down.                                                             *)
Quiet(s) ==
  /\ s.head = "run.fence-advanced" => s.leases = {}
  /\ s.phase = "paused" => s.inFlight = {} /\ s.leases = {}

Clean(s) ==
  /\ \A w \in s.inFlight : w.action \notin s.settled
  /\ s.mode = "ordinary" => \A w \in s.inFlight : w.attempt = s.attempt

(* At most one recovery request is pending, and each of the others started *)
(* an attempt after the first.                                             *)
Consumed(s) ==
  /\ s.seenIds = s.consumedIds \cup {r.id : r \in s.resume}
  /\ \A r \in s.resume : r.id \notin s.consumedIds /\ r.ref \in 0 .. s.seq
  /\ \A r \in s.resume : r.ref = s.seq => s.head = "recovery.resume-requested"
  /\ \A q, r \in s.resume : q = r
  /\ IsFiniteSet(s.consumedIds)
  /\ s.attempt # 0 => Cardinality(s.consumedIds) + 1 = s.ordinal

StopRequests == {"control.pause-requested", "control.abort-requested", "authority.grant-revoked"}

(* A request to stop is of the attempt and the fence it was made under; in *)
(* a running attempt it can only be one to pause.                          *)
Controlled(s) ==
  /\ \A r \in s.control : r.ref \in 0 .. s.seq /\ r.attempt \in 0 .. s.seq
  /\ \A r \in s.control : r.ref = s.seq => r.kind = s.head /\ r.attempt = s.attempt /\ r.fence = s.fence
  /\ s.phase = "running" => \A r \in s.control : r.attempt = s.attempt => r.kind = "control.pause-requested"
  /\ s.head \in StopRequests => \E r \in s.control : r.attempt = s.attempt /\ r.fence = s.fence

Sound(s) ==
  Counted(s) /\ Unstarted(s) /\ Owned(s) /\ Quiet(s) /\ Clean(s) /\ Consumed(s) /\ Controlled(s)

(* What the writers and the kernel take care of beyond what the reducer    *)
(* checks: an advance of the fence takes every owner down, an action id is *)
(* not used again, and an attempt goes on in ordinary mode only when       *)
(* nothing is left unresolved.                                             *)
Careful(s, e) ==
  /\ e.type = "run.fence-advanced" => ActiveRefs(s) \subseteq e.owners
  /\ e.type = "task.action-admitted" => e.action \notin s.settled
  /\ e.type = "execution.attempt-started" /\ e.mode = "ordinary" => ActionsInFlight(s) \subseteq s.settled

-----------------------------------------------------------------------------
(* The lemmas on what each kind of event changes.                          *)

LEMMA ReduceFields ==
  ASSUME NEW s, NEW e, NEW u, u = Effect(s, e, s.seq + 1), DOMAIN u = Fields, u.seq = s.seq
  PROVE  /\ DOMAIN Reduce(s, e) = Fields
         /\ Reduce(s, e).seq = s.seq + 1 /\ Reduce(s, e).head = e.type
         /\ \A f \in Fields \ {"seq", "head"} : Reduce(s, e)[f] = u[f]
<1> DEFINE t == Reduce(s, e)
<1>1. t = [u EXCEPT !.seq = @ + 1, !.head = e.type]
  BY DEF Reduce
<1> HIDE DEF t
<1>2. DOMAIN t = Fields /\ t.seq = s.seq + 1 /\ t.head = e.type
  BY <1>1 DEF Fields
<1>3. \A f \in Fields \ {"seq", "head"} : t[f] = u[f]
  BY <1>1
<1> QED BY <1>2, <1>3 DEF t

LEMMA StartedFields ==
  ASSUME NEW s, NEW e, DOMAIN s = Fields, e.type = "run.started", NEW t, t = Reduce(s, e)
  PROVE  /\ Extends(s, t, e, {"phase", "started"})
         /\ t.phase = "running"
<1>1. PICK u : u = Effect(s, e, s.seq + 1)
  OBVIOUS
<1>2. u = [s EXCEPT !.phase = "running", !.started = s.seq + 1]
  BY <1>1 DEF Effect
<1>3. Changes(s, u, {"phase", "started"}) /\ u.seq = s.seq
  BY <1>2 DEF Changes, Fields
<1>4. /\ u.phase = "running"
  BY <1>2 DEF Fields
<1> QED BY <1>1, <1>3, <1>4, ReduceFields DEF Extends, Changes, Fields

LEMMA ResumeRequestedFields ==
  ASSUME NEW s, NEW e, DOMAIN s = Fields, e.type = "recovery.resume-requested", NEW t, t = Reduce(s, e)
  PROVE  /\ Extends(s, t, e, {"seenIds", "resume"})
         /\ t.seenIds = s.seenIds \cup {e.id}
         /\ t.resume = {[ref |-> s.seq + 1, id |-> e.id, mode |-> e.mode, attempt |-> e.attempt,
                         boundary |-> e.boundary, target |-> e.target]}
<1>1. PICK u : u = Effect(s, e, s.seq + 1)
  OBVIOUS
<1>2. u = [s EXCEPT !.seenIds = @ \cup {e.id},
                    !.resume = {[ref |-> s.seq + 1, id |-> e.id, mode |-> e.mode, attempt |-> e.attempt,
                                 boundary |-> e.boundary, target |-> e.target]}]
  BY <1>1 DEF Effect
<1>3. Changes(s, u, {"seenIds", "resume"}) /\ u.seq = s.seq
  BY <1>2 DEF Changes, Fields
<1>4. /\ u.seenIds = s.seenIds \cup {e.id}
      /\ u.resume = {[ref |-> s.seq + 1, id |-> e.id, mode |-> e.mode, attempt |-> e.attempt,
                         boundary |-> e.boundary, target |-> e.target]}
  BY <1>2 DEF Fields
<1> QED BY <1>1, <1>3, <1>4, ReduceFields DEF Extends, Changes, Fields

LEMMA AttemptStartedFields ==
  ASSUME NEW s, NEW e, DOMAIN s = Fields, e.type = "execution.attempt-started", NEW t, t = Reduce(s, e)
  PROVE  /\ Extends(s, t, e, {"ordinal", "attempt", "mode", "fence", "leases", "phase", "consumedIds", "resume"})
         /\ t.ordinal = s.ordinal + 1 /\ t.attempt = s.seq + 1 /\ t.mode = e.mode /\ t.fence = e.fence
         /\ t.leases = {Lease(s.seq + 1, s.seq + 1, e.fence)} /\ t.phase = "running"
         /\ t.consumedIds = s.consumedIds \cup {r.id : r \in s.resume} /\ t.resume = {}
<1>1. PICK u : u = Effect(s, e, s.seq + 1)
  OBVIOUS
<1>2. u = StartAttempt(s, e, s.seq + 1)
  BY <1>1 DEF Effect
<1>3. Changes(s, u, {"ordinal", "attempt", "mode", "fence", "leases", "phase", "consumedIds", "resume"}) /\ u.seq = s.seq
  BY <1>2 DEF Changes, Fields, StartAttempt
<1>4. /\ u.ordinal = s.ordinal + 1 /\ u.attempt = s.seq + 1 /\ u.mode = e.mode /\ u.fence = e.fence
      /\ u.leases = {Lease(s.seq + 1, s.seq + 1, e.fence)} /\ u.phase = "running"
      /\ u.consumedIds = s.consumedIds \cup {r.id : r \in s.resume} /\ u.resume = {}
  BY <1>2 DEF Fields, StartAttempt
<1> QED BY <1>1, <1>3, <1>4, ReduceFields DEF Extends, Changes, Fields

LEMMA LeaseAcquiredFields ==
  ASSUME NEW s, NEW e, DOMAIN s = Fields, e.type = "ownership.lease-acquired", NEW t, t = Reduce(s, e)
  PROVE  /\ Extends(s, t, e, {"leases"})
         /\ t.leases = s.leases \cup {Lease(s.seq + 1, e.attempt, e.fence)}
<1>1. PICK u : u = Effect(s, e, s.seq + 1)
  OBVIOUS
<1>2. u = [s EXCEPT !.leases = @ \cup {Lease(s.seq + 1, e.attempt, e.fence)}]
  BY <1>1 DEF Effect
<1>3. Changes(s, u, {"leases"}) /\ u.seq = s.seq
  BY <1>2 DEF Changes, Fields
<1>4. /\ u.leases = s.leases \cup {Lease(s.seq + 1, e.attempt, e.fence)}
  BY <1>2 DEF Fields
<1> QED BY <1>1, <1>3, <1>4, ReduceFields DEF Extends, Changes, Fields

LEMMA LeaseReleasedFields ==
  ASSUME NEW s, NEW e, DOMAIN s = Fields, e.type = "ownership.lease-released", NEW t, t = Reduce(s, e)
  PROVE  /\ Extends(s, t, e, {"leases"})
         /\ t.leases = {l \in s.leases : l.ref # e.lease}
<1>1. PICK u : u = Effect(s, e, s.seq + 1)
  OBVIOUS
<1>2. u = [s EXCEPT !.leases = {l \in @ : l.ref # e.lease}]
  BY <1>1 DEF Effect
<1>3. Changes(s, u, {"leases"}) /\ u.seq = s.seq
  BY <1>2 DEF Changes, Fields
<1>4. /\ u.leases = {l \in s.leases : l.ref # e.lease}
  BY <1>2 DEF Fields
<1> QED BY <1>1, <1>3, <1>4, ReduceFields DEF Extends, Changes, Fields

LEMMA PauseRequestedFields ==
  ASSUME NEW s, NEW e, DOMAIN s = Fields, e.type = "control.pause-requested", NEW t, t = Reduce(s, e)
  PROVE  /\ Extends(s, t, e, {"pause", "control"})
         /\ t.control = ControlRequest(s, e.type)
<1>1. PICK u : u = Effect(s, e, s.seq + 1)
  OBVIOUS
<1>2. u = [s EXCEPT !.pause = s.seq + 1, !.control = ControlRequest(s, e.type)]
  BY <1>1 DEF Effect
<1>3. Changes(s, u, {"pause", "control"}) /\ u.seq = s.seq
  BY <1>2 DEF Changes, Fields
<1>4. /\ u.control = ControlRequest(s, e.type)
  BY <1>2 DEF Fields
<1> QED BY <1>1, <1>3, <1>4, ReduceFields DEF Extends, Changes, Fields

LEMMA FenceAdvancedFields ==
  ASSUME NEW s, NEW e, DOMAIN s = Fields, e.type = "run.fence-advanced", NEW t, t = Reduce(s, e)
  PROVE  /\ Extends(s, t, e, {"fence", "advanced", "fenced", "leases"})
         /\ t.fence = e.fence /\ t.leases = {l \in s.leases : l.ref \notin e.owners}
<1>1. PICK u : u = Effect(s, e, s.seq + 1)
  OBVIOUS
<1>2. u = AdvanceFence(s, e)
  BY <1>1 DEF Effect
<1>3. Changes(s, u, {"fence", "advanced", "fenced", "leases"}) /\ u.seq = s.seq
  BY <1>2 DEF Changes, Fields, AdvanceFence
<1>4. /\ u.fence = e.fence /\ u.leases = {l \in s.leases : l.ref \notin e.owners}
  BY <1>2 DEF Fields, AdvanceFence
<1> QED BY <1>1, <1>3, <1>4, ReduceFields DEF Extends, Changes, Fields

LEMMA AdmittedFields ==
  ASSUME NEW s, NEW e, DOMAIN s = Fields, e.type = "task.action-admitted", NEW t, t = Reduce(s, e)
  PROVE  /\ Extends(s, t, e, {"inFlight"})
         /\ t.inFlight = s.inFlight \cup {[action |-> e.action, attempt |-> e.attempt]}
<1>1. PICK u : u = Effect(s, e, s.seq + 1)
  OBVIOUS
<1>2. u = [s EXCEPT !.inFlight = @ \cup {[action |-> e.action, attempt |-> e.attempt]}]
  BY <1>1 DEF Effect
<1>3. Changes(s, u, {"inFlight"}) /\ u.seq = s.seq
  BY <1>2 DEF Changes, Fields
<1>4. /\ u.inFlight = s.inFlight \cup {[action |-> e.action, attempt |-> e.attempt]}
  BY <1>2 DEF Fields
<1> QED BY <1>1, <1>3, <1>4, ReduceFields DEF Extends, Changes, Fields

LEMMA SettledFields ==
  ASSUME NEW s, NEW e, DOMAIN s = Fields, e.type = "task.action-settled", NEW t, t = Reduce(s, e)
  PROVE  /\ Extends(s, t, e, {"inFlight", "settled"})
         /\ t.inFlight = {w \in s.inFlight : w.action # e.action} /\ t.settled = s.settled \cup {e.action}
<1>1. PICK u : u = Effect(s, e, s.seq + 1)
  OBVIOUS
<1>2. u = [s EXCEPT !.inFlight = {w \in @ : w.action # e.action}, !.settled = @ \cup {e.action}]
  BY <1>1 DEF Effect
<1>3. Changes(s, u, {"inFlight", "settled"}) /\ u.seq = s.seq
  BY <1>2 DEF Changes, Fields
<1>4. /\ u.inFlight = {w \in s.inFlight : w.action # e.action} /\ u.settled = s.settled \cup {e.action}
  BY <1>2 DEF Fields
<1> QED BY <1>1, <1>3, <1>4, ReduceFields DEF Extends, Changes, Fields

LEMMA PausedFields ==
  ASSUME NEW s, NEW e, DOMAIN s = Fields, e.type = "run.paused", NEW t, t = Reduce(s, e)
  PROVE  /\ Extends(s, t, e, {"phase", "pause"})
         /\ t.phase = "paused"
<1>1. PICK u : u = Effect(s, e, s.seq + 1)
  OBVIOUS
<1>2. u = [s EXCEPT !.phase = "paused", !.pause = 0]
  BY <1>1 DEF Effect
<1>3. Changes(s, u, {"phase", "pause"}) /\ u.seq = s.seq
  BY <1>2 DEF Changes, Fields
<1>4. /\ u.phase = "paused"
  BY <1>2 DEF Fields
<1> QED BY <1>1, <1>3, <1>4, ReduceFields DEF Extends, Changes, Fields

LEMMA RejectedFields ==
  ASSUME NEW s, NEW e, DOMAIN s = Fields, e.type = "integrity.observation-rejected", NEW t, t = Reduce(s, e)
  PROVE  /\ Extends(s, t, e, {"phase"})
         /\ t.phase = "quarantine-required"
<1>1. PICK u : u = Effect(s, e, s.seq + 1)
  OBVIOUS
<1>2. u = [s EXCEPT !.phase = "quarantine-required"]
  BY <1>1 DEF Effect
<1>3. Changes(s, u, {"phase"}) /\ u.seq = s.seq
  BY <1>2 DEF Changes, Fields
<1>4. /\ u.phase = "quarantine-required"
  BY <1>2 DEF Fields
<1> QED BY <1>1, <1>3, <1>4, ReduceFields DEF Extends, Changes, Fields

LEMMA QuarantinedFields ==
  ASSUME NEW s, NEW e, DOMAIN s = Fields, e.type = "run.quarantined", NEW t, t = Reduce(s, e)
  PROVE  /\ Extends(s, t, e, {"phase"})
         /\ t.phase = "quarantined"
<1>1. PICK u : u = Effect(s, e, s.seq + 1)
  OBVIOUS
<1>2. u = [s EXCEPT !.phase = "quarantined"]
  BY <1>1 DEF Effect
<1>3. Changes(s, u, {"phase"}) /\ u.seq = s.seq
  BY <1>2 DEF Changes, Fields
<1>4. /\ u.phase = "quarantined"
  BY <1>2 DEF Fields
<1> QED BY <1>1, <1>3, <1>4, ReduceFields DEF Extends, Changes, Fields

LEMMA RevokedFields ==
  ASSUME NEW s, NEW e, DOMAIN s = Fields, e.type = "authority.grant-revoked", NEW t, t = Reduce(s, e)
  PROVE  /\ Extends(s, t, e, {"phase", "control"})
         /\ t.phase = Hold(s.phase) /\ t.control = ControlRequest(s, e.type)
<1>1. PICK u : u = Effect(s, e, s.seq + 1)
  OBVIOUS
<1>2. u = [s EXCEPT !.phase = Hold(@), !.control = ControlRequest(s, e.type)]
  BY <1>1 DEF Effect
<1>3. Changes(s, u, {"phase", "control"}) /\ u.seq = s.seq
  BY <1>2 DEF Changes, Fields
<1>4. /\ u.phase = Hold(s.phase) /\ u.control = ControlRequest(s, e.type)
  BY <1>2 DEF Fields
<1> QED BY <1>1, <1>3, <1>4, ReduceFields DEF Extends, Changes, Fields

LEMMA AbortedFields ==
  ASSUME NEW s, NEW e, DOMAIN s = Fields, e.type = "control.abort-requested", NEW t, t = Reduce(s, e)
  PROVE  /\ Extends(s, t, e, {"phase", "aborted", "control"})
         /\ t.phase = (IF s.phase = "quarantined" THEN s.phase ELSE "aborting") /\ t.control = ControlRequest(s, e.type)
<1>1. PICK u : u = Effect(s, e, s.seq + 1)
  OBVIOUS
<1>2. u = [s EXCEPT !.phase = IF @ = "quarantined" THEN @ ELSE "aborting",
                    !.aborted = TRUE, !.control = ControlRequest(s, e.type)]
  BY <1>1 DEF Effect
<1>3. Changes(s, u, {"phase", "aborted", "control"}) /\ u.seq = s.seq
  BY <1>2 DEF Changes, Fields
<1>4. /\ u.phase = (IF s.phase = "quarantined" THEN s.phase ELSE "aborting") /\ u.control = ControlRequest(s, e.type)
  BY <1>2 DEF Fields
<1> QED BY <1>1, <1>3, <1>4, ReduceFields DEF Extends, Changes, Fields

LEMMA SealWrittenFields ==
  ASSUME NEW s, NEW e, DOMAIN s = Fields, e.type = "run.terminal-sealed", NEW t, t = Reduce(s, e)
  PROVE  /\ Extends(s, t, e, {"phase", "fence", "leases"})
         /\ t.phase = "sealed" /\ t.fence = e.fence /\ t.leases = {}
<1>1. PICK u : u = Effect(s, e, s.seq + 1)
  OBVIOUS
<1>2. u = [s EXCEPT !.phase = "sealed", !.fence = e.fence, !.leases = {}]
  BY <1>1 DEF Effect
<1>3. Changes(s, u, {"phase", "fence", "leases"}) /\ u.seq = s.seq
  BY <1>2 DEF Changes, Fields
<1>4. /\ u.phase = "sealed" /\ u.fence = e.fence /\ u.leases = {}
  BY <1>2 DEF Fields
<1> QED BY <1>1, <1>3, <1>4, ReduceFields DEF Extends, Changes, Fields

(* The events that change nothing but their own records.                   *)
Ruling ==
  {"run.started", "recovery.resume-requested", "execution.attempt-started", "ownership.lease-acquired",
   "ownership.lease-released", "control.pause-requested", "run.fence-advanced", "task.action-admitted",
   "task.action-settled", "run.paused", "integrity.observation-rejected", "run.quarantined",
   "authority.grant-revoked", "control.abort-requested", "run.terminal-sealed"}

Records == {"facts", "acknowledged", "terminated", "nonStarts", "frozen"}

LEMMA RecordFields ==
  ASSUME NEW s, NEW e, DOMAIN s = Fields, e.type \notin Ruling, NEW t, t = Reduce(s, e)
  PROVE  Extends(s, t, e, Records)
<1>1. PICK u : u = Effect(s, e, s.seq + 1)
  OBVIOUS
<1>2. \/ u = s
      \/ u = [s EXCEPT !.acknowledged = @ \cup {e.action}]
      \/ u = [s EXCEPT !.terminated = @ \cup {e.action}]
      \/ u = [s EXCEPT !.nonStarts = @ \cup {e.action}]
      \/ u = [s EXCEPT !.facts = @ \cup {e.action}]
      \/ u = [s EXCEPT !.frozen = TRUE]
  BY <1>1 DEF Effect, Ruling
<1>3. Changes(s, u, Records) /\ u.seq = s.seq
  BY <1>2 DEF Changes, Fields, Records
<1> QED BY <1>1, <1>3, ReduceFields DEF Extends, Changes, Fields

(* Whatever the event, it is the head of the next ledger.                  *)
LEMMA HeadAndSeq ==
  ASSUME NEW s, NEW e, DOMAIN s = Fields
  PROVE  Reduce(s, e).seq = s.seq + 1 /\ Reduce(s, e).head = e.type
<1>1. PICK t : t = Reduce(s, e)
  OBVIOUS
<1>2. CASE e.type = "run.started"
  BY <1>1, <1>2, StartedFields DEF Extends
<1>3. CASE e.type = "recovery.resume-requested"
  BY <1>1, <1>3, ResumeRequestedFields DEF Extends
<1>4. CASE e.type = "execution.attempt-started"
  BY <1>1, <1>4, AttemptStartedFields DEF Extends
<1>5. CASE e.type = "ownership.lease-acquired"
  BY <1>1, <1>5, LeaseAcquiredFields DEF Extends
<1>6. CASE e.type = "ownership.lease-released"
  BY <1>1, <1>6, LeaseReleasedFields DEF Extends
<1>7. CASE e.type = "control.pause-requested"
  BY <1>1, <1>7, PauseRequestedFields DEF Extends
<1>8. CASE e.type = "run.fence-advanced"
  BY <1>1, <1>8, FenceAdvancedFields DEF Extends
<1>9. CASE e.type = "task.action-admitted"
  BY <1>1, <1>9, AdmittedFields DEF Extends
<1>10. CASE e.type = "task.action-settled"
  BY <1>1, <1>10, SettledFields DEF Extends
<1>11. CASE e.type = "run.paused"
  BY <1>1, <1>11, PausedFields DEF Extends
<1>12. CASE e.type = "integrity.observation-rejected"
  BY <1>1, <1>12, RejectedFields DEF Extends
<1>13. CASE e.type = "run.quarantined"
  BY <1>1, <1>13, QuarantinedFields DEF Extends
<1>14. CASE e.type = "authority.grant-revoked"
  BY <1>1, <1>14, RevokedFields DEF Extends
<1>15. CASE e.type = "control.abort-requested"
  BY <1>1, <1>15, AbortedFields DEF Extends
<1>16. CASE e.type = "run.terminal-sealed"
  BY <1>1, <1>16, SealWrittenFields DEF Extends
<1>17. CASE e.type \notin Ruling
  BY <1>1, <1>17, RecordFields DEF Extends
<1> QED
  BY <1>2, <1>3, <1>4, <1>5, <1>6, <1>7, <1>8, <1>9, <1>10, <1>11, <1>12, <1>13, <1>14, <1>15, <1>16,
     <1>17 DEF Ruling

-----------------------------------------------------------------------------
(* What an event must leave alone for each part of Sound to hold on.       *)

LEMMA OwnedKept ==
  ASSUME NEW s, NEW t, Counted(s), Owned(s), t.seq = s.seq + 1,
         t.leases \subseteq s.leases, t.attempt = s.attempt, t.fence = s.fence
  PROVE  Owned(t)
BY DEF Counted, Owned

LEMMA QuietKept ==
  ASSUME NEW s, NEW t, Quiet(s), t.head # "run.fence-advanced",
         t.leases \subseteq s.leases, t.inFlight \subseteq s.inFlight,
         t.phase = "paused" => s.phase = "paused"
  PROVE  Quiet(t)
BY DEF Quiet

LEMMA CleanKept ==
  ASSUME NEW s, NEW t, Clean(s), t.inFlight = s.inFlight, t.settled = s.settled,
         t.mode = s.mode, t.attempt = s.attempt
  PROVE  Clean(t)
BY DEF Clean

LEMMA ConsumedKept ==
  ASSUME NEW s, NEW t, Counted(s), Consumed(s), t.seq = s.seq + 1, t.resume = s.resume,
         t.seenIds = s.seenIds, t.consumedIds = s.consumedIds,
         t.attempt = s.attempt, t.ordinal = s.ordinal
  PROVE  Consumed(t)
BY DEF Counted, Consumed

LEMMA ControlledKept ==
  ASSUME NEW s, NEW t, Counted(s), Controlled(s), t.seq = s.seq + 1, t.head \notin StopRequests,
         t.control = s.control, t.attempt = s.attempt, t.phase = "running" => s.phase = "running"
  PROVE  Controlled(t)
BY DEF Counted, Controlled

LEMMA UnstartedKept ==
  ASSUME NEW s, NEW t, Unstarted(s), t.attempt = s.attempt, t.ordinal = s.ordinal,
         t.leases \subseteq s.leases, t.inFlight \subseteq s.inFlight, t.resume = s.resume,
         t.seenIds = s.seenIds, t.consumedIds = s.consumedIds,
         t.phase = "initialized" => s.phase = "initialized" /\ t.control = s.control
  PROVE  Unstarted(t)
BY DEF Unstarted

LEMMA ExtendsMore ==
  ASSUME NEW s, NEW t, NEW e, NEW F, NEW G, Extends(s, t, e, F), F \subseteq G
  PROVE  Extends(s, t, e, G)
BY DEF Extends, Changes

-----------------------------------------------------------------------------
(* An accepted event keeps a ledger sound.                                 *)

Moods == {"phase", "started", "pause", "aborted"} \cup Records

(* Events that at most move the run to another phase.                      *)
LEMMA MoodSound ==
  ASSUME NEW s, NEW e, NEW t, Sound(s), Extends(s, t, e, Moods),
         e.type \notin StopRequests \cup {"run.fence-advanced"},
         t.phase = "initialized" => s.phase = "initialized",
         t.phase = "running" => s.phase = "running" \/ s.control = {},
         t.phase = "paused" => s.phase = "paused" \/ (s.leases = {} /\ s.inFlight = {})
  PROVE  Sound(t)
<1>1. /\ t.seq = s.seq + 1 /\ t.head = e.type /\ DOMAIN t = Fields
      /\ t.attempt = s.attempt /\ t.fence = s.fence /\ t.ordinal = s.ordinal /\ t.mode = s.mode
      /\ t.leases = s.leases /\ t.inFlight = s.inFlight /\ t.settled = s.settled
      /\ t.resume = s.resume /\ t.seenIds = s.seenIds /\ t.consumedIds = s.consumedIds
      /\ t.control = s.control
  BY DEF Extends, Changes, Fields, Moods, Records
<1>2. Counted(t)
  BY <1>1 DEF Sound, Counted
<1>3. Unstarted(t)
  BY <1>1, UnstartedKept DEF Sound
<1>4. Owned(t)
  BY <1>1, OwnedKept DEF Sound
<1>5. Quiet(t)
  BY <1>1 DEF Sound, Quiet
<1>6. Clean(t)
  BY <1>1, CleanKept DEF Sound
<1>7. Consumed(t)
  BY <1>1, ConsumedKept DEF Sound
<1>8. Controlled(t)
  <2>1. CASE s.control = {}
    BY <1>1, <2>1 DEF Controlled
  <2>2. CASE s.control # {}
    BY <1>1, <2>2, ControlledKept DEF Sound
  <2> QED BY <2>1, <2>2
<1> QED BY <1>2, <1>3, <1>4, <1>5, <1>6, <1>7, <1>8 DEF Sound

(* Events that ask for the run to be stopped.                              *)
LEMMA RequestSound ==
  ASSUME NEW s, NEW e, NEW t, Sound(s), Extends(s, t, e, Moods \cup {"control"}),
         e.type \in StopRequests, t.control = ControlRequest(s, e.type),
         t.phase # "initialized",
         t.phase = "running" => e.type = "control.pause-requested",
         t.phase = "paused" => s.phase = "paused"
  PROVE  Sound(t)
<1>1. /\ t.seq = s.seq + 1 /\ t.head = e.type /\ DOMAIN t = Fields
      /\ t.attempt = s.attempt /\ t.fence = s.fence /\ t.ordinal = s.ordinal /\ t.mode = s.mode
      /\ t.leases = s.leases /\ t.inFlight = s.inFlight /\ t.settled = s.settled
      /\ t.resume = s.resume /\ t.seenIds = s.seenIds /\ t.consumedIds = s.consumedIds
  BY DEF Extends, Changes, Fields, Moods, Records
<1>2. Counted(t)
  BY <1>1 DEF Sound, Counted
<1>3. Unstarted(t)
  BY <1>1, UnstartedKept DEF Sound
<1>4. Owned(t)
  BY <1>1, OwnedKept DEF Sound
<1>5. Quiet(t)
  BY <1>1 DEF Sound, Quiet, StopRequests
<1>6. Clean(t)
  BY <1>1, CleanKept DEF Sound
<1>7. Consumed(t)
  BY <1>1, ConsumedKept DEF Sound
<1>8. Controlled(t)
  <2> DEFINE r == [kind |-> e.type, ref |-> s.seq + 1, attempt |-> s.attempt, fence |-> s.fence]
  <2>1. t.control = {r}
    BY DEF ControlRequest
  <2>2. r.kind = e.type /\ r.ref = s.seq + 1 /\ r.attempt = s.attempt /\ r.fence = s.fence
    OBVIOUS
  <2>3. s.seq \in Nat /\ s.attempt \in 0 .. s.seq
    BY DEF Sound, Counted
  <2> HIDE DEF r
  <2> QED BY <1>1, <2>1, <2>2, <2>3 DEF Controlled
<1> QED BY <1>2, <1>3, <1>4, <1>5, <1>6, <1>7, <1>8 DEF Sound

LEMMA ResumeRequestedSound ==
  ASSUME NEW s, NEW e, NEW t, Sound(s), t = Reduce(s, e), Accepts(s, e),
         e.type = "recovery.resume-requested"
  PROVE  Sound(t)
<1>1. DOMAIN s = Fields /\ s.seq \in Nat
  BY DEF Sound, Counted
<1>2. Extends(s, t, e, {"seenIds", "resume"}) /\ t.seenIds = s.seenIds \cup {e.id}
  BY <1>1, ResumeRequestedFields
<1>3. PICK r : r = [ref |-> s.seq + 1, id |-> e.id, mode |-> e.mode, attempt |-> e.attempt,
                    boundary |-> e.boundary, target |-> e.target]
  OBVIOUS
<1>4. t.resume = {r} /\ r.ref = s.seq + 1 /\ r.id = e.id
  BY <1>1, <1>3, ResumeRequestedFields
<1>5. /\ t.seq = s.seq + 1 /\ t.head = e.type /\ DOMAIN t = Fields
      /\ t.attempt = s.attempt /\ t.fence = s.fence /\ t.ordinal = s.ordinal /\ t.mode = s.mode
      /\ t.leases = s.leases /\ t.inFlight = s.inFlight /\ t.settled = s.settled
      /\ t.consumedIds = s.consumedIds /\ t.control = s.control /\ t.phase = s.phase
  BY <1>2 DEF Extends, Changes, Fields
<1>6. s.attempt # 0 /\ s.resume = {} /\ e.id \notin s.seenIds
  BY DEF Accepts, MayRequestResume
<1>7. Counted(t)
  BY <1>5 DEF Sound, Counted
<1>8. Unstarted(t)
  BY <1>5, <1>6 DEF Sound, Unstarted
<1>9. Owned(t)
  BY <1>5, OwnedKept DEF Sound
<1>10. Quiet(t)
  BY <1>5, QuietKept DEF Sound
<1>11. Clean(t)
  BY <1>5, CleanKept DEF Sound
<1>12. Consumed(t)
  <2>1. s.seenIds = s.consumedIds
    BY <1>6 DEF Sound, Consumed
  <2>2. IsFiniteSet(t.consumedIds) /\ (t.attempt # 0 => Cardinality(t.consumedIds) + 1 = t.ordinal)
    BY <1>5 DEF Sound, Consumed
  <2>3. t.seenIds = t.consumedIds \cup {q.id : q \in t.resume}
    BY <1>2, <1>4, <1>5, <2>1
  <2> QED BY <1>1, <1>4, <1>5, <1>6, <2>1, <2>2, <2>3 DEF Consumed
<1>13. Controlled(t)
  BY <1>5, ControlledKept DEF Sound, StopRequests
<1> QED BY <1>7, <1>8, <1>9, <1>10, <1>11, <1>12, <1>13 DEF Sound

LEMMA AttemptStartedSound ==
  ASSUME NEW s, NEW e, NEW t, Sound(s), t = Reduce(s, e), Accepts(s, e), Careful(s, e), 
         e.type = "execution.attempt-started"
  PROVE  Sound(t)
<1>1. DOMAIN s = Fields /\ s.seq \in Nat /\ s.fence \in Nat /\ s.ordinal \in Nat
  BY DEF Sound, Counted
<1>2. /\ Extends(s, t, e, {"ordinal", "attempt", "mode", "fence", "leases", "phase", "consumedIds", "resume"})
      /\ t.ordinal = s.ordinal + 1 /\ t.attempt = s.seq + 1 /\ t.mode = e.mode /\ t.fence = e.fence
      /\ t.leases = {Lease(s.seq + 1, s.seq + 1, e.fence)} /\ t.phase = "running"
      /\ t.consumedIds = s.consumedIds \cup {r.id : r \in s.resume} /\ t.resume = {}
  BY <1>1, AttemptStartedFields
<1>3. /\ t.seq = s.seq + 1 /\ t.head = e.type /\ DOMAIN t = Fields
      /\ t.inFlight = s.inFlight /\ t.settled = s.settled /\ t.seenIds = s.seenIds /\ t.control = s.control
  BY <1>2 DEF Extends, Changes, Fields
<1>4. MayStartAttempt(s, e)
  BY DEF Accepts
<1>5. e.fence \in Nat
  BY <1>1, <1>4 DEF MayStartAttempt
<1>6. Counted(t)
  BY <1>1, <1>2, <1>3, <1>5 DEF Counted
<1>7. Unstarted(t)
  BY <1>1, <1>2 DEF Unstarted
<1>8. Owned(t)
  BY <1>1, <1>2, <1>3 DEF Owned, Lease
<1>9. Quiet(t)
  BY <1>2, <1>3 DEF Quiet
<1>10. Clean(t)
  <2>1. \A w \in s.inFlight : w.action \notin s.settled /\ w.action \in ActionsInFlight(s)
    BY DEF Sound, Clean, ActionsInFlight
  <2>2. e.mode = "ordinary" => s.inFlight = {}
    BY <2>1 DEF Careful
  <2> QED BY <1>2, <1>3, <2>1, <2>2 DEF Clean
<1>11. Consumed(t)
  <2>1. t.seenIds = t.consumedIds
    BY <1>2, <1>3 DEF Sound, Consumed
  <2>2. IsFiniteSet(t.consumedIds) /\ Cardinality(t.consumedIds) + 1 = t.ordinal
    <3>1. CASE s.attempt = 0
      <4>1. t.consumedIds = {} /\ t.ordinal = 1
        BY <1>2, <3>1 DEF Sound, Unstarted
      <4> QED BY <4>1, FS_EmptySet
    <3>2. CASE s.attempt # 0
      <4>1. PICK r \in s.resume : TRUE
        BY <1>4, <3>2 DEF MayStartAttempt
      <4>2. s.resume = {r} /\ r.id \notin s.consumedIds
        BY <4>1 DEF Sound, Consumed
      <4>3. IsFiniteSet(s.consumedIds) /\ Cardinality(s.consumedIds) + 1 = s.ordinal
        BY <3>2 DEF Sound, Consumed
      <4>4. t.consumedIds = s.consumedIds \cup {r.id}
        BY <1>2, <4>2
      <4>5. IsFiniteSet(t.consumedIds) /\ Cardinality(t.consumedIds) = Cardinality(s.consumedIds) + 1
        BY <4>2, <4>3, <4>4, FS_AddElement
      <4> QED BY <1>2, <4>3, <4>5
    <3> QED BY <3>1, <3>2
  <2> QED BY <1>2, <2>1, <2>2 DEF Consumed
<1>12. Controlled(t)
  BY <1>1, <1>2, <1>3 DEF Sound, Controlled, StopRequests
<1> QED BY <1>6, <1>7, <1>8, <1>9, <1>10, <1>11, <1>12 DEF Sound

LEMMA LeaseAcquiredSound ==
  ASSUME NEW s, NEW e, NEW t, Sound(s), t = Reduce(s, e), Accepts(s, e),
         e.type = "ownership.lease-acquired"
  PROVE  Sound(t)
<1>1. DOMAIN s = Fields /\ s.seq \in Nat
  BY DEF Sound, Counted
<1>2. Extends(s, t, e, {"leases"}) /\ t.leases = s.leases \cup {Lease(s.seq + 1, e.attempt, e.fence)}
  BY <1>1, LeaseAcquiredFields
<1>3. /\ t.seq = s.seq + 1 /\ t.head = e.type /\ DOMAIN t = Fields
      /\ t.attempt = s.attempt /\ t.fence = s.fence /\ t.ordinal = s.ordinal /\ t.mode = s.mode
      /\ t.inFlight = s.inFlight /\ t.settled = s.settled /\ t.phase = s.phase
      /\ t.resume = s.resume /\ t.seenIds = s.seenIds /\ t.consumedIds = s.consumedIds
      /\ t.control = s.control
  BY <1>2 DEF Extends, Changes, Fields
<1>4. s.attempt # 0 /\ s.phase = "running" /\ e.attempt = s.attempt /\ e.fence = s.fence
  BY DEF Accepts, MayAcquireLease, OwnerActive
<1>5. Counted(t)
  BY <1>3 DEF Sound, Counted
<1>6. Unstarted(t)
  BY <1>3, <1>4 DEF Unstarted
<1>7. Owned(t)
  <2>1. \A l \in s.leases : l.attempt = s.attempt /\ l.fence = s.fence /\ l.ref \in 1 .. s.seq
    BY DEF Sound, Owned
  <2> QED BY <1>1, <1>2, <1>3, <1>4, <2>1 DEF Owned, Lease
<1>8. Quiet(t)
  BY <1>3, <1>4 DEF Quiet
<1>9. Clean(t)
  BY <1>3, CleanKept DEF Sound
<1>10. Consumed(t)
  BY <1>3, ConsumedKept DEF Sound
<1>11. Controlled(t)
  BY <1>3, ControlledKept DEF Sound, StopRequests
<1> QED BY <1>5, <1>6, <1>7, <1>8, <1>9, <1>10, <1>11 DEF Sound

LEMMA LeaseReleasedSound ==
  ASSUME NEW s, NEW e, NEW t, Sound(s), t = Reduce(s, e), e.type = "ownership.lease-released"
  PROVE  Sound(t)
<1>1. DOMAIN s = Fields
  BY DEF Sound, Counted
<1>2. Extends(s, t, e, {"leases"}) /\ t.leases \subseteq s.leases
  BY <1>1, LeaseReleasedFields
<1>3. /\ t.seq = s.seq + 1 /\ t.head = e.type /\ DOMAIN t = Fields
      /\ t.attempt = s.attempt /\ t.fence = s.fence /\ t.ordinal = s.ordinal /\ t.mode = s.mode
      /\ t.inFlight = s.inFlight /\ t.settled = s.settled /\ t.phase = s.phase
      /\ t.resume = s.resume /\ t.seenIds = s.seenIds /\ t.consumedIds = s.consumedIds
      /\ t.control = s.control
  BY <1>2 DEF Extends, Changes, Fields
<1>4. Counted(t)
  BY <1>3 DEF Sound, Counted
<1>5. Unstarted(t)
  BY <1>2, <1>3, UnstartedKept DEF Sound
<1>6. Owned(t)
  BY <1>2, <1>3, OwnedKept DEF Sound
<1>7. Quiet(t)
  BY <1>2, <1>3, QuietKept DEF Sound
<1>8. Clean(t)
  BY <1>3, CleanKept DEF Sound
<1>9. Consumed(t)
  BY <1>3, ConsumedKept DEF Sound
<1>10. Controlled(t)
  BY <1>3, ControlledKept DEF Sound, StopRequests
<1> QED BY <1>4, <1>5, <1>6, <1>7, <1>8, <1>9, <1>10 DEF Sound

(* Events that take every lease away: the two that move the fence.         *)
LEMMA OustedSound ==
  ASSUME NEW s, NEW e, NEW t, Sound(s), 
         Extends(s, t, e, {"fence", "advanced", "fenced", "leases", "phase"}),
         e.type \notin StopRequests, t.leases = {}, t.fence \in Nat,
         t.phase \in {s.phase, "sealed"}
  PROVE  Sound(t)
<1>1. /\ t.seq = s.seq + 1 /\ t.head = e.type /\ DOMAIN t = Fields
      /\ t.attempt = s.attempt /\ t.ordinal = s.ordinal /\ t.mode = s.mode
      /\ t.inFlight = s.inFlight /\ t.settled = s.settled
      /\ t.resume = s.resume /\ t.seenIds = s.seenIds /\ t.consumedIds = s.consumedIds
      /\ t.control = s.control
  BY DEF Extends, Changes, Fields
<1>2. Counted(t)
  BY <1>1 DEF Sound, Counted
<1>3. Unstarted(t)
  BY <1>1, UnstartedKept DEF Sound
<1>4. Owned(t)
  BY DEF Owned
<1>5. Quiet(t)
  BY <1>1 DEF Sound, Quiet
<1>6. Clean(t)
  BY <1>1, CleanKept DEF Sound
<1>7. Consumed(t)
  BY <1>1, ConsumedKept DEF Sound
<1>8. Controlled(t)
  BY <1>1, ControlledKept DEF Sound
<1> QED BY <1>2, <1>3, <1>4, <1>5, <1>6, <1>7, <1>8 DEF Sound

LEMMA AllTakenDown ==
  ASSUME NEW s, NEW e, Sound(s), Careful(s, e), e.type = "run.fence-advanced"
  PROVE  Reduce(s, e).leases = {}
<1>1. Reduce(s, e).leases = {l \in s.leases : l.ref \notin e.owners}
  BY FenceAdvancedFields DEF Sound, Counted
<1> QED BY <1>1 DEF Careful, ActiveRefs

LEMMA AdmittedSound ==
  ASSUME NEW s, NEW e, NEW t, Sound(s), t = Reduce(s, e), Accepts(s, e), Careful(s, e),
         e.type = "task.action-admitted"
  PROVE  Sound(t)
<1>1. DOMAIN s = Fields
  BY DEF Sound, Counted
<1>2. PICK w : w = [action |-> e.action, attempt |-> e.attempt]
  OBVIOUS
<1>3. /\ Extends(s, t, e, {"inFlight"})
      /\ t.inFlight = s.inFlight \cup {w} /\ w.action = e.action /\ w.attempt = e.attempt
  BY <1>1, <1>2, AdmittedFields
<1>4. /\ t.seq = s.seq + 1 /\ t.head = e.type /\ DOMAIN t = Fields
      /\ t.attempt = s.attempt /\ t.fence = s.fence /\ t.ordinal = s.ordinal /\ t.mode = s.mode
      /\ t.leases = s.leases /\ t.settled = s.settled /\ t.phase = s.phase
      /\ t.resume = s.resume /\ t.seenIds = s.seenIds /\ t.consumedIds = s.consumedIds
      /\ t.control = s.control
  BY <1>3 DEF Extends, Changes, Fields
<1>5. s.attempt # 0 /\ s.phase = "running" /\ e.attempt = s.attempt
  BY DEF Accepts, MayAdmit, OwnerActive
<1>6. Counted(t)
  BY <1>4 DEF Sound, Counted
<1>7. Unstarted(t)
  BY <1>4, <1>5 DEF Unstarted
<1>8. Owned(t)
  BY <1>4, OwnedKept DEF Sound
<1>9. Quiet(t)
  BY <1>4, <1>5 DEF Quiet
<1>10. Clean(t)
  <2>1. e.action \notin s.settled
    BY DEF Careful
  <2> QED BY <1>3, <1>4, <1>5, <2>1 DEF Sound, Clean
<1>11. Consumed(t)
  BY <1>4, ConsumedKept DEF Sound
<1>12. Controlled(t)
  BY <1>4, ControlledKept DEF Sound, StopRequests
<1> QED BY <1>6, <1>7, <1>8, <1>9, <1>10, <1>11, <1>12 DEF Sound

LEMMA SettledSound ==
  ASSUME NEW s, NEW e, NEW t, Sound(s), t = Reduce(s, e), e.type = "task.action-settled"
  PROVE  Sound(t)
<1>1. DOMAIN s = Fields
  BY DEF Sound, Counted
<1>2. /\ Extends(s, t, e, {"inFlight", "settled"})
      /\ t.inFlight = {w \in s.inFlight : w.action # e.action} /\ t.settled = s.settled \cup {e.action}
  BY <1>1, SettledFields
<1>3. /\ t.seq = s.seq + 1 /\ t.head = e.type /\ DOMAIN t = Fields
      /\ t.attempt = s.attempt /\ t.fence = s.fence /\ t.ordinal = s.ordinal /\ t.mode = s.mode
      /\ t.leases = s.leases /\ t.phase = s.phase
      /\ t.resume = s.resume /\ t.seenIds = s.seenIds /\ t.consumedIds = s.consumedIds
      /\ t.control = s.control
  BY <1>2 DEF Extends, Changes, Fields
<1>4. Counted(t)
  BY <1>3 DEF Sound, Counted
<1>5. Unstarted(t)
  BY <1>2, <1>3, UnstartedKept DEF Sound
<1>6. Owned(t)
  BY <1>3, OwnedKept DEF Sound
<1>7. Quiet(t)
  BY <1>2, <1>3, QuietKept DEF Sound
<1>8. Clean(t)
  BY <1>2, <1>3 DEF Sound, Clean
<1>9. Consumed(t)
  BY <1>3, ConsumedKept DEF Sound
<1>10. Controlled(t)
  BY <1>3, ControlledKept DEF Sound, StopRequests
<1> QED BY <1>4, <1>5, <1>6, <1>7, <1>8, <1>9, <1>10 DEF Sound

(* The lemma the rest builds on: an accepted event keeps a ledger sound if *)
(* whoever appends it is careful.                                          *)
LEMMA AcceptedIsSound ==
  ASSUME NEW s, NEW e, Sound(s), Accepts(s, e), Careful(s, e)
  PROVE  Sound(Reduce(s, e))
<1>1. PICK t : t = Reduce(s, e)
  OBVIOUS
<1>2. DOMAIN s = Fields /\ s.fence \in Nat
  BY DEF Sound, Counted
<1>3. CASE e.type = "run.started"
  <2>1. Extends(s, t, e, {"phase", "started"}) /\ t.phase = "running"
    BY <1>1, <1>2, <1>3, StartedFields
  <2>2. Extends(s, t, e, Moods)
    BY <2>1, ExtendsMore DEF Moods
  <2>3. s.control = {}
    BY <1>3 DEF Accepts, Sound, Unstarted
  <2> QED BY <1>1, <1>3, <2>1, <2>2, <2>3, MoodSound DEF StopRequests
<1>4. CASE e.type = "recovery.resume-requested"
  BY <1>4, ResumeRequestedSound
<1>5. CASE e.type = "execution.attempt-started"
  BY <1>5, AttemptStartedSound
<1>6. CASE e.type = "ownership.lease-acquired"
  BY <1>6, LeaseAcquiredSound
<1>7. CASE e.type = "ownership.lease-released"
  BY <1>7, LeaseReleasedSound
<1>8. CASE e.type = "control.pause-requested"
  <2>1. Extends(s, t, e, {"pause", "control"}) /\ t.control = ControlRequest(s, e.type)
    BY <1>1, <1>2, <1>8, PauseRequestedFields
  <2>2. Extends(s, t, e, Moods \cup {"control"})
    BY <2>1, ExtendsMore DEF Moods
  <2>3. t.phase = s.phase
    BY <2>1 DEF Extends, Changes, Fields
  <2>4. s.attempt # 0
    BY <1>8 DEF Accepts, MayRequestPause, OwnerActive
  <2>5. s.phase # "initialized"
    BY <2>4 DEF Sound, Unstarted
  <2> QED BY <1>1, <1>8, <2>1, <2>2, <2>3, <2>5, RequestSound DEF StopRequests
<1>9. CASE e.type = "run.fence-advanced"
  <2>1. Extends(s, t, e, {"fence", "advanced", "fenced", "leases"}) /\ t.fence = e.fence
    BY <1>1, <1>2, <1>9, FenceAdvancedFields
  <2>2. Extends(s, t, e, {"fence", "advanced", "fenced", "leases", "phase"})
    BY <2>1, ExtendsMore
  <2>3. t.phase = s.phase
    BY <2>1 DEF Extends, Changes, Fields
  <2>4. t.fence \in Nat
    BY <1>2, <1>9, <2>1 DEF Accepts, MayAdvanceFence
  <2>5. t.leases = {}
    BY <1>1, <1>9, AllTakenDown
  <2> QED BY <1>1, <1>9, <2>2, <2>3, <2>4, <2>5, OustedSound DEF StopRequests
<1>10. CASE e.type = "task.action-admitted"
  BY <1>10, AdmittedSound
<1>11. CASE e.type = "task.action-settled"
  BY <1>11, SettledSound
<1>12. CASE e.type = "run.paused"
  <2>1. Extends(s, t, e, {"phase", "pause"}) /\ t.phase = "paused"
    BY <1>1, <1>2, <1>12, PausedFields
  <2>2. Extends(s, t, e, Moods)
    BY <2>1, ExtendsMore DEF Moods
  <2>3. s.inFlight = {} /\ s.head = "run.fence-advanced"
    BY <1>12 DEF Accepts, MayPause
  <2>4. s.leases = {}
    BY <2>3 DEF Sound, Quiet
  <2> QED BY <1>1, <1>12, <2>1, <2>2, <2>3, <2>4, MoodSound DEF StopRequests
<1>13. CASE e.type = "integrity.observation-rejected"
  <2>1. Extends(s, t, e, {"phase"}) /\ t.phase = "quarantine-required"
    BY <1>1, <1>2, <1>13, RejectedFields
  <2>2. Extends(s, t, e, Moods)
    BY <2>1, ExtendsMore DEF Moods
  <2> QED BY <1>1, <1>13, <2>1, <2>2, MoodSound DEF StopRequests
<1>14. CASE e.type = "run.quarantined"
  <2>1. Extends(s, t, e, {"phase"}) /\ t.phase = "quarantined"
    BY <1>1, <1>2, <1>14, QuarantinedFields
  <2>2. Extends(s, t, e, Moods)
    BY <2>1, ExtendsMore DEF Moods
  <2> QED BY <1>1, <1>14, <2>1, <2>2, MoodSound DEF StopRequests
<1>15. CASE e.type = "authority.grant-revoked"
  <2>1. /\ Extends(s, t, e, {"phase", "control"})
        /\ t.phase = Hold(s.phase) /\ t.control = ControlRequest(s, e.type)
    BY <1>1, <1>2, <1>15, RevokedFields
  <2>2. Extends(s, t, e, Moods \cup {"control"})
    BY <2>1, ExtendsMore DEF Moods
  <2>3. t.phase \in {"aborting", "quarantined", "held"}
    BY <2>1 DEF Hold
  <2> QED BY <1>1, <1>15, <2>1, <2>2, <2>3, RequestSound DEF StopRequests
<1>16. CASE e.type = "control.abort-requested"
  <2>1. /\ Extends(s, t, e, {"phase", "aborted", "control"})
        /\ t.phase \in {"aborting", "quarantined"} /\ t.control = ControlRequest(s, e.type)
    BY <1>1, <1>2, <1>16, AbortedFields
  <2>2. Extends(s, t, e, Moods \cup {"control"})
    BY <2>1, ExtendsMore DEF Moods
  <2> QED BY <1>1, <1>16, <2>1, <2>2, RequestSound DEF StopRequests
<1>17. CASE e.type = "run.terminal-sealed"
  <2>1. Extends(s, t, e, {"phase", "fence", "leases"}) /\ t.phase = "sealed" /\ t.fence = e.fence /\ t.leases = {}
    BY <1>1, <1>2, <1>17, SealWrittenFields
  <2>2. Extends(s, t, e, {"fence", "advanced", "fenced", "leases", "phase"})
    BY <2>1, ExtendsMore
  <2>3. t.fence \in Nat
    BY <1>2, <1>17, <2>1 DEF Accepts, MaySeal
  <2> QED BY <1>1, <1>17, <2>1, <2>2, <2>3, OustedSound DEF StopRequests
<1>18. CASE e.type \notin Ruling
  <2>1. Extends(s, t, e, Records)
    BY <1>1, <1>2, <1>18, RecordFields
  <2>2. Extends(s, t, e, Moods)
    BY <2>1, ExtendsMore DEF Moods
  <2>3. t.phase = s.phase
    BY <2>1 DEF Extends, Changes, Fields, Records
  <2> QED BY <1>1, <1>18, <2>2, <2>3, MoodSound DEF StopRequests, Ruling
<1> QED
  BY <1>3, <1>4, <1>5, <1>6, <1>7, <1>8, <1>9, <1>10, <1>11, <1>12, <1>13, <1>14, <1>15, <1>16, <1>17,
     <1>18 DEF Ruling

-----------------------------------------------------------------------------
(* What FencedRun sees of a ledger, and the steps of FencedRun between two *)
(* ledgers.                                                                *)

Epoch(s) == IF s.attempt = 0 THEN 0 ELSE s.fence + 1
Holder(ref, epoch) == [id |-> ref, epoch |-> epoch]
Holders(s) == {[id |-> l.ref, epoch |-> l.fence + 1] : l \in s.leases}
Over(s) == s.phase = "sealed"

SameHolders(s, t) == t.attempt = s.attempt /\ Epoch(t) = Epoch(s) /\ Holders(t) = Holders(s)
SameWork(s, t) == ActionsInFlight(t) = ActionsInFlight(s)
Open(s, t) == ~Over(s) /\ ~Over(t)

Begins(s, t) ==
  /\ Open(s, t) /\ SameWork(s, t)
  /\ Epoch(t) = Epoch(s) + 1 /\ t.attempt = t.seq /\ Holders(t) = {Holder(t.seq, Epoch(t))}

Joins(s, t) ==
  /\ Open(s, t) /\ SameWork(s, t) /\ t.attempt = s.attempt /\ Epoch(t) = Epoch(s)
  /\ Holder(s.attempt, Epoch(s)) \in Holders(s)
  /\ Holders(t) = Holders(s) \cup {Holder(t.seq, Epoch(s))}

Leaves(s, t) ==
  /\ Open(s, t) /\ SameWork(s, t) /\ t.attempt = s.attempt /\ Epoch(t) = Epoch(s)
  /\ \E ref \in 1 .. s.seq : Holders(t) = Holders(s) \ {Holder(ref, Epoch(s))}

Admits(s, t) ==
  /\ Open(s, t) /\ SameHolders(s, t) /\ Holder(s.attempt, Epoch(s)) \in Holders(s)
  /\ \E a \in Actions \ ActionsInFlight(s) : ActionsInFlight(t) = ActionsInFlight(s) \cup {a}

Settles(s, t) ==
  /\ Open(s, t) /\ SameHolders(s, t)
  /\ \E a \in Actions : ActionsInFlight(t) = ActionsInFlight(s) \ {a}

Stops(s, t) ==
  /\ Open(s, t) /\ SameWork(s, t) /\ t.attempt = s.attempt
  /\ Epoch(t) = Epoch(s) + 1 /\ Holders(t) = {}

Seals(s, t) ==
  /\ ~Over(s) /\ Over(t) /\ SameWork(s, t) /\ ActionsInFlight(s) = {} /\ t.attempt = s.attempt
  /\ Epoch(t) \in {Epoch(s), Epoch(s) + 1} /\ Holders(t) = {}

Moves(s, t) ==
  \/ Open(s, t) /\ SameHolders(s, t) /\ SameWork(s, t)
  \/ Begins(s, t) \/ Joins(s, t) \/ Leaves(s, t) \/ Admits(s, t) \/ Settles(s, t)
  \/ Stops(s, t) \/ Seals(s, t)

(* Some request to stop names the attempt and the fence.                   *)
Named(s) == \E r \in s.control : r.attempt = s.attempt /\ r.fence = s.fence

(* Everything the properties of a step ask of the ledger a batch leads to. *)
Advances(s, t) ==
  /\ Sound(t) /\ t.seq > s.seq
  /\ Moves(s, t)
  /\ t.fence # s.fence /\ t.attempt = s.attempt /\ t.phase # "sealed" => t.leases = {} /\ Named(s)
  /\ t.head = "task.action-admitted" =>
       \A r \in s.control : r.attempt = s.attempt => r.kind = "control.pause-requested"

LEMMA OwnerIsHolder ==
  ASSUME NEW s, Owned(s), OwnerActive(s)
  PROVE  Holder(s.attempt, Epoch(s)) \in Holders(s)
<1>1. PICK l \in s.leases : l.ref = s.attempt
  BY DEF OwnerActive, ActiveRefs
<1>2. s.attempt # 0 /\ l.fence = s.fence
  BY DEF Owned, OwnerActive
<1> QED BY <1>1, <1>2 DEF Holders, Holder, Epoch

LEMMA BeginsStep ==
  ASSUME NEW s, NEW e, NEW t, Sound(s), t = Reduce(s, e), Accepts(s, e),
         e.type = "execution.attempt-started"
  PROVE  Begins(s, t) /\ t.attempt # s.attempt
<1>1. DOMAIN s = Fields /\ s.seq \in Nat /\ s.fence \in Nat /\ s.attempt \in 0 .. s.seq
  BY DEF Sound, Counted
<1>2. /\ Extends(s, t, e, {"ordinal", "attempt", "mode", "fence", "leases", "phase", "consumedIds", "resume"})
      /\ t.attempt = s.seq + 1 /\ t.fence = e.fence
      /\ t.leases = {Lease(s.seq + 1, s.seq + 1, e.fence)} /\ t.phase = "running"
  BY <1>1, AttemptStartedFields
<1>3. t.seq = s.seq + 1 /\ t.inFlight = s.inFlight
  BY <1>2 DEF Extends, Changes, Fields
<1>4. Open(s, t) /\ MayStartAttempt(s, e)
  BY <1>2 DEF Accepts, PermittedNow, Open, Over
<1>5. t.attempt # 0 /\ Epoch(t) = e.fence + 1
  BY <1>1, <1>2 DEF Epoch
<1>6. e.fence = Epoch(s)
  BY <1>4 DEF MayStartAttempt, Epoch
<1>7. Holders(t) = {Holder(t.seq, Epoch(t))}
  BY <1>2, <1>3, <1>5 DEF Holders, Holder, Lease
<1> QED BY <1>1, <1>2, <1>3, <1>4, <1>5, <1>6, <1>7 DEF Begins, SameWork, ActionsInFlight

LEMMA JoinsStep ==
  ASSUME NEW s, NEW e, NEW t, Sound(s), t = Reduce(s, e), Accepts(s, e),
         e.type = "ownership.lease-acquired"
  PROVE  Joins(s, t) /\ t.fence = s.fence
<1>1. /\ Extends(s, t, e, {"leases"})
      /\ t.leases = s.leases \cup {Lease(s.seq + 1, e.attempt, e.fence)}
  BY LeaseAcquiredFields DEF Sound, Counted
<1>2. /\ t.seq = s.seq + 1 /\ t.inFlight = s.inFlight /\ t.phase = s.phase
      /\ t.attempt = s.attempt /\ t.fence = s.fence
  BY <1>1 DEF Extends, Changes, Fields
<1>3. OwnerActive(s) /\ e.fence = s.fence /\ s.phase # "sealed"
  BY DEF Accepts, PermittedNow, MayAcquireLease
<1>4. Holder(s.attempt, Epoch(s)) \in Holders(s)
  BY <1>3, OwnerIsHolder DEF Sound
<1>5. Epoch(s) = s.fence + 1
  BY <1>3 DEF OwnerActive, Epoch
<1>6. Holders(t) = Holders(s) \cup {Holder(t.seq, Epoch(s))}
  <2>1. PICK k : k = Lease(s.seq + 1, e.attempt, e.fence)
    OBVIOUS
  <2>2. t.leases = s.leases \cup {k}
    BY <1>1, <2>1
  <2>3. Holder(t.seq, Epoch(s)) = [id |-> k.ref, epoch |-> k.fence + 1]
    BY <1>2, <1>3, <1>5, <2>1 DEF Holder, Lease
  <2> QED BY <2>2, <2>3 DEF Holders
<1>7. Epoch(t) = Epoch(s)
  BY <1>2 DEF Epoch
<1> QED BY <1>2, <1>3, <1>4, <1>6, <1>7 DEF Joins, Open, Over, SameWork, ActionsInFlight

LEMMA LeavesStep ==
  ASSUME NEW s, NEW e, NEW t, Sound(s), t = Reduce(s, e), Accepts(s, e),
         e.type = "ownership.lease-released"
  PROVE  Leaves(s, t) /\ t.fence = s.fence
<1>1. Extends(s, t, e, {"leases"}) /\ t.leases = {l \in s.leases : l.ref # e.lease}
  BY LeaseReleasedFields DEF Sound, Counted
<1>2. /\ t.seq = s.seq + 1 /\ t.inFlight = s.inFlight /\ t.phase = s.phase
      /\ t.attempt = s.attempt /\ t.fence = s.fence
  BY <1>1 DEF Extends, Changes, Fields
<1>3. s.phase # "sealed" /\ e.lease \in ActiveRefs(s)
  BY DEF Accepts, PermittedNow, MayRelease
<1>4. PICK k \in s.leases : k.ref = e.lease
  BY <1>3 DEF ActiveRefs
<1>5. e.lease \in 1 .. s.seq
  BY <1>4 DEF Sound, Owned
<1>6. s.attempt # 0
  BY <1>4 DEF Sound, Unstarted
<1>7. \A l \in s.leases : l.fence + 1 = Epoch(s)
  BY <1>6 DEF Sound, Owned, Epoch
<1>8. Holders(t) = Holders(s) \ {Holder(e.lease, Epoch(s))}
  <2>1. Holders(t) = {Holder(l.ref, Epoch(s)) : l \in t.leases}
    BY <1>1, <1>7 DEF Holders, Holder
  <2>2. Holders(s) = {Holder(l.ref, Epoch(s)) : l \in s.leases}
    BY <1>7 DEF Holders, Holder
  <2>3. \A l \in s.leases : Holder(l.ref, Epoch(s)) = Holder(e.lease, Epoch(s)) <=> l.ref = e.lease
    BY DEF Holder
  <2> QED BY <1>1, <2>1, <2>2, <2>3
<1>9. Epoch(t) = Epoch(s)
  BY <1>2 DEF Epoch
<1> QED BY <1>2, <1>3, <1>5, <1>8, <1>9 DEF Leaves, Open, Over, SameWork, ActionsInFlight

LEMMA AdmitsStep ==
  ASSUME NEW s, NEW e, NEW t, Sound(s), t = Reduce(s, e), Accepts(s, e),
         e.type = "task.action-admitted", e.action \in Actions
  PROVE  /\ Admits(s, t) /\ t.fence = s.fence
         /\ \A r \in s.control : r.attempt = s.attempt => r.kind = "control.pause-requested"
<1>1. PICK w : w = [action |-> e.action, attempt |-> e.attempt]
  OBVIOUS
<1>2. Extends(s, t, e, {"inFlight"}) /\ t.inFlight = s.inFlight \cup {w} /\ w.action = e.action
  BY <1>1, AdmittedFields DEF Sound, Counted
<1>3. t.leases = s.leases /\ t.phase = s.phase /\ t.attempt = s.attempt /\ t.fence = s.fence
  BY <1>2 DEF Extends, Changes, Fields
<1>4. OwnerActive(s) /\ s.phase = "running" /\ e.action \notin ActionsInFlight(s)
  BY DEF Accepts, MayAdmit
<1>5. Holder(s.attempt, Epoch(s)) \in Holders(s)
  BY <1>4, OwnerIsHolder DEF Sound
<1>6. ActionsInFlight(t) = ActionsInFlight(s) \cup {e.action}
  BY <1>2 DEF ActionsInFlight
<1>7. SameHolders(s, t)
  BY <1>3 DEF SameHolders, Epoch, Holders
<1>8. \A r \in s.control : r.attempt = s.attempt => r.kind = "control.pause-requested"
  BY <1>4 DEF Sound, Controlled
<1> QED BY <1>3, <1>4, <1>5, <1>6, <1>7, <1>8 DEF Admits, Open, Over

LEMMA SettlesStep ==
  ASSUME NEW s, NEW e, NEW t, Sound(s), t = Reduce(s, e), Accepts(s, e),
         e.type = "task.action-settled", e.action \in Actions
  PROVE  Settles(s, t) /\ t.fence = s.fence
<1>1. Extends(s, t, e, {"inFlight", "settled"}) /\ t.inFlight = {w \in s.inFlight : w.action # e.action}
  BY SettledFields DEF Sound, Counted
<1>2. t.leases = s.leases /\ t.phase = s.phase /\ t.attempt = s.attempt /\ t.fence = s.fence
  BY <1>1 DEF Extends, Changes, Fields
<1>3. s.phase # "sealed"
  BY DEF Accepts, PermittedNow
<1>4. ActionsInFlight(t) = ActionsInFlight(s) \ {e.action}
  BY <1>1 DEF ActionsInFlight
<1>5. SameHolders(s, t)
  BY <1>2 DEF SameHolders, Epoch, Holders
<1> QED BY <1>2, <1>3, <1>4, <1>5 DEF Settles, Open, Over

LEMMA StopsStep ==
  ASSUME NEW s, NEW e, NEW t, Sound(s), t = Reduce(s, e), Accepts(s, e), Careful(s, e),
         e.type = "run.fence-advanced"
  PROVE  Stops(s, t) /\ t.leases = {}
<1>1. Extends(s, t, e, {"fence", "advanced", "fenced", "leases"}) /\ t.fence = e.fence
  BY FenceAdvancedFields DEF Sound, Counted
<1>2. t.leases = {}
  BY AllTakenDown
<1>3. t.inFlight = s.inFlight /\ t.phase = s.phase /\ t.attempt = s.attempt
  BY <1>1 DEF Extends, Changes, Fields
<1>4. s.phase # "sealed" /\ s.attempt # 0 /\ e.fence = s.fence + 1
  BY DEF Accepts, PermittedNow, MayAdvanceFence
<1>5. Epoch(t) = Epoch(s) + 1
  BY <1>1, <1>3, <1>4 DEF Epoch
<1>6. Holders(t) = {}
  BY <1>2 DEF Holders
<1> QED BY <1>2, <1>3, <1>4, <1>5, <1>6 DEF Stops, Open, Over, SameWork, ActionsInFlight

LEMMA SealsStep ==
  ASSUME NEW s, NEW e, NEW t, Sound(s), t = Reduce(s, e), Accepts(s, e), e.type = "run.terminal-sealed"
  PROVE  Seals(s, t) /\ t.phase = "sealed"
<1>1. /\ Extends(s, t, e, {"phase", "fence", "leases"})
      /\ t.phase = "sealed" /\ t.fence = e.fence /\ t.leases = {}
  BY SealWrittenFields DEF Sound, Counted
<1>2. t.inFlight = s.inFlight /\ t.attempt = s.attempt
  BY <1>1 DEF Extends, Changes, Fields
<1>3. s.phase # "sealed" /\ s.inFlight = {} /\ e.fence = s.fence + 1
  BY DEF Accepts, PermittedNow, MaySeal
<1>4. Epoch(t) \in {Epoch(s), Epoch(s) + 1}
  BY <1>1, <1>2, <1>3 DEF Epoch
<1>5. Holders(t) = {}
  BY <1>1 DEF Holders
<1> QED BY <1>1, <1>2, <1>3, <1>4, <1>5 DEF Seals, Over, SameWork, ActionsInFlight

(* An event of any other kind is nothing to FencedRun.                     *)
Working ==
  {"execution.attempt-started", "ownership.lease-acquired", "ownership.lease-released",
   "task.action-admitted", "task.action-settled", "run.fence-advanced", "run.terminal-sealed"}

Untouched(s, t) ==
  t.attempt = s.attempt /\ t.fence = s.fence /\ t.leases = s.leases /\ t.inFlight = s.inFlight

LEMMA OtherStep ==
  ASSUME NEW s, NEW e, NEW t, Sound(s), t = Reduce(s, e), Accepts(s, e), e.type \notin Working
  PROVE  Untouched(s, t) /\ Open(s, t)
<1>1. DOMAIN s = Fields
  BY DEF Sound, Counted
<1>2. s.phase # "sealed"
  BY DEF Accepts, PermittedNow
<1> DEFINE Rest == {"phase", "started", "seenIds", "resume", "pause", "aborted", "control"} \cup Records
<1>3. Extends(s, t, e, Rest) /\ t.phase # "sealed"
  <2>1. CASE e.type = "run.started"
    BY <1>1, <2>1, StartedFields, ExtendsMore
  <2>2. CASE e.type = "recovery.resume-requested"
    <3>1. Extends(s, t, e, {"seenIds", "resume"})
      BY <1>1, <2>2, ResumeRequestedFields
    <3> QED BY <1>2, <3>1, ExtendsMore DEF Extends, Changes, Fields
  <2>3. CASE e.type = "control.pause-requested"
    <3>1. Extends(s, t, e, {"pause", "control"})
      BY <1>1, <2>3, PauseRequestedFields
    <3> QED BY <1>2, <3>1, ExtendsMore DEF Extends, Changes, Fields
  <2>4. CASE e.type = "run.paused"
    BY <1>1, <2>4, PausedFields, ExtendsMore
  <2>5. CASE e.type = "integrity.observation-rejected"
    BY <1>1, <2>5, RejectedFields, ExtendsMore
  <2>6. CASE e.type = "run.quarantined"
    BY <1>1, <2>6, QuarantinedFields, ExtendsMore
  <2>7. CASE e.type = "authority.grant-revoked"
    BY <1>1, <2>7, RevokedFields, ExtendsMore DEF Hold
  <2>8. CASE e.type = "control.abort-requested"
    BY <1>1, <2>8, AbortedFields, ExtendsMore
  <2>9. CASE e.type \notin Ruling
    <3>1. Extends(s, t, e, Records)
      BY <1>1, <2>9, RecordFields
    <3> QED BY <1>2, <3>1, ExtendsMore DEF Extends, Changes, Fields, Records
  <2> QED BY <2>1, <2>2, <2>3, <2>4, <2>5, <2>6, <2>7, <2>8, <2>9 DEF Ruling, Working
<1>4. Untouched(s, t)
  BY <1>3 DEF Extends, Changes, Fields, Records, Untouched
<1> QED BY <1>2, <1>3, <1>4 DEF Open, Over

LEMMA UntouchedIsSame ==
  ASSUME NEW s, NEW t, Untouched(s, t)
  PROVE  SameHolders(s, t) /\ SameWork(s, t)
BY DEF Untouched, SameHolders, SameWork, Epoch, Holders, ActionsInFlight

(* Nobody advances the fence but at a request to stop, either.             *)
Cautious(s, e) ==
  /\ Careful(s, e)
  /\ e.type \in {"task.action-admitted", "task.action-settled"} => e.action \in Actions
  /\ e.type = "run.fence-advanced" => Named(s)

LEMMA AppendedAdvances ==
  ASSUME NEW s, NEW e, NEW t, Sound(s), t = Reduce(s, e), Accepts(s, e), Cautious(s, e)
  PROVE  Advances(s, t) /\ t.seq = s.seq + 1 /\ t.head = e.type
<1>1. s.seq \in Nat /\ DOMAIN s = Fields
  BY DEF Sound, Counted
<1>2. Careful(s, e)
  BY DEF Cautious
<1>3. Sound(t)
  BY <1>2, AcceptedIsSound
<1>4. t.seq = s.seq + 1 /\ t.head = e.type
  BY <1>1, <1>2, HeadAndSeq
<1>5. CASE e.type = "execution.attempt-started"
  BY <1>1, <1>2, <1>3, <1>4, <1>5, BeginsStep DEF Advances, Moves
<1>6. CASE e.type = "ownership.lease-acquired"
  BY <1>1, <1>2, <1>3, <1>4, <1>6, JoinsStep DEF Advances, Moves
<1>7. CASE e.type = "ownership.lease-released"
  BY <1>1, <1>2, <1>3, <1>4, <1>7, LeavesStep DEF Advances, Moves
<1>8. CASE e.type = "task.action-admitted"
  <2>1. e.action \in Actions
    BY <1>8 DEF Cautious
  <2> QED BY <1>1, <1>2, <1>3, <1>4, <1>8, <2>1, AdmitsStep DEF Advances, Moves
<1>9. CASE e.type = "task.action-settled"
  <2>1. e.action \in Actions
    BY <1>9 DEF Cautious
  <2> QED BY <1>1, <1>2, <1>3, <1>4, <1>9, <2>1, SettlesStep DEF Advances, Moves
<1>10. CASE e.type = "run.fence-advanced"
  <2>1. Named(s)
    BY <1>10 DEF Cautious
  <2> QED BY <1>1, <1>2, <1>3, <1>4, <1>10, <2>1, StopsStep DEF Advances, Moves
<1>11. CASE e.type = "run.terminal-sealed"
  BY <1>1, <1>2, <1>3, <1>4, <1>11, SealsStep DEF Advances, Moves
<1>12. CASE e.type \notin Working
  <2>1. Untouched(s, t) /\ Open(s, t)
    BY <1>2, <1>12, OtherStep
  <2>2. Moves(s, t)
    BY <2>1, UntouchedIsSame DEF Moves
  <2>3. t.fence = s.fence /\ t.head # "task.action-admitted"
    BY <1>4, <1>12, <2>1 DEF Untouched, Working
  <2> QED BY <1>1, <1>3, <1>4, <2>2, <2>3 DEF Advances
<1> QED BY <1>4, <1>5, <1>6, <1>7, <1>8, <1>9, <1>10, <1>11, <1>12 DEF Working

(* Events of a batch that come before its decisive one, or after it.       *)
Calm(s, t) ==
  /\ Untouched(s, t) /\ Open(s, t) /\ t.control = s.control
  /\ Sound(s) /\ Sound(t) /\ t.seq > s.seq /\ t.head # "task.action-admitted"

CalmEvents ==
  {"integrity.observation-rejected", "run.quarantined", "run.paused",
   "task.execution-non-entry-acknowledged", "process.termination-attempted",
   "task.action-outcome-reconciled"}

LEMMA CalmAppended ==
  ASSUME NEW s, NEW e, NEW t, Sound(s), t = Reduce(s, e), Accepts(s, e), e.type \in CalmEvents
  PROVE  Calm(s, t) /\ t.seq = s.seq + 1
<1>1. DOMAIN s = Fields /\ s.seq \in Nat
  BY DEF Sound, Counted
<1>2. Sound(t)
  BY AcceptedIsSound DEF Careful, CalmEvents
<1>3. Untouched(s, t) /\ Open(s, t)
  BY OtherStep DEF CalmEvents, Working
<1>4. t.seq = s.seq + 1 /\ t.head = e.type
  BY <1>1, HeadAndSeq
<1>5. t.control = s.control
  <2>1. CASE e.type = "run.paused"
    BY <1>1, <2>1, PausedFields DEF Extends, Changes, Fields
  <2>2. CASE e.type = "integrity.observation-rejected"
    BY <1>1, <2>2, RejectedFields DEF Extends, Changes, Fields
  <2>3. CASE e.type = "run.quarantined"
    BY <1>1, <2>3, QuarantinedFields DEF Extends, Changes, Fields
  <2>4. CASE e.type \notin Ruling
    BY <1>1, <2>4, RecordFields DEF Extends, Changes, Fields, Records
  <2> QED BY <2>1, <2>2, <2>3, <2>4 DEF CalmEvents, Ruling
<1> QED BY <1>1, <1>2, <1>3, <1>4, <1>5 DEF Calm, CalmEvents

LEMMA CalmThenCalm ==
  ASSUME NEW s, NEW t, NEW u, Calm(s, t), Calm(t, u)
  PROVE  Calm(s, u)
<1>1. s.seq \in Nat /\ t.seq \in Nat /\ u.seq \in Nat
  BY DEF Calm, Sound, Counted
<1> QED BY <1>1 DEF Calm, Untouched, Open

LEMMA CalmAdvances ==
  ASSUME NEW s, NEW t, Calm(s, t)
  PROVE  Advances(s, t)
<1>1. Moves(s, t)
  BY UntouchedIsSame DEF Calm, Moves
<1> QED BY <1>1 DEF Calm, Advances, Untouched

LEMMA StopsThenCalm ==
  ASSUME NEW s, NEW t, NEW u, Sound(s), Advances(s, t), Stops(s, t), t.leases = {}, Named(s), Calm(t, u)
  PROVE  Advances(s, u)
<1>1. s.seq \in Nat /\ t.seq \in Nat /\ u.seq \in Nat
  BY DEF Calm, Sound, Counted
<1>2. SameHolders(t, u) /\ SameWork(t, u)
  BY UntouchedIsSame DEF Calm
<1>3. Stops(s, u)
  BY <1>2 DEF Stops, Calm, Open, SameHolders, SameWork
<1> QED BY <1>1, <1>3 DEF Advances, Moves, Calm, Untouched

LEMMA CalmThenSettles ==
  ASSUME NEW s, NEW t, NEW u, Calm(s, t), Advances(t, u), Settles(t, u), u.fence = t.fence,
         u.head = "task.action-settled"
  PROVE  Advances(s, u)
<1>1. s.seq \in Nat /\ t.seq \in Nat /\ u.seq \in Nat
  BY DEF Calm, Advances, Sound, Counted
<1>2. SameHolders(s, t) /\ SameWork(s, t)
  BY UntouchedIsSame DEF Calm
<1>3. Settles(s, u)
  BY <1>2 DEF Settles, Calm, Open, SameHolders, SameWork
<1> QED BY <1>1, <1>3 DEF Advances, Moves, Calm, Untouched

-----------------------------------------------------------------------------
(* The batches.                                                            *)

LEMMA AppendingAdvances ==
  ASSUME NEW e, Sound(ledger), Cautious(ledger, e), NEW t \in Appending(e)
  PROVE  /\ t = Reduce(ledger, e) /\ Accepts(ledger, e)
         /\ Advances(ledger, t) /\ t.seq = ledger.seq + 1 /\ t.head = e.type
<1>1. t = Reduce(ledger, e) /\ Accepts(ledger, e)
  BY DEF Appending, After
<1> QED BY <1>1, AppendedAdvances

(* Most events need no care.                                               *)
Careless == {"run.fence-advanced", "task.action-admitted", "task.action-settled", "execution.attempt-started"}

LEMMA PlainAdvances ==
  ASSUME NEW e, Sound(ledger), e.type \notin Careless, NEW t \in Appending(e)
  PROVE  Advances(ledger, t) /\ t.seq = ledger.seq + 1 /\ t.head = e.type
<1>1. Cautious(ledger, e)
  BY DEF Careless, Cautious, Careful
<1> QED BY <1>1, AppendingAdvances

LEMMA CalmAfter ==
  ASSUME NEW states, NEW e, e.type \in CalmEvents, \A s \in states : Sound(s),
         NEW t \in After(states, e)
  PROVE  \E s \in states : Calm(s, t)
<1>1. PICK s \in states : Accepts(s, e) /\ t = Reduce(s, e)
  BY DEF After
<1> QED BY <1>1, CalmAppended

LEMMA QuarantineAdvances ==
  ASSUME Sound(ledger),
         NEW t \in After(Appending([type |-> "integrity.observation-rejected"]), [type |-> "run.quarantined"])
  PROVE  Advances(ledger, t)
<1> DEFINE rejected == Appending([type |-> "integrity.observation-rejected"])
<1>1. \A s \in rejected : Calm(ledger, s)
  BY CalmAfter DEF Appending, CalmEvents
<1>2. \A s \in rejected : Sound(s)
  BY <1>1 DEF Calm
<1>3. PICK s \in rejected : Calm(s, t)
  BY <1>2, CalmAfter DEF CalmEvents
<1> QED BY <1>1, <1>3, CalmThenCalm, CalmAdvances

LEMMA NonEntryAdvances ==
  ASSUME Sound(ledger), NEW a \in Actions, NEW t \in NonEntryBatch(a)
  PROVE  Advances(ledger, t)
<1> DEFINE acknowledge == [type |-> "task.execution-non-entry-acknowledged", action |-> a]
           terminate == [type |-> "process.termination-attempted", action |-> a]
           reconcile == [type |-> "task.action-outcome-reconciled", action |-> a,
                         status |-> "proven-non-start"]
           settle == [type |-> "task.action-settled", action |-> a]
           acknowledged == Appending(acknowledge)
           terminated == After(acknowledged, terminate)
           reconciled == After(terminated, reconcile)
<1>1. \A s \in acknowledged : Calm(ledger, s) /\ Sound(s)
  <2>1. \A s \in acknowledged : \E r \in {ledger} : Calm(r, s)
    BY CalmAfter DEF Appending, CalmEvents
  <2> QED BY <2>1 DEF Calm
<1>2. \A s \in terminated : Calm(ledger, s) /\ Sound(s)
  <2>1. \A s \in terminated : \E r \in acknowledged : Calm(r, s)
    BY <1>1, CalmAfter DEF CalmEvents
  <2> QED BY <1>1, <2>1, CalmThenCalm DEF Calm
<1>3. \A s \in reconciled : Calm(ledger, s) /\ Sound(s)
  <2>1. \A s \in reconciled : \E r \in terminated : Calm(r, s)
    BY <1>2, CalmAfter DEF CalmEvents
  <2> QED BY <1>2, <2>1, CalmThenCalm DEF Calm
<1>4. PICK s \in reconciled : Accepts(s, settle) /\ t = Reduce(s, settle)
  BY DEF NonEntryBatch, After
<1>5. Cautious(s, settle)
  BY DEF Cautious, Careful
<1>6. Advances(s, t) /\ t.head = "task.action-settled"
  BY <1>3, <1>4, <1>5, AppendedAdvances
<1>7. Settles(s, t) /\ t.fence = s.fence
  BY <1>3, <1>4, SettlesStep
<1> QED BY <1>3, <1>4, <1>6, <1>7, CalmThenSettles

LEMMA FenceEventCautious ==
  ASSUME Named(ledger)
  PROVE  Cautious(ledger, FenceEvent) /\ FenceEvent.type = "run.fence-advanced"
BY DEF FenceEvent, Cautious, Careful

LEMMA FenceAdvances ==
  ASSUME Sound(ledger), Named(ledger), NEW t \in Appending(FenceEvent)
  PROVE  /\ Advances(ledger, t) /\ Stops(ledger, t)
         /\ t.leases = {} /\ t.head = "run.fence-advanced"
<1>1. Cautious(ledger, FenceEvent) /\ FenceEvent.type = "run.fence-advanced"
  BY FenceEventCautious
<1>2. /\ t = Reduce(ledger, FenceEvent) /\ Accepts(ledger, FenceEvent)
      /\ Advances(ledger, t) /\ t.head = "run.fence-advanced"
  BY <1>1, AppendingAdvances
<1>3. Careful(ledger, FenceEvent)
  BY <1>1 DEF Cautious
<1> QED BY <1>1, <1>2, <1>3, StopsStep

LEMMA PauseAdvances ==
  ASSUME Sound(ledger), Named(ledger), NEW ref, NEW t \in PauseBatch(ref)
  PROVE  Advances(ledger, t) /\ t.phase = "paused"
<1>1. PICK e : e = [type |-> "run.paused", request |-> ref, attempt |-> ledger.attempt,
                    owners |-> ActiveRefs(ledger)]
  OBVIOUS
<1>2. e.type = "run.paused"
  BY <1>1
<1>3. PICK s \in Appending(FenceEvent) : Accepts(s, e) /\ t = Reduce(s, e)
  BY <1>1 DEF PauseBatch, After
<1>4. Advances(ledger, s) /\ Stops(ledger, s) /\ s.leases = {} /\ Sound(s)
  BY FenceAdvances DEF Advances
<1>5. Calm(s, t)
  BY <1>2, <1>3, <1>4, CalmAppended DEF CalmEvents
<1>6. t.phase = "paused"
  BY <1>2, <1>3, <1>4, PausedFields DEF Sound, Counted
<1> QED BY <1>4, <1>5, <1>6, StopsThenCalm

LEMMA AttemptAdvances ==
  ASSUME Sound(ledger), NEW r \in ledger.resume, Eligible(r, r.ref), NEW t \in Appending(AttemptEvent(r))
  PROVE  Advances(ledger, t) /\ t.attempt = t.seq /\ t.resume = {}
<1>1. PICK e : e = AttemptEvent(r)
  OBVIOUS
<1>2. e.type = "execution.attempt-started" /\ e.mode = r.mode
  BY <1>1 DEF AttemptEvent
<1>3. e.mode = "ordinary" => ActionsInFlight(ledger) \subseteq ledger.settled
  BY <1>2 DEF Eligible, Unresolved
<1>4. Cautious(ledger, e)
  BY <1>2, <1>3 DEF Cautious, Careful
<1>5. t = Reduce(ledger, e) /\ Accepts(ledger, e) /\ Advances(ledger, t) /\ t.seq = ledger.seq + 1
  BY <1>1, <1>4, AppendingAdvances
<1>6. t.attempt = ledger.seq + 1 /\ t.resume = {}
  BY <1>2, <1>5, AttemptStartedFields DEF Sound, Counted
<1> QED BY <1>5, <1>6
-----------------------------------------------------------------------------
(* What a call that has not ended is entitled to.                          *)

Effected(op, s) ==
  /\ op = "pause" => s.phase = "paused"
  /\ op \in {"abort", "revoke"} => s.head = "run.fence-advanced" /\ s.leases = {}
  /\ op = "resume" => s.attempt = s.seq /\ s.resume = {}

(* No commit that another call left to land can land any more: the ledger  *)
(* has gone past the head that each of them goes on top of.                *)
Alone(w, calls, s) == \A u \in Writers \ {w} : calls[u].pc = "landing" => calls[u].head < s.seq

(* The ledger is where the call left it, or one late commit has landed.    *)
StandsIn(s, n, alone) == s.seq = n \/ (alone /\ s.seq = n + 1 /\ s.head \in Landings)

Truthful(c, s, alone) ==
  CASE c.answer = "NOT_COMMITTED" -> StandsIn(s, c.base, alone)
    [] c.answer = "REQUEST_COMMITTED" ->
         StandsIn(s, c.base + 1, alone) /\ (s.seq = c.base + 1 => s.head = RequestType[c.op])
    [] c.answer = "COMMITTED" -> alone /\ s.seq > c.base /\ Effected(c.op, s)
    [] OTHER -> TRUE

(* What the call that has the lock knows of the ledger.                    *)
Exact(c, s, alone) ==
  /\ c.pc = "requested" => alone /\ s.seq = c.base + 1 /\ s.head = RequestType[c.op]
  /\ c.pc = "landing" => StandsIn(s, c.head, alone)
  /\ c.pc = "closing" => Truthful(c, s, alone)

TwoCommits == {"pause", "abort", "revoke", "resume"}

(* What stays true of a call, whatever others commit.                      *)
Landable(c, s) ==
  /\ c.op \in {"abort", "heartbeat", "release"}
  /\ c.head \in 0 .. s.seq /\ c.base \in Int
  /\ IF c.op = "abort" THEN c.head = c.base + 1 /\ (s.seq = c.head => s.head = RequestType["abort"])
                       ELSE c.head = c.base
  /\ c.op = "release" => \E l : c.lease = {l} /\ l.ref \in 1 .. s.seq

Acknowledged(c, s) ==
  /\ c.op = "abort" => c.base \in Int /\ c.base < s.seq /\ \A l \in s.leases : l.ref > c.base
  /\ c.op = "release" => \A l \in c.lease : l.ref \in 1 .. s.seq /\ l.ref \notin ActiveRefs(s)

Lasting(c, s) ==
  /\ c.pc = "requested" => c.op \in TwoCommits /\ c.base \in Nat
  /\ c.pc = "landing" => Landable(c, s)
  /\ c.pc = "closing" /\ c.answer = "COMMITTED" => Acknowledged(c, s)

(* Between its two commits a process has the lock, so it is the only one.  *)
CallInv ==
  /\ DOMAIN call = Writers
  /\ \A w \in Writers :
       /\ Lasting(call[w], ledger)
       /\ call[w].pc = "requested" => lock = w
       /\ lock = w => Exact(call[w], ledger, Alone(w, call, ledger))

SessionInv == Sound(ledger) /\ CallInv

(* A step leaves the ledger alone, or carries it on.                       *)
Progress == ledger' = ledger \/ (Advances(ledger, ledger') /\ ledger'.seq <= MaxSeq)

(* A lease that a batch brings about is named by its last event.           *)
LEMMA NewLeases ==
  ASSUME NEW s, NEW t, Advances(s, t), NEW l \in t.leases
  PROVE  l.ref = t.seq \/ l.ref \in ActiveRefs(s)
<1>1. PICK h : h = Holder(l.ref, l.fence + 1)
  OBVIOUS
<1>2. h \in Holders(t) /\ h.id = l.ref
  BY <1>1 DEF Holders, Holder
<1>3. Holders(t) \subseteq Holders(s) \/ \E x : Holders(t) \subseteq Holders(s) \cup {Holder(t.seq, x)}
  BY DEF Advances, Moves, SameHolders, Begins, Joins, Leaves, Admits, Settles, Stops, Seals
<1>4. h \in Holders(s) \/ \E x : h = Holder(t.seq, x)
  BY <1>2, <1>3
<1>5. CASE h \in Holders(s)
  <2>1. PICK k \in s.leases : h = [id |-> k.ref, epoch |-> k.fence + 1]
    BY <1>5 DEF Holders
  <2>2. h.id = k.ref
    BY <2>1
  <2> QED BY <1>2, <2>2 DEF ActiveRefs
<1>6. CASE \E x : h = Holder(t.seq, x)
  BY <1>2, <1>6 DEF Holder
<1> QED BY <1>4, <1>5, <1>6

LEMMA LastingKept ==
  ASSUME NEW c, NEW s, NEW t, Sound(s), Advances(s, t), Lasting(c, s)
  PROVE  Lasting(c, t)
<1>1. s.seq \in Nat /\ t.seq \in Nat /\ t.seq > s.seq
  BY DEF Advances, Sound, Counted
<1>2. ASSUME c.pc = "landing"
      PROVE  Landable(c, t)
  <2>1. Landable(c, s)
    BY <1>2 DEF Lasting
  <2>2. c.head \in 0 .. t.seq /\ t.seq # c.head
    BY <1>1, <2>1 DEF Landable
  <2>3. c.op = "release" => \E l : c.lease = {l} /\ l.ref \in 1 .. t.seq
    BY <1>1, <2>1 DEF Landable
  <2> QED BY <2>1, <2>2, <2>3 DEF Landable
<1>3. ASSUME c.pc = "closing", c.answer = "COMMITTED"
      PROVE  Acknowledged(c, t)
  <2>1. Acknowledged(c, s)
    BY <1>3 DEF Lasting
  <2>2. ASSUME c.op = "abort"
        PROVE  c.base \in Int /\ c.base < t.seq /\ \A l \in t.leases : l.ref > c.base
    <3>1. c.base \in Int /\ c.base < s.seq /\ \A k \in s.leases : k.ref > c.base
      BY <2>1, <2>2 DEF Acknowledged
    <3>2. ASSUME NEW l \in t.leases PROVE l.ref > c.base
      <4>1. CASE l.ref = t.seq
        BY <1>1, <3>1, <4>1
      <4>2. CASE l.ref \in ActiveRefs(s)
        BY <3>1, <4>2 DEF ActiveRefs
      <4> QED BY <4>1, <4>2, NewLeases
    <3> QED BY <1>1, <3>1, <3>2
  <2>3. ASSUME c.op = "release", NEW l \in c.lease
        PROVE  l.ref \in 1 .. t.seq /\ l.ref \notin ActiveRefs(t)
    <3>1. l.ref \in 1 .. s.seq /\ l.ref \notin ActiveRefs(s)
      BY <2>1, <2>3 DEF Acknowledged
    <3>2. ASSUME NEW k \in t.leases PROVE k.ref # l.ref
      BY <1>1, <3>1, NewLeases
    <3> QED BY <1>1, <3>1, <3>2 DEF ActiveRefs
  <2> QED BY <2>2, <2>3 DEF Acknowledged
<1> QED BY <1>2, <1>3 DEF Lasting

LEMMA LastingThen ==
  ASSUME SessionInv, Progress, NEW w \in Writers
  PROVE  Lasting(call[w], ledger')
BY LastingKept DEF SessionInv, CallInv, Progress

LEMMA ProgressIsSound ==
  ASSUME SessionInv, Progress
  PROVE  Sound(ledger')
BY DEF SessionInv, Progress, Advances

(* Once a commit has taken effect, none that was left to land can.         *)
LEMMA AdvancedIsAlone ==
  ASSUME SessionInv, NEW w, NEW t, Advances(ledger, t)
  PROVE  Alone(w, call, t)
<1>1. ledger.seq \in Nat /\ t.seq \in Nat /\ t.seq > ledger.seq
  BY DEF SessionInv, Advances, Sound, Counted
<1>2. ASSUME NEW u \in Writers, call[u].pc = "landing" PROVE call[u].head \in 0 .. ledger.seq
  BY <1>2 DEF SessionInv, CallInv, Lasting, Landable
<1> QED BY <1>1, <1>2 DEF Alone

(* While nobody has the lock, no call can be surprised.                    *)
LEMMA KernelAdvances ==
  ASSUME SessionInv, lock = Free, UNCHANGED <<lock, call>>,
         Advances(ledger, ledger'), ledger'.seq <= MaxSeq
  PROVE  SessionInv' /\ Progress
<1>1. \A w \in Writers : lock # w
  BY WriteSessionAssumption
<1>2. Progress
  BY DEF Progress
<1>3. \A w \in Writers : Lasting(call[w], ledger')
  BY <1>2, LastingThen
<1>4. CallInv'
  BY <1>1, <1>3 DEF SessionInv, CallInv
<1> QED BY <1>2, <1>4, ProgressIsSound DEF SessionInv

(* The step of a process that has the lock or takes it.                    *)
LEMMA TurnStep ==
  ASSUME SessionInv, NEW w \in Writers, lock \in {Free, w}, lock' = w,
         NEW c, call' = [call EXCEPT ![w] = c], Progress, Lasting(c, ledger'),
         Exact(c, ledger', Alone(w, call, ledger'))
  PROVE  SessionInv'
<1>1. DOMAIN call = Writers /\ DOMAIN call' = Writers
  BY DEF SessionInv, CallInv
<1>2. call'[w] = c /\ \A v \in Writers \ {w} : call'[v] = call[v]
  BY <1>1
<1>3. ASSUME NEW v \in Writers \ {w}
      PROVE  Lasting(call'[v], ledger') /\ call'[v].pc # "requested" /\ lock' # v
  <2>1. Lasting(call[v], ledger')
    BY LastingThen
  <2>2. call[v].pc # "requested"
    BY WriteSessionAssumption DEF SessionInv, CallInv
  <2> QED BY <1>2, <2>1, <2>2
<1>4. Alone(w, call', ledger') = Alone(w, call, ledger')
  BY <1>2 DEF Alone
<1>5. Exact(call'[w], ledger', Alone(w, call', ledger'))
  BY <1>2, <1>4
<1>6. Lasting(call'[w], ledger')
  BY <1>2
<1>7. CallInv'
  BY <1>1, <1>3, <1>5, <1>6 DEF CallInv
<1> QED BY <1>7, ProgressIsSound DEF SessionInv

LEMMA ReplyFields ==
  ASSUME NEW op, NEW base, NEW answer, NEW c, c = Reply(op, base, answer)
  PROVE  c.pc = "closing" /\ c.op = op /\ c.base = base /\ c.answer = answer /\ c.lease = {}
BY DEF Reply, NoCall

LEMMA RequestedFields ==
  ASSUME NEW op, NEW base, NEW c, c = Requested(op, base)
  PROVE  c.pc = "requested" /\ c.op = op /\ c.base = base
BY DEF Requested, NoCall

(* A call that is refused knows where the ledger stands.                   *)
Refused(op, base, refusal, s) ==
  \/ refusal = "NOT_COMMITTED" /\ s.seq = base
  \/ refusal = "REQUEST_COMMITTED" /\ s.seq = base + 1 /\ s.head = RequestType[op]

LEMMA RefusalStep ==
  ASSUME SessionInv, NEW w \in Writers, lock \in {Free, w}, lock' = w, ledger' = ledger,
         NEW op, NEW base, NEW refusal, Answered(w, op, base, refusal),
         Refused(op, base, refusal, ledger)
  PROVE  SessionInv' /\ Progress
<1>1. PICK c : c = Reply(op, base, refusal)
  OBVIOUS
<1>2. c.pc = "closing" /\ c.op = op /\ c.base = base /\ c.answer = refusal
  BY <1>1, ReplyFields
<1>3. Lasting(c, ledger') /\ Exact(c, ledger', Alone(w, call, ledger'))
  BY <1>2 DEF Lasting, Exact, Truthful, StandsIn, Refused
<1>4. call' = [call EXCEPT ![w] = c] /\ Progress
  BY <1>1 DEF Answered, Progress
<1> QED BY <1>3, <1>4, TurnStep

LEMMA UnknownStep ==
  ASSUME SessionInv, NEW w \in Writers, lock \in {Free, w}, lock' = w, Progress,
         NEW op, NEW base, Answered(w, op, base, "OUTCOME_UNKNOWN")
  PROVE  SessionInv'
<1>1. PICK c : c = Reply(op, base, "OUTCOME_UNKNOWN")
  OBVIOUS
<1>2. c.pc = "closing" /\ c.answer = "OUTCOME_UNKNOWN"
  BY <1>1, ReplyFields
<1>3. Lasting(c, ledger') /\ Exact(c, ledger', Alone(w, call, ledger'))
  BY <1>2 DEF Lasting, Exact, Truthful
<1>4. call' = [call EXCEPT ![w] = c]
  BY <1>1 DEF Answered
<1> QED BY <1>3, <1>4, TurnStep

LEMMA CommitStep ==
  ASSUME SessionInv, NEW w \in Writers, lock \in {Free, w}, lock' = w,
         NEW op, NEW base, NEW batch, NEW done, NEW refusal,
         Commit(w, op, base, batch, done, refusal),
         \A t \in batch : Advances(ledger, t) /\ Lasting(done, t) /\ Exact(done, t, TRUE),
         Refused(op, base, refusal, ledger)
  PROVE  SessionInv' /\ Progress
<1>1. \A t \in Within(batch) : t \in batch /\ t.seq <= MaxSeq
  BY DEF Within, Publishable
<1>2. CASE ledger' \in Within(batch) /\ call' = [call EXCEPT ![w] = done]
  <2>1. Advances(ledger, ledger') /\ Lasting(done, ledger') /\ Exact(done, ledger', TRUE)
    BY <1>1, <1>2
  <2>2. Progress
    BY <1>1, <1>2, <2>1 DEF Progress
  <2>3. Alone(w, call, ledger') = TRUE
    BY <2>1, AdvancedIsAlone DEF Alone
  <2> QED BY <1>2, <2>1, <2>2, <2>3, TurnStep
<1>3. CASE ledger' = ledger /\ Answered(w, op, base, refusal)
  BY <1>3, RefusalStep
<1>4. CASE ledger' \in {ledger} \cup Within(batch) /\ Answered(w, op, base, "OUTCOME_UNKNOWN")
  <2>1. Progress
    BY <1>1, <1>4 DEF Progress
  <2> QED BY <1>4, <2>1, UnknownStep
<1> QED BY <1>2, <1>3, <1>4 DEF Commit

LEMMA DoneFits ==
  ASSUME NEW op, op \notin {"abort", "release"}, NEW base, NEW t, t.seq > base, Effected(op, t)
  PROVE  Lasting(Done(op, base), t) /\ Exact(Done(op, base), t, TRUE)
<1>1. PICK c : c = Done(op, base)
  OBVIOUS
<1>2. c.pc = "closing" /\ c.op = op /\ c.base = base /\ c.answer = "COMMITTED"
  BY <1>1, ReplyFields DEF Done
<1>3. Lasting(c, t) /\ Exact(c, t, TRUE)
  BY <1>2 DEF Lasting, Acknowledged, Exact, Truthful
<1> QED BY <1>1, <1>3

LEMMA OnceStep ==
  ASSUME SessionInv, NEW w \in Writers, NEW op, op \notin TwoCommits, op # "release",
         NEW batch, Once(w, op, batch), \A t \in batch : Advances(ledger, t)
  PROVE  SessionInv' /\ Progress
<1>1. lock \in {Free, w} /\ lock' = w
  BY DEF Once, Opens
<1>2. Commit(w, op, ledger.seq, batch, Done(op, ledger.seq), "NOT_COMMITTED")
  BY DEF Once
<1>3. \A t \in batch : Lasting(Done(op, ledger.seq), t) /\ Exact(Done(op, ledger.seq), t, TRUE)
  BY DoneFits DEF Effected, TwoCommits, Advances
<1>4. Refused(op, ledger.seq, "NOT_COMMITTED", ledger)
  BY DEF Refused
<1> QED BY <1>1, <1>2, <1>3, <1>4, CommitStep

LEMMA RequestStep ==
  ASSUME SessionInv, NEW w \in Writers, NEW op \in TwoCommits, NEW batch, Request(w, op, batch),
         \A t \in batch : Advances(ledger, t) /\ t.seq = ledger.seq + 1 /\ t.head = RequestType[op]
  PROVE  SessionInv' /\ Progress
<1>1. lock \in {Free, w} /\ lock' = w
  BY DEF Request, Opens
<1>2. Commit(w, op, ledger.seq, batch, Requested(op, ledger.seq), "NOT_COMMITTED")
  BY DEF Request
<1>3. ledger.seq \in Nat
  BY DEF SessionInv, Sound, Counted
<1>4. PICK c : c = Requested(op, ledger.seq)
  OBVIOUS
<1>5. c.pc = "requested" /\ c.op = op /\ c.base = ledger.seq
  BY <1>4, RequestedFields
<1>6. \A t \in batch : Lasting(c, t) /\ Exact(c, t, TRUE)
  BY <1>3, <1>5 DEF Lasting, Exact
<1>7. Refused(op, ledger.seq, "NOT_COMMITTED", ledger)
  BY DEF Refused
<1> QED BY <1>1, <1>2, <1>4, <1>6, <1>7, CommitStep

LEMMA RequestedIsExact ==
  ASSUME SessionInv, NEW w \in Writers, call[w].pc = "requested"
  PROVE  /\ lock = w /\ call[w].op \in TwoCommits /\ call[w].base \in Nat
         /\ ledger.seq = call[w].base + 1 /\ ledger.head = RequestType[call[w].op]
BY DEF SessionInv, CallInv, Lasting, Exact

LEMMA CompletesStep ==
  ASSUME SessionInv, NEW w \in Writers, NEW op, op \notin {"abort", "release"}, NEW batch,
         Completes(w, op, batch), \A t \in batch : Advances(ledger, t) /\ Effected(op, t)
  PROVE  SessionInv' /\ Progress
<1>1. PICK base : base = call[w].base
  OBVIOUS
<1>2. Commit(w, op, base, batch, Done(op, base), "REQUEST_COMMITTED") /\ lock' = lock
  BY <1>1 DEF Completes
<1>3. lock = w /\ base \in Nat /\ ledger.seq = base + 1 /\ ledger.head = RequestType[op]
  BY <1>1, RequestedIsExact DEF Completes
<1>4. \A t \in batch : t.seq > base
  <2>1. \A t \in batch : t.seq \in Nat /\ t.seq > ledger.seq
    BY DEF Advances, Sound, Counted
  <2> QED BY <1>3, <2>1
<1>5. \A t \in batch : Lasting(Done(op, base), t) /\ Exact(Done(op, base), t, TRUE)
  BY <1>4, DoneFits
<1>6. Refused(op, base, "REQUEST_COMMITTED", ledger)
  BY <1>3 DEF Refused
<1> QED BY <1>2, <1>3, <1>5, <1>6, CommitStep

LEMMA ContinuesStep ==
  ASSUME SessionInv, NEW w \in Writers, NEW op, op \notin {"abort", "release"}, NEW ref, NEW batch,
         Continues(w, op, ref, batch), ledger.head = RequestType[op],
         \A t \in batch : Advances(ledger, t) /\ Effected(op, t)
  PROVE  SessionInv' /\ Progress
<1>1. PICK base : base = ref - 1
  OBVIOUS
<1>2. Commit(w, op, base, batch, Done(op, base), "REQUEST_COMMITTED")
  BY <1>1 DEF Continues
<1>3. ledger.seq \in Nat /\ ledger.seq = ref
  BY DEF SessionInv, Sound, Counted, Continues, HeadIs
<1>4. lock \in {Free, w} /\ lock' = w /\ base \in Int /\ ledger.seq = base + 1
  BY <1>1, <1>3 DEF Continues, Opens
<1>5. \A t \in batch : t.seq > base
  <2>1. \A t \in batch : t.seq \in Nat /\ t.seq > ledger.seq
    BY DEF Advances, Sound, Counted
  <2> QED BY <1>4, <2>1
<1>6. \A t \in batch : Lasting(Done(op, base), t) /\ Exact(Done(op, base), t, TRUE)
  BY <1>5, DoneFits
<1>7. Refused(op, base, "REQUEST_COMMITTED", ledger)
  BY <1>4 DEF Refused
<1> QED BY <1>2, <1>4, <1>6, <1>7, CommitStep

-----------------------------------------------------------------------------
(* The commits that are not awaited.                                       *)

LEMMA UnawaitedStep ==
  ASSUME SessionInv, NEW w \in Writers, lock \in {Free, w}, lock' = w,
         NEW op \in {"abort", "heartbeat", "release"}, NEW base \in Int, NEW lease, NEW batch, NEW refusal,
         CommitUnawaited(w, op, base, lease, batch, refusal),
         Refused(op, base, refusal, ledger),
         IF op = "abort" THEN ledger.seq = base + 1 /\ ledger.head = RequestType["abort"] ELSE ledger.seq = base,
         op = "release" => \E l : lease = {l} /\ l.ref \in 1 .. ledger.seq
  PROVE  SessionInv' /\ Progress
<1>1. ledger' = ledger /\ Progress
  BY DEF CommitUnawaited, Progress
<1>2. PICK c : c = [NoCall EXCEPT !.pc = "landing", !.op = op, !.base = base,
                                 !.head = ledger.seq, !.lease = lease]
  OBVIOUS
<1>3. CASE call' = [call EXCEPT ![w] = c]
  <2>1. c.pc = "landing" /\ c.op = op /\ c.base = base /\ c.head = ledger.seq /\ c.lease = lease
    BY <1>2 DEF NoCall
  <2>2. ledger.seq \in Nat
    BY DEF SessionInv, Sound, Counted
  <2>3. Landable(c, ledger)
    BY <2>1, <2>2 DEF Landable
  <2>4. Lasting(c, ledger) /\ Exact(c, ledger, Alone(w, call, ledger))
    BY <2>1, <2>3 DEF Lasting, Exact, StandsIn
  <2> QED BY <1>1, <1>3, <2>4, TurnStep
<1>4. CASE Answered(w, op, base, refusal)
  BY <1>1, <1>4, RefusalStep
<1> QED BY <1>2, <1>3, <1>4 DEF CommitUnawaited

(* What lands is one event on top of the ledger the call inspected.        *)
LEMMA LandingAdvances ==
  ASSUME SessionInv, NEW w \in Writers, call[w].pc = "landing", HeadIs(ledger, call[w].head),
         NEW t \in Within(LandingBatch(call[w]))
  PROVE  /\ Advances(ledger, t) /\ t.seq = ledger.seq + 1 /\ t.seq <= MaxSeq /\ t.head \in Landings
         /\ call[w].op = "abort" => t.head = "run.fence-advanced" /\ t.leases = {}
         /\ call[w].op = "release" => \A l \in call[w].lease : l.ref \notin ActiveRefs(t)
<1>1. PICK c : c = call[w]
  OBVIOUS
<1>2. Landable(c, ledger) /\ ledger.seq = c.head
  BY <1>1 DEF SessionInv, CallInv, Lasting, HeadIs
<1>3. t \in LandingBatch(c) /\ t.seq <= MaxSeq
  BY <1>1 DEF Within, Publishable
<1> USE DEF SessionInv
<1>4. CASE c.op = "abort"
  <2>1. ledger.head \in StopRequests
    BY <1>2, <1>4 DEF Landable, RequestType, StopRequests
  <2>2. Named(ledger)
    BY <2>1 DEF Sound, Controlled, Named
  <2>3. t \in Appending(FenceEvent)
    BY <1>3, <1>4 DEF LandingBatch
  <2>4. Cautious(ledger, FenceEvent)
    BY <2>2, FenceEventCautious
  <2>5. t.seq = ledger.seq + 1
    BY <2>3, <2>4, AppendingAdvances
  <2> QED BY <1>1, <1>3, <1>4, <2>2, <2>3, <2>5, FenceAdvances DEF Landings
<1>5. CASE c.op = "heartbeat"
  <2>1. PICK l : t \in HeartbeatBatch(l)
    BY <1>3, <1>5 DEF LandingBatch
  <2> QED BY <1>1, <1>3, <1>5, <2>1, PlainAdvances DEF HeartbeatBatch, Careless, Landings
<1>6. CASE c.op = "release"
  <2>1. PICK l : c.lease = {l}
    BY <1>2, <1>6 DEF Landable
  <2>2. PICK e : e = [type |-> "ownership.lease-released", lease |-> l.ref, fence |-> l.fence]
    OBVIOUS
  <2>3. t \in Appending(e) /\ e.type = "ownership.lease-released" /\ e.lease = l.ref
    BY <1>3, <1>6, <2>1, <2>2 DEF LandingBatch, ReleaseBatch
  <2>4. t = Reduce(ledger, e)
    BY <2>3 DEF Appending, After
  <2>5. DOMAIN ledger = Fields
    BY DEF Sound, Counted
  <2>6. t.leases = {k \in ledger.leases : k.ref # l.ref}
    BY <2>3, <2>4, <2>5, LeaseReleasedFields
  <2>7. l.ref \notin ActiveRefs(t)
    BY <2>6 DEF ActiveRefs
  <2> QED BY <1>1, <1>3, <1>6, <2>1, <2>3, <2>7, PlainAdvances DEF Careless, Landings
<1> QED BY <1>2, <1>4, <1>5, <1>6 DEF Landable

LEMMA LandedFields ==
  ASSUME NEW w, NEW answer, Landed(w, answer)
  PROVE  \E c : /\ call' = [call EXCEPT ![w] = c]
                /\ c.pc = "closing" /\ c.op = call[w].op /\ c.base = call[w].base
                /\ c.answer = answer /\ c.lease = call[w].lease
<1>1. PICK r : r = Reply(call[w].op, call[w].base, answer)
  OBVIOUS
<1>2. /\ DOMAIN r = {"pc", "op", "base", "head", "lease", "answer"}
      /\ r.pc = "closing" /\ r.op = call[w].op /\ r.base = call[w].base /\ r.answer = answer
  BY <1>1 DEF Reply, NoCall
<1>3. PICK c : c = [r EXCEPT !.lease = call[w].lease]
  OBVIOUS
<1>4. /\ c.pc = "closing" /\ c.op = call[w].op /\ c.base = call[w].base
      /\ c.answer = answer /\ c.lease = call[w].lease
  BY <1>2, <1>3
<1>5. call' = [call EXCEPT ![w] = c]
  BY <1>1, <1>3 DEF Landed
<1> QED BY <1>4, <1>5

(* A landing carries the ledger on by one event, or leaves it alone.       *)
LEMMA LandProgress ==
  ASSUME SessionInv, NEW w \in Writers, Land(w)
  PROVE  /\ Progress
         /\ ledger' # ledger => /\ HeadIs(ledger, call[w].head) /\ Advances(ledger, ledger')
                                /\ ledger'.seq = ledger.seq + 1 /\ ledger'.head \in Landings
BY LandingAdvances DEF Land, Progress

(* What a call that has landed is entitled to.                             *)
LEMMA LandedLasting ==
  ASSUME SessionInv, NEW w \in Writers, Land(w)
  PROVE  \E c : /\ call' = [call EXCEPT ![w] = c] /\ c.pc = "closing" /\ Lasting(c, ledger')
                /\ lock = w => Exact(c, ledger', Alone(w, call, ledger'))
<1>1. Landable(call[w], ledger) /\ call[w].pc = "landing"
  BY DEF Land, SessionInv, CallInv, Lasting
<1>2. CASE /\ HeadIs(ledger, call[w].head) /\ ledger' \in Within(LandingBatch(call[w]))
           /\ Landed(w, "COMMITTED")
  <2>1. PICK c : /\ call' = [call EXCEPT ![w] = c]
                 /\ c.pc = "closing" /\ c.op = call[w].op /\ c.base = call[w].base
                 /\ c.answer = "COMMITTED" /\ c.lease = call[w].lease
    BY <1>2, LandedFields
  <2>2. /\ Advances(ledger, ledger') /\ ledger'.seq = ledger.seq + 1
        /\ c.op = "abort" => ledger'.head = "run.fence-advanced" /\ ledger'.leases = {}
        /\ c.op = "release" => \A l \in c.lease : l.ref \notin ActiveRefs(ledger')
    BY <1>1, <1>2, <2>1, LandingAdvances
  <2>3. ledger.seq \in Nat /\ c.base \in Int /\ c.base <= ledger.seq
    BY <1>1, <1>2, <2>1 DEF Landable, HeadIs, SessionInv, Sound, Counted
  <2>4. c.base < ledger'.seq
    BY <2>2, <2>3
  <2>5. c.op = "release" => \A l \in c.lease : l.ref \in 1 .. ledger'.seq
    BY <1>1, <2>1, <2>2, <2>3 DEF Landable
  <2>6. Lasting(c, ledger')
    BY <2>1, <2>2, <2>3, <2>4, <2>5 DEF Lasting, Acknowledged
  <2>7. Alone(w, call, ledger')
    BY <2>2, AdvancedIsAlone
  <2>8. Effected(c.op, ledger')
    BY <1>1, <2>1, <2>2 DEF Effected, Landable
  <2>9. Exact(c, ledger', Alone(w, call, ledger'))
    BY <2>1, <2>2, <2>3, <2>4, <2>7, <2>8 DEF Exact, Truthful
  <2> QED BY <2>1, <2>6, <2>9
<1>3. CASE ledger' = ledger /\ Landed(w, Refusal(call[w].op))
  <2>1. PICK c : /\ call' = [call EXCEPT ![w] = c]
                 /\ c.pc = "closing" /\ c.op = call[w].op /\ c.base = call[w].base
                 /\ c.answer = Refusal(c.op)
    BY <1>3, LandedFields
  <2>2. Lasting(c, ledger')
    BY <2>1 DEF Lasting, Refusal
  <2>3. lock = w => StandsIn(ledger, call[w].head, Alone(w, call, ledger))
    BY <1>1 DEF SessionInv, CallInv, Exact
  <2>4. lock = w => Exact(c, ledger', Alone(w, call, ledger'))
    BY <1>1, <1>3, <2>1, <2>3 DEF Exact, Truthful, Refusal, Landable, RequestType
  <2> QED BY <2>1, <2>2, <2>4
<1>4. CASE Landed(w, "OUTCOME_UNKNOWN")
  <2>1. PICK c : /\ call' = [call EXCEPT ![w] = c]
                 /\ c.pc = "closing" /\ c.answer = "OUTCOME_UNKNOWN"
    BY <1>4, LandedFields
  <2> QED BY <2>1 DEF Lasting, Exact, Truthful
<1> QED BY <1>2, <1>3, <1>4 DEF Land

(* The lock is somebody else's: what that call knows of the ledger is not  *)
(* more than that one late commit may have landed.                         *)
LEMMA LandBeside ==
  ASSUME SessionInv, NEW w \in Writers, Land(w), NEW v \in Writers \ {w}, lock = v
  PROVE  Exact(call[v], ledger', Alone(v, call', ledger'))
<1>1. PICK c : call' = [call EXCEPT ![w] = c] /\ c.pc = "closing"
  BY LandedLasting
<1>2. call'[w] = c /\ \A u \in Writers \ {w} : call'[u] = call[u]
  BY <1>1 DEF SessionInv, CallInv
<1>3. Exact(call[v], ledger, Alone(v, call, ledger))
  BY DEF SessionInv, CallInv
<1>4. CASE ledger' = ledger
  <2>1. Alone(v, call, ledger) => Alone(v, call', ledger')
    BY <1>1, <1>2, <1>4 DEF Alone
  <2> QED BY <1>3, <1>4, <2>1 DEF Exact, Truthful, StandsIn
<1>5. CASE ledger' # ledger
  <2>1. /\ HeadIs(ledger, call[w].head) /\ Advances(ledger, ledger')
        /\ ledger'.seq = ledger.seq + 1 /\ ledger'.head \in Landings
    BY <1>5, LandProgress
  <2>2. ledger.seq \in Nat
    BY DEF SessionInv, Sound, Counted
  <2>3. ~Alone(v, call, ledger)
    BY <2>1, <2>2 DEF Alone, HeadIs, Land
  <2>4. Alone(v, call, ledger')
    BY <2>1, AdvancedIsAlone
  <2>5. Alone(v, call', ledger')
    BY <1>1, <1>2, <2>4 DEF Alone
  <2>6. Exact(call[v], ledger, FALSE)
    BY <1>3, <2>3 DEF Exact, Truthful, StandsIn
  <2>7. Exact(call[v], ledger', TRUE)
    <3>1. call[v].pc # "requested"
      BY <2>6 DEF Exact
    <3>2. call[v].pc = "landing" => StandsIn(ledger', call[v].head, TRUE)
      BY <2>1, <2>6 DEF Exact, StandsIn
    <3>3. call[v].pc = "closing" => Truthful(call[v], ledger', TRUE)
      BY <2>1, <2>2, <2>6 DEF Exact, Truthful, StandsIn
    <3> QED BY <3>1, <3>2, <3>3 DEF Exact
  <2> QED BY <2>5, <2>7 DEF Exact, Truthful, StandsIn
<1> QED BY <1>4, <1>5

LEMMA LandStep ==
  ASSUME SessionInv, NEW w \in Writers, Land(w)
  PROVE  SessionInv' /\ Progress
<1>1. Progress /\ lock' = lock
  BY LandProgress DEF Land
<1>2. PICK c : /\ call' = [call EXCEPT ![w] = c] /\ c.pc = "closing" /\ Lasting(c, ledger')
               /\ lock = w => Exact(c, ledger', Alone(w, call, ledger'))
  BY LandedLasting
<1>3. CASE lock = w
  BY <1>1, <1>2, <1>3, TurnStep
<1>4. CASE lock # w
  <2>1. DOMAIN call = Writers /\ DOMAIN call' = Writers
    BY <1>2 DEF SessionInv, CallInv
  <2>2. call'[w] = c /\ \A u \in Writers \ {w} : call'[u] = call[u]
    BY <1>2, <2>1
  <2>3. ASSUME NEW v \in Writers \ {w}
        PROVE  /\ Lasting(call'[v], ledger')
               /\ call'[v].pc = "requested" => lock' = v
               /\ lock' = v => Exact(call'[v], ledger', Alone(v, call', ledger'))
    <3>1. Lasting(call[v], ledger')
      BY <1>1, LastingThen
    <3>2. call[v].pc = "requested" => lock' = v
      BY <1>1 DEF SessionInv, CallInv
    <3>3. lock' = v => Exact(call[v], ledger', Alone(v, call', ledger'))
      BY <1>1, LandBeside
    <3> QED BY <2>2, <3>1, <3>2, <3>3
  <2>4. Lasting(call'[w], ledger') /\ call'[w].pc # "requested" /\ lock' # w
    BY <1>1, <1>2, <1>4, <2>2
  <2>5. CallInv'
    BY <2>1, <2>3, <2>4 DEF CallInv
  <2> QED BY <1>1, <2>5, ProgressIsSound DEF SessionInv
<1> QED BY <1>3, <1>4
-----------------------------------------------------------------------------
(* The actions, one by one.                                                *)

LEMMA WithinAppending ==
  ASSUME NEW batch, NEW t \in Within(batch)
  PROVE  t \in batch /\ t.seq <= MaxSeq
BY DEF Within, Publishable

LEMMA PublishStep ==
  ASSUME SessionInv, NEW batch, Publish(batch), \A t \in batch : Advances(ledger, t)
  PROVE  SessionInv' /\ Progress
<1>1. Advances(ledger, ledger') /\ ledger'.seq <= MaxSeq
  BY WithinAppending DEF Publish
<1>2. lock = Free /\ UNCHANGED <<lock, call>>
  BY DEF Publish
<1> QED BY <1>1, <1>2, KernelAdvances

LEMMA KernelStep ==
  ASSUME SessionInv, Kernel
  PROVE  SessionInv' /\ Progress
<1> USE DEF SessionInv
<1>1. CASE RunStarts
  BY <1>1, PlainAdvances, PublishStep DEF RunStarts, Careless
<1>2. CASE FirstAttempt
  <2>1. PICK e : e = [type |-> "execution.attempt-started", request |-> 0,
                      boundary |-> ledger.started, mode |-> "ordinary", fence |-> 0]
    OBVIOUS
  <2>2. ledger.attempt = 0 /\ Publish(Appending(e))
    BY <1>2, <2>1 DEF FirstAttempt
  <2>3. ActionsInFlight(ledger) = {}
    BY <2>2 DEF Sound, Unstarted, ActionsInFlight
  <2>4. Cautious(ledger, e)
    BY <2>1, <2>3 DEF Cautious, Careful
  <2> QED BY <2>2, <2>4, AppendingAdvances, PublishStep
<1>3. CASE AcquireLease
  BY <1>3, PlainAdvances, PublishStep DEF AcquireLease, Careless
<1>4. CASE RejectObservation
  <2> DEFINE rejected == Appending([type |-> "integrity.observation-rejected"])
  <2>1. \A t \in rejected : Advances(ledger, t)
    BY PlainAdvances DEF Careless
  <2>2. \A t \in After(rejected, [type |-> "run.quarantined"]) : Advances(ledger, t)
    BY QuarantineAdvances
  <2> QED BY <1>4, <2>1, <2>2, PublishStep DEF RejectObservation
<1>5. ASSUME NEW a \in Actions, AdmitAction(a)
      PROVE  SessionInv' /\ Progress
  <2>1. PICK e : e = [type |-> "task.action-admitted", action |-> a, attempt |-> ledger.attempt,
                      fence |-> ledger.fence]
    OBVIOUS
  <2>2. a \notin ledger.settled /\ Publish(Appending(e))
    BY <1>5, <2>1 DEF AdmitAction
  <2>3. Cautious(ledger, e)
    BY <2>1, <2>2 DEF Cautious, Careful
  <2> QED BY <2>2, <2>3, AppendingAdvances, PublishStep
<1>6. ASSUME NEW a \in Actions, StartExecution(a) \/ OutcomeUnknown(a)
      PROVE  SessionInv' /\ Progress
  BY <1>6, PlainAdvances, PublishStep DEF StartExecution, OutcomeUnknown, Careless
<1>7. ASSUME NEW a \in Actions, SettleAction(a)
      PROVE  SessionInv' /\ Progress
  <2>1. Cautious(ledger, [type |-> "task.action-settled", action |-> a])
    BY DEF Cautious, Careful
  <2> QED BY <1>7, <2>1, AppendingAdvances, PublishStep DEF SettleAction
<1> QED BY <1>1, <1>2, <1>3, <1>4, <1>5, <1>6, <1>7 DEF Kernel

(* The request in hand names the attempt and the fence, whether the call   *)
(* that made it goes on or another one picks it up.                        *)
LEMMA OwnRequestNames ==
  ASSUME SessionInv, NEW w \in Writers, call[w].pc = "requested",
         call[w].op \in {"pause", "abort", "revoke"}
  PROVE  Named(ledger)
<1>1. ledger.head = RequestType[call[w].op]
  BY RequestedIsExact
<1>2. ledger.head \in StopRequests
  BY <1>1 DEF RequestType, StopRequests
<1> QED BY <1>2 DEF SessionInv, Sound, Controlled, Named

LEMMA HeadRequestNames ==
  ASSUME SessionInv, NEW r \in ledger.control, HeadIs(ledger, r.ref)
  PROVE  Named(ledger) /\ ledger.head = r.kind
BY DEF SessionInv, Sound, Controlled, Named, HeadIs

LEMMA PauseStep ==
  ASSUME SessionInv, NEW w \in Writers, CompletePause(w) \/ ContinuePause(w)
  PROVE  SessionInv' /\ Progress
<1> USE DEF SessionInv
<1>1. CASE CompletePause(w)
  <2>1. Named(ledger)
    BY <1>1, OwnRequestNames DEF CompletePause, Completes
  <2>2. \A t \in PauseBatch(ledger.pause) : Advances(ledger, t) /\ Effected("pause", t)
    BY <2>1, PauseAdvances DEF Effected
  <2> QED BY <1>1, <2>2, CompletesStep DEF CompletePause
<1>2. CASE ContinuePause(w)
  <2>1. PICK r \in ledger.control : /\ r.kind = RequestType.pause
                                    /\ Continues(w, "pause", r.ref, PauseBatch(r.ref))
    BY <1>2 DEF ContinuePause
  <2>2. Named(ledger) /\ ledger.head = RequestType["pause"]
    BY <2>1, HeadRequestNames DEF Continues
  <2>3. \A t \in PauseBatch(r.ref) : Advances(ledger, t) /\ Effected("pause", t)
    BY <2>2, PauseAdvances DEF Effected
  <2> QED BY <2>1, <2>2, <2>3, ContinuesStep
<1> QED BY <1>1, <1>2

LEMMA FenceEffected ==
  ASSUME Sound(ledger), Named(ledger), NEW t \in Appending(FenceEvent)
  PROVE  Advances(ledger, t) /\ Effected("revoke", t)
BY FenceAdvances DEF Effected

LEMMA AbortStep ==
  ASSUME SessionInv, NEW w \in Writers, CompleteAbort(w) \/ ContinueAbort(w)
  PROVE  SessionInv' /\ Progress
<1> USE DEF SessionInv
<1>1. CASE CompleteAbort(w)
  <2>1. PICK base : base = call[w].base
    OBVIOUS
  <2>2. call[w].pc = "requested" /\ call[w].op = "abort" /\ lock' = lock
    BY <1>1 DEF CompleteAbort
  <2>3. lock = w /\ base \in Nat /\ ledger.seq = base + 1 /\ ledger.head = RequestType["abort"]
    BY <2>1, <2>2, RequestedIsExact
  <2>4. CommitUnawaited(w, "abort", base, {}, Appending(FenceEvent), "REQUEST_COMMITTED")
    BY <1>1, <2>1 DEF CompleteAbort
  <2>5. Refused("abort", base, "REQUEST_COMMITTED", ledger)
    BY <2>3 DEF Refused
  <2> QED BY <2>2, <2>3, <2>4, <2>5, UnawaitedStep
<1>2. CASE ContinueAbort(w)
  <2>1. PICK r \in ledger.control :
          /\ r.kind = RequestType.abort /\ HeadIs(ledger, r.ref) /\ Opens(w, "abort")
          /\ CommitUnawaited(w, "abort", r.ref - 1, {}, Appending(FenceEvent), "REQUEST_COMMITTED")
    BY <1>2 DEF ContinueAbort
  <2>2. ledger.head = RequestType["abort"]
    BY <2>1, HeadRequestNames
  <2>3. PICK base : base = r.ref - 1
    OBVIOUS
  <2>4. base \in Int /\ ledger.seq = base + 1
    BY <2>1, <2>3 DEF HeadIs, Sound, Counted
  <2>5. Refused("abort", base, "REQUEST_COMMITTED", ledger)
    BY <2>2, <2>4 DEF Refused
  <2>6. lock \in {Free, w} /\ lock' = w
    BY <2>1 DEF Opens
  <2> QED BY <2>1, <2>2, <2>3, <2>4, <2>5, <2>6, UnawaitedStep
<1> QED BY <1>1, <1>2

LEMMA RevocationStep ==
  ASSUME SessionInv, NEW w \in Writers, CompleteRevocation(w) \/ ContinueRevocation(w)
  PROVE  SessionInv' /\ Progress
<1> USE DEF SessionInv
<1>1. CASE CompleteRevocation(w)
  <2>1. Named(ledger)
    BY <1>1, OwnRequestNames DEF CompleteRevocation, Completes
  <2> QED BY <1>1, <2>1, FenceEffected, CompletesStep DEF CompleteRevocation
<1>2. CASE ContinueRevocation(w)
  <2>1. PICK r \in ledger.control : /\ r.kind = RequestType.revoke
                                    /\ Continues(w, "revoke", r.ref, Appending(FenceEvent))
    BY <1>2 DEF ContinueRevocation
  <2>2. Named(ledger) /\ ledger.head = RequestType["revoke"]
    BY <2>1, HeadRequestNames DEF Continues
  <2> QED BY <2>1, <2>2, FenceEffected, ContinuesStep
<1> QED BY <1>1, <1>2

LEMMA ResumeStep ==
  ASSUME SessionInv, NEW w \in Writers, CompleteResume(w) \/ ContinueResume(w)
  PROVE  SessionInv' /\ Progress
<1> USE DEF SessionInv
<1>1. ASSUME NEW r \in ledger.resume, Eligible(r, r.ref)
      PROVE  \A t \in Appending(AttemptEvent(r)) : Advances(ledger, t) /\ Effected("resume", t)
  BY <1>1, AttemptAdvances DEF Effected
<1>2. CASE CompleteResume(w)
  <2>1. PICK r \in ledger.resume :
          Eligible(r, r.ref) /\ Completes(w, "resume", Appending(AttemptEvent(r)))
    BY <1>2 DEF CompleteResume
  <2> QED BY <1>1, <2>1, CompletesStep
<1>3. CASE ContinueResume(w)
  <2>1. PICK r \in ledger.resume :
          Eligible(r, r.ref) /\ Continues(w, "resume", r.ref, Appending(AttemptEvent(r)))
    BY <1>3 DEF ContinueResume
  <2>2. ledger.head = RequestType["resume"]
    BY <2>1 DEF Continues, HeadIs, Sound, Consumed, RequestType
  <2> QED BY <1>1, <2>1, <2>2, ContinuesStep
<1> QED BY <1>2, <1>3

LEMMA RequestsStep ==
  ASSUME SessionInv, NEW w \in Writers,
         RequestPause(w) \/ RequestAbort(w) \/ RequestRevocation(w) \/ RequestResume(w)
  PROVE  SessionInv' /\ Progress
<1> USE DEF SessionInv, TwoCommits, Careless
<1>1. CASE RequestPause(w)
  <2>1. PICK t \in capture[w] :
          Request(w, "pause", Appending([type |-> "control.pause-requested", attempt |-> t.attempt,
                                         fence |-> t.fence]))
    BY <1>1 DEF RequestPause
  <2> QED BY <2>1, PlainAdvances, RequestStep DEF RequestType
<1>2. CASE RequestAbort(w)
  <2>1. Request(w, "abort", Appending([type |-> "control.abort-requested"]))
    BY <1>2 DEF RequestAbort
  <2> QED BY <2>1, PlainAdvances, RequestStep DEF RequestType
<1>3. CASE RequestRevocation(w)
  <2>1. Request(w, "revoke", Appending([type |-> "authority.grant-revoked"]))
    BY <1>3 DEF RequestRevocation
  <2> QED BY <2>1, PlainAdvances, RequestStep DEF RequestType
<1>4. CASE RequestResume(w)
  <2>1. PICK t \in capture[w] :
          Request(w, "resume",
                  Appending([type |-> "recovery.resume-requested", id |-> t.id, mode |-> t.mode,
                             attempt |-> t.attempt, boundary |-> t.boundary, target |-> t.target]))
    BY <1>4 DEF RequestResume
  <2> QED BY <2>1, PlainAdvances, RequestStep DEF RequestType
<1> QED BY <1>1, <1>2, <1>3, <1>4

LEMMA LeaseStep ==
  ASSUME SessionInv, NEW w \in Writers, NEW l \in ledger.leases,
         HeartbeatLease(w, l) \/ ReleaseLease(w, l)
  PROVE  SessionInv' /\ Progress
<1>1. ledger.seq \in Int /\ l.ref \in 1 .. ledger.seq
  BY DEF SessionInv, Sound, Counted, Owned
<1>2. lock \in {Free, w} /\ lock' = w
  BY DEF HeartbeatLease, ReleaseLease, Opens
<1>3. \A op : Refused(op, ledger.seq, "NOT_COMMITTED", ledger)
  BY DEF Refused
<1>4. CASE HeartbeatLease(w, l)
  BY <1>1, <1>2, <1>3, <1>4, UnawaitedStep DEF HeartbeatLease
<1>5. CASE ReleaseLease(w, l)
  BY <1>1, <1>2, <1>3, <1>5, UnawaitedStep DEF ReleaseLease
<1> QED BY <1>4, <1>5

LEMMA WriteStep ==
  ASSUME SessionInv, NEW w \in Writers, Write(w)
  PROVE  SessionInv' /\ Progress
<1> USE DEF SessionInv
<1>1. ASSUME NEW l \in ledger.leases, HeartbeatLease(w, l) \/ ReleaseLease(w, l)
      PROVE  SessionInv' /\ Progress
  BY <1>1, LeaseStep
<1>3. CASE WriteTerminal(w)
  <2>1. PICK t \in capture[w] : Once(w, "terminal", Appending(TerminalEvent(t.target)))
    BY <1>3 DEF WriteTerminal
  <2>2. TerminalEvent(t.target).type \notin Careless
    BY DEF TerminalEvent, Careless
  <2> QED BY <2>1, <2>2, PlainAdvances, OnceStep DEF TwoCommits
<1>4. ASSUME NEW a \in Actions, ReconcileNonEntry(w, a)
      PROVE  SessionInv' /\ Progress
  BY <1>4, NonEntryAdvances, OnceStep DEF ReconcileNonEntry, TwoCommits
<1> QED BY <1>1, <1>3, <1>4, RequestsStep, PauseStep, AbortStep, RevocationStep, ResumeStep DEF Write

LEMMA IdleStep ==
  ASSUME SessionInv, NEW w \in Writers, Authorize(w) \/ CloseBeside(w) \/ Close(w) \/ Crash(w)
  PROVE  SessionInv' /\ ledger' = ledger
<1> USE DEF SessionInv
<1>1. CASE Authorize(w)
  <2>1. UNCHANGED <<ledger, lock, call>>
    BY <1>1 DEF Authorize, CapturePause, CaptureAbort, CaptureRevocation, CaptureTerminal,
                CaptureResume, Captures, Forget
  <2> QED BY <2>1 DEF CallInv
<1>2. CASE CloseBeside(w)
  <2>1. lock = w /\ lock' = Free /\ UNCHANGED <<ledger, call>> /\ call[w].pc = "landing"
    BY <1>2 DEF CloseBeside
  <2>2. \A v \in Writers : lock' # v /\ call[v].pc # "requested"
    BY <2>1, WriteSessionAssumption DEF CallInv
  <2> QED BY <2>1, <2>2 DEF CallInv
<1>3. CASE Close(w) \/ Crash(w)
  <2>1. call' = [call EXCEPT ![w] = NoCall] /\ ledger' = ledger
    BY <1>3 DEF Close, Crash
  <2>2. lock' # w /\ \A v \in Writers \ {w} : (lock' = v) = (lock = v)
    BY <1>3, WriteSessionAssumption DEF Close, Crash, LockAfter
  <2>3. DOMAIN call = Writers /\ DOMAIN call' = Writers
    BY <2>1 DEF CallInv
  <2>4. call'[w] = NoCall /\ \A v \in Writers \ {w} : call'[v] = call[v]
    BY <2>1, <2>3
  <2>5. NoCall.pc = "idle"
    BY DEF NoCall
  <2>6. Lasting(call'[w], ledger') /\ call'[w].pc # "requested"
    BY <2>4, <2>5 DEF Lasting
  <2>7. ASSUME NEW v \in Writers \ {w}
        PROVE  /\ Lasting(call'[v], ledger')
               /\ call'[v].pc = "requested" => lock' = v
               /\ lock' = v => Exact(call'[v], ledger', Alone(v, call', ledger'))
    <3>1. Lasting(call[v], ledger) /\ (call[v].pc = "requested" => lock = v)
      BY DEF CallInv
    <3>2. lock = v => Exact(call[v], ledger, Alone(v, call, ledger))
      BY DEF CallInv
    <3>3. Alone(v, call, ledger) => Alone(v, call', ledger)
      BY <2>4, <2>5 DEF Alone
    <3>4. lock = v => Exact(call[v], ledger, Alone(v, call', ledger))
      BY <3>2, <3>3 DEF Exact, Truthful, StandsIn
    <3> QED BY <2>1, <2>2, <2>4, <3>1, <3>4
  <2>8. CallInv'
    BY <2>2, <2>3, <2>6, <2>7 DEF CallInv
  <2> QED BY <2>1, <2>8
<1> QED BY <1>1, <1>2, <1>3

LEMMA SessionInit ==
  ASSUME Init
  PROVE  SessionInv
<1>1. Sound(ledger)
  <2>1. ledger = Initialized
    BY DEF Init
  <2>2. /\ DOMAIN ledger = Fields
        /\ ledger.seq = 1 /\ ledger.head = "run.initialized" /\ ledger.phase = "initialized"
        /\ ledger.ordinal = 0 /\ ledger.attempt = 0 /\ ledger.fence = 0
        /\ ledger.leases = {} /\ ledger.inFlight = {} /\ ledger.resume = {}
        /\ ledger.seenIds = {} /\ ledger.consumedIds = {} /\ ledger.control = {}
    BY <2>1 DEF Initialized, Fields
  <2> QED
    BY <2>2, FS_EmptySet
       DEF Sound, Counted, Unstarted, Owned, Quiet, Clean, Consumed, Controlled, StopRequests
<1>2. CallInv
  <2>1. DOMAIN call = Writers /\ \A w \in Writers : call[w].pc = "idle"
    BY DEF Init, NoCall
  <2>2. \A w \in Writers : lock # w
    BY WriteSessionAssumption DEF Init
  <2> QED BY <2>1, <2>2 DEF CallInv, Lasting
<1> QED BY <1>1, <1>2 DEF SessionInv

LEMMA SessionStep ==
  ASSUME SessionInv, [Next]_vars
  PROVE  SessionInv' /\ Progress
<1>1. CASE Kernel
  BY <1>1, KernelStep
<1>2. CASE RemoveStaleLock
  <2>1. lock = Stale /\ UNCHANGED <<ledger, call>>
    BY <1>2 DEF RemoveStaleLock
  <2>2. lock' = Free
    BY <1>2 DEF RemoveStaleLock
  <2>3. \A w \in Writers : lock' # w /\ call[w].pc # "requested"
    BY <2>1, <2>2, WriteSessionAssumption DEF SessionInv, CallInv
  <2> QED BY <2>1, <2>3 DEF SessionInv, CallInv, Progress
<1>3. ASSUME NEW w \in Writers,
             Authorize(w) \/ Write(w) \/ Land(w) \/ CloseBeside(w) \/ Close(w) \/ Crash(w)
      PROVE  SessionInv' /\ Progress
  BY <1>3, IdleStep, WriteStep, LandStep DEF Progress
<1>4. CASE UNCHANGED vars
  BY <1>4 DEF vars, SessionInv, CallInv, Progress
<1> QED BY <1>1, <1>2, <1>3, <1>4 DEF Next

(* The ledger is sound, whatever lands with the lock or without it, and    *)
(* every process is entitled to where it stands: between its two commits   *)
(* a call has the lock and finds its request at the head; a commit that    *)
(* nobody awaits goes on top of the ledger it was computed from, or not at *)
(* all (runtime-control-write-v04.ts:495 and :520,                         *)
(* runtime-write-session-v04.ts:738 and :754).                             *)
THEOREM SessionIsSound == Spec => []SessionInv
<1>1. Init => SessionInv
  BY SessionInit
<1>2. SessionInv /\ [Next]_vars => SessionInv'
  BY SessionStep
<1> QED BY <1>1, <1>2, PTL DEF Spec

-----------------------------------------------------------------------------
(* Whoever holds a lease holds it of the current attempt and fence: what   *)
(* activeOwnerRefsForPause, ownerRefs and the reducer bring about together.*)
THEOREM HoldersAreCurrent == Spec => []HolderIsCurrent
<1>1. SessionInv => HolderIsCurrent
  BY DEF SessionInv, Sound, Owned, HolderIsCurrent
<1> QED BY <1>1, SessionIsSound, PTL

(* A paused run has nothing in flight and no holder: run.paused is only    *)
(* accepted right after the advance of the fence that took all of them     *)
(* down, and nothing starts in a paused run.                               *)
THEOREM PausedRunsAreQuiet == Spec => []PausedIsQuiet
<1>1. SessionInv => PausedIsQuiet
  BY DEF SessionInv, Sound, Quiet, PausedIsQuiet
<1> QED BY <1>1, SessionIsSound, PTL

(* Ordinary mode never goes on over an earlier attempt's open actions:     *)
(* decideRecovery subtracts the settled ids from the admissions, and what  *)
(* is in flight was never settled.                                         *)
THEOREM OrdinaryModeStartsClean == Spec => []OrdinaryStartsClean
<1>1. SessionInv => OrdinaryStartsClean
  BY DEF SessionInv, Sound, Clean, OrdinaryStartsClean
<1> QED BY <1>1, SessionIsSound, PTL

(* No recovery request starts two attempts, whatever the number of         *)
(* processes that find it pending and continue it.                         *)
THEOREM RequestsAreConsumedOnce == Spec => []ConsumedOnce
<1>1. SessionInv => ConsumedOnce
  <2> SUFFICES ASSUME SessionInv PROVE ConsumedOnce
    OBVIOUS
  <2>1. /\ ledger.seenIds = ledger.consumedIds \cup {r.id : r \in ledger.resume}
        /\ {r.id : r \in ledger.resume} \cap ledger.consumedIds = {}
    BY DEF SessionInv, Sound, Consumed
  <2>2. ledger.attempt # 0 => Cardinality(ledger.consumedIds) = ledger.ordinal - 1
    <3>1. ASSUME ledger.attempt # 0
          PROVE  Cardinality(ledger.consumedIds) + 1 = ledger.ordinal /\ IsFiniteSet(ledger.consumedIds)
      BY <3>1 DEF SessionInv, Sound, Consumed
    <3> QED BY <3>1, FS_CardinalityType
  <2> QED BY <2>1, <2>2 DEF ConsumedOnce
<1> QED BY <1>1, SessionIsSound, PTL

(* What a pause, abort, revocation, resume or terminal call answered is    *)
(* true of the ledger while the call still has the lock, up to one commit  *)
(* that somebody did not await; an acknowledged abort or release stays     *)
(* true without the lock too.                                              *)
THEOREM EveryAnswerIsTrue == Spec => []AnswersTruthful
<1>1. SessionInv => AnswersTruthful
  <2> SUFFICES ASSUME SessionInv, NEW w \in Writers, call[w].pc = "closing"
               PROVE  (lock = w => TrueUnderLock(call[w])) /\ TrueForGood(call[w])
    BY DEF AnswersTruthful
  <2>1. lock = w => TrueUnderLock(call[w])
    <3>1. ASSUME lock = w PROVE Truthful(call[w], ledger, Alone(w, call, ledger))
      BY <3>1 DEF SessionInv, CallInv, Exact
    <3> QED BY <3>1 DEF Truthful, StandsIn, StandsAt, Effected, TrueUnderLock
  <2>2. TrueForGood(call[w])
    BY DEF SessionInv, CallInv, Lasting, Acknowledged, ActiveRefs, TrueForGood
  <2> QED BY <2>1, <2>2
<1> QED BY <1>1, SessionIsSound, PTL

(* A fence is only advanced, within an attempt, at a request that names    *)
(* that attempt and that fence, and it leaves nobody in possession.        *)
THEOREM StopsAreNamed == Spec => StopsNameTheirAttempt
<1>1. SessionInv /\ [Next]_vars => [StopIsNamed]_vars
  <2> SUFFICES ASSUME SessionInv, [Next]_vars PROVE StopIsNamed
    OBVIOUS
  <2>1. Progress
    BY SessionStep
  <2> QED BY <2>1 DEF Progress, Advances, Named, StopIsNamed
<1> QED BY <1>1, SessionIsSound, PTL DEF Spec, StopsNameTheirAttempt

(* After an abort or a revocation no action is admitted in that attempt,   *)
(* even if the fence was never advanced because the process died.          *)
THEOREM StoppedAttemptsAdmitNothing == Spec => StoppedAttemptAdmitsNothing
<1>1. SessionInv /\ [Next]_vars => [NotAdmittedOnceStopped]_vars
  <2> SUFFICES ASSUME SessionInv, [Next]_vars PROVE NotAdmittedOnceStopped
    OBVIOUS
  <2>1. Progress
    BY SessionStep
  <2> QED BY <2>1 DEF Progress, Advances, NotAdmittedOnceStopped, RequestType
<1> QED BY <1>1, SessionIsSound, PTL DEF Spec, StoppedAttemptAdmitsNothing

-----------------------------------------------------------------------------
(* The control plane implements FencedRun: a commit that is one of the     *)
(* moves between ledgers is that action of FencedRun, every other step     *)
(* leaves what FencedRun sees alone.                                       *)

LEMMA MovesImplement ==
  ASSUME Sound(ledger), Advances(ledger, ledger'), ledger'.seq <= MaxSeq
  PROVE  [Abstract!Next]_(Abstract!vars)
<1> DEFINE s == ledger
           t == ledger'
<1>1. s.seq \in Nat /\ t.seq \in Nat /\ t.seq > s.seq /\ MaxSeq \in Nat
  BY WriteSessionAssumption DEF Sound, Counted, Advances
<1>2. PICK h \in 1 .. MaxSeq : h = t.seq /\ 1 .. s.seq \subseteq 1 .. MaxSeq
  BY <1>1
<1>3. CASE Open(s, t) /\ SameHolders(s, t) /\ SameWork(s, t)
  <2>1. UNCHANGED Abstract!vars
    BY <1>3 DEF Open, Over, SameHolders, SameWork, Abstract!vars, Epoch, Holders, ActionsInFlight
  <2> QED BY <2>1
<1>4. CASE Begins(s, t)
  <2>1. Abstract!Begin(h)
    BY <1>2, <1>4 DEF Begins, Open, Over, SameWork, Abstract!Begin, Abstract!Holder, Holder, Epoch, Holders,
                ActionsInFlight
  <2> QED BY <2>1 DEF Abstract!Next
<1>5. CASE Joins(s, t)
  <2>1. Abstract!Join(h)
    BY <1>2, <1>5 DEF Joins, Open, Over, SameWork, Abstract!Join, Abstract!OwnerHolds, Abstract!Holder, Holder,
                Epoch, Holders, ActionsInFlight
  <2> QED BY <2>1 DEF Abstract!Next
<1>6. CASE Leaves(s, t)
  <2>1. PICK ref \in 1 .. s.seq : Holders(t) = Holders(s) \ {Holder(ref, Epoch(s))}
    BY <1>6 DEF Leaves
  <2>2. Abstract!Leave(ref)
    BY <1>6, <2>1 DEF Leaves, Open, Over, SameWork, Abstract!Leave, Abstract!Holder, Holder, Epoch, Holders,
                      ActionsInFlight
  <2> QED BY <1>2, <2>2 DEF Abstract!Next
<1>7. CASE Admits(s, t)
  <2>1. PICK a \in Actions \ ActionsInFlight(s) : ActionsInFlight(t) = ActionsInFlight(s) \cup {a}
    BY <1>7 DEF Admits
  <2>2. Abstract!Admit(a)
    BY <1>7, <2>1 DEF Admits, Open, Over, SameHolders, Abstract!Admit, Abstract!OwnerHolds, Abstract!Holder,
                      Holder, Epoch, Holders, ActionsInFlight
  <2> QED BY <2>2 DEF Abstract!Next
<1>8. CASE Settles(s, t)
  <2>1. PICK a \in Actions : ActionsInFlight(t) = ActionsInFlight(s) \ {a}
    BY <1>8 DEF Settles
  <2>2. Abstract!Settle(a)
    BY <1>8, <2>1 DEF Settles, Open, Over, SameHolders, Abstract!Settle, Epoch, Holders, ActionsInFlight
  <2> QED BY <2>2 DEF Abstract!Next
<1>9. CASE Stops(s, t)
  <2>1. Abstract!Stop
    BY <1>9 DEF Stops, Open, Over, SameWork, Abstract!Stop, Epoch, Holders, ActionsInFlight
  <2> QED BY <2>1 DEF Abstract!Next
<1>10. CASE Seals(s, t)
  <2>1. Abstract!Seal
    BY <1>10 DEF Seals, Over, SameWork, Abstract!Seal, Epoch, Holders, ActionsInFlight
  <2> QED BY <2>1 DEF Abstract!Next
<1> QED BY <1>3, <1>4, <1>5, <1>6, <1>7, <1>8, <1>9, <1>10 DEF Advances, Moves

THEOREM ControlPlaneImplementsFencedRun == Spec => ImplementsFencedRun
<1>1. Init => Abstract!Init
  BY DEF Init, Initialized, Abstract!Init, ActionsInFlight
<1>2. SessionInv /\ [Next]_vars => [Abstract!Next]_(Abstract!vars)
  <2> SUFFICES ASSUME SessionInv, [Next]_vars PROVE [Abstract!Next]_(Abstract!vars)
    OBVIOUS
  <2>1. Progress
    BY SessionStep
  <2>2. CASE ledger' = ledger
    BY <2>2 DEF Abstract!vars, ActionsInFlight
  <2>3. CASE Advances(ledger, ledger') /\ ledger'.seq <= MaxSeq
    BY <2>3, MovesImplement DEF SessionInv
  <2> QED BY <2>1, <2>2, <2>3 DEF Progress
<1> QED BY <1>1, <1>2, SessionIsSound, PTL DEF Spec, ImplementsFencedRun, Abstract!Spec
=============================================================================

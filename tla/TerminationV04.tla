--------------------------- MODULE TerminationV04 ---------------------------
(***************************************************************************)
(* How a V04 run comes to its end.  A reader projects the ledger to a      *)
(* snapshot (terminal-snapshot.ts, compensation-projection-v02.ts), the    *)
(* evaluator decides from the snapshot what is to be written next          *)
(* (terminal-evaluator.ts), and one of two writers writes it, if the       *)
(* ledger is still the one that was projected (runtime-terminal-write-v04  *)
(* and runtime-compensation-write-v04).  Meanwhile the kernel works, and   *)
(* operators stop the run and have it recovered.                           *)
(*                                                                         *)
(* The plan has one work task for each compensation, with one effect that  *)
(* the compensation protects, an action task that undoes it, and one       *)
(* evaluation that verifies the undoing; and it has one limit.             *)
(***************************************************************************)
EXTENDS Naturals, FiniteSets

CONSTANTS
  Compensations,
  Reserved,  \* whether the plan keeps a part of the limit for recovery
  Writers    \* processes that project the run and write what is decided

ASSUME TerminationAssumption == Reserved \in BOOLEAN /\ IsFiniteSet(Compensations)

VARIABLES
  run,       \* what the ledger stands for
  captured   \* the projection that each writer has built, with its decision

vars == <<run, captured>>

(* terminal_freeze, compensation_request and the phase entry, when absent. *)
NoFreeze == "none"
NoRequest == [pending |-> "none", refs |-> {}]
Unsettled == [status |-> "pending", evidence |-> {}]

Init ==
  /\ run = [state |-> "running", mode |-> "ordinary", owned |-> TRUE, behind |-> FALSE,
            atFence |-> FALSE, abort |-> FALSE, block |-> "none",
            work |-> [c \in Compensations |-> "pending"],
            undo |-> [c \in Compensations |-> "pending"],
            effect |-> [c \in Compensations |-> "not-started"],
            verifier |-> [c \in Compensations |-> "missing"],
            freeze |-> NoFreeze, request |-> NoRequest,
            phase |-> "work", entered |-> {}, atBoundary |-> FALSE, pending |-> "none",
            settled |-> [c \in Compensations |-> Unsettled],
            outcome |-> "none"]
  /\ captured = [w \in Writers |-> {}]

-----------------------------------------------------------------------------
(* The snapshot.                                                           *)

Priority ==
  [none |-> 0, completed |-> 100, blocked |-> 200, exhausted |-> 500, failed |-> 600, aborted |-> 700]

RecoveryCandidates == {"exhausted", "failed", "aborted"}

InFlight(s) == {c \in Compensations : "in-flight" \in {s.work[c], s.undo[c]}}
Exposed(s) == {c \in Compensations : s.effect[c] \in {"committed", "unknown"}}
Exhausted(s) == s.block # "none"

Applicable(s, c) == c \in s.request.refs \/ s.effect[c] = "unknown" \/ s.undo[c] # "pending"

(* An evaluation that verifies a compensation applies once it is requested.*)
Completed(s) ==
  \A c \in Compensations :
    /\ s.work[c] = "completed"
    /\ c \in s.request.refs => s.undo[c] = "completed" /\ s.verifier[c] = "pass"

(* The terminal candidates for which there is evidence.                    *)
Proven(s) ==
  {k \in DOMAIN Priority :
     \/ k = "aborted" /\ s.abort
     \/ k = "failed" /\ \E c \in Compensations : "failed" \in {s.work[c], s.undo[c], s.verifier[c]}
     \/ k = "exhausted" /\ Exhausted(s)
     \/ k = "blocked" /\ \E c \in Compensations : "unknown" \in {s.work[c], s.undo[c]}
     \/ k = "completed" /\ Completed(s)}

(* The settlement that the facts call for, with what it is evidenced by.   *)
Settlement(s, c) ==
  LET as(status, evidence) == [status |-> status, evidence |-> evidence]
      failures == {f \in {<<"undo", s.undo[c]>>, <<"verifier", s.verifier[c]>>} : f[2] = "failed"}
      undone == IF s.undo[c] \in {"completed", "failed", "unknown"} THEN {<<"undo", s.undo[c]>>} ELSE {}
  IN  CASE ~Applicable(s, c) \/ c \notin s.entered -> Unsettled
        [] s.effect[c] = "unknown" -> as("unable", {"effect"})
        [] failures # {} -> as("compensation-failed", failures \cup undone)
        [] s.undo[c] = "completed" /\ s.verifier[c] = "pass" ->
             as("compensated", undone \cup {<<"verifier", "pass">>})
        [] s.undo[c] # "completed" /\ Exhausted(s) -> as("unable", {s.block})
        [] OTHER -> Unsettled

(* Mutant: a settlement is taken as it was recorded.                       *)
SettlementsTaken(s) == TRUE

(* A recorded settlement is derived again from the facts, evidence and all.*)
SettlementsDerive(s) ==
  \A c \in Compensations : s.settled[c] # Unsettled => s.settled[c] = Settlement(s, c)

(* The snapshot of a ledger that does not meet these is refused: a refused *)
(* admission names the ceiling of the present phase, the frozen candidate  *)
(* is proven, requests are of effects that took place, and the phase was   *)
(* entered right after the fence was advanced.                             *)
Projectable(s) ==
  /\ Exhausted(s) /\ Reserved => s.block = s.phase
  /\ s.freeze # NoFreeze => s.freeze \in Proven(s)
  /\ s.request.refs \subseteq Exposed(s)
  /\ s.phase = "compensation" => s.atBoundary
  /\ SettlementsDerive(s)

-----------------------------------------------------------------------------
(* The evaluator.                                                          *)

Top(candidates) == CHOOSE k \in candidates : \A j \in candidates : Priority[j] <= Priority[k]
Selected(s) == IF Proven(s) = {} THEN "none" ELSE Top(Proven(s))

Rises(k, over) == Priority[k] > Priority[over]
Decision(kind, candidate, refs) == [kind |-> kind, candidate |-> candidate, refs |-> refs]
Continue == {Decision("continue", "none", {})}

(* The compensations that the frozen candidate calls for.                  *)
Called(s) == IF s.freeze \in RecoveryCandidates THEN Exposed(s) ELSE {}

(* Mutant: effects that came after the request do not revise it.           *)
RequestWithoutRevision(s) ==
  IF s.request = NoRequest THEN {Decision("request-compensation", s.freeze, Called(s))}
  ELSE {Decision("enter-compensation", s.request.pending, s.request.refs)}

DuringWork(s) ==
  IF s.request = NoRequest THEN {Decision("request-compensation", s.freeze, Called(s))}
  ELSE IF Rises(s.freeze, s.request.pending) \/ Called(s) \ s.request.refs # {}
       THEN {Decision("revise-compensation-request", s.freeze, Called(s))}
       ELSE {Decision("enter-compensation", s.request.pending, s.request.refs)}

Seal(s) == {Decision("seal", IF s.pending # "none" THEN s.pending ELSE s.freeze, {})}

(* The order in which the plan names compensations is left open.           *)
DuringCompensation(s) ==
  LET due == {c \in Compensations : s.settled[c] = Unsettled /\ Settlement(s, c) # Unsettled}
      open == {c \in Compensations : s.settled[c] = Unsettled /\ Applicable(s, c)}
  IN  IF Selected(s) \in RecoveryCandidates /\ Rises(Selected(s), s.pending)
      THEN {Decision("escalate-compensation", Selected(s), {})}
      ELSE IF due # {} THEN {Decision("settle-compensation", "none", {c}) : c \in due}
      ELSE IF open # {} THEN Continue ELSE Seal(s)

Evaluate(s) ==
  CASE s.freeze = NoFreeze ->
         IF Selected(s) = "none" THEN Continue ELSE {Decision("freeze-work", Selected(s), {})}
    [] s.freeze # NoFreeze /\ s.phase = "work" /\ Rises(Selected(s), s.freeze) ->
         {Decision("revise-terminal-freeze", Selected(s), {})}
    [] OTHER ->
         CASE InFlight(s) # {} -> Continue
           [] InFlight(s) = {} /\ s.phase = "compensation" -> DuringCompensation(s)
           [] InFlight(s) = {} /\ s.phase = "work" -> IF Called(s) # {} THEN DuringWork(s) ELSE Seal(s)

-----------------------------------------------------------------------------
(* The writers.                                                            *)

(* An append leaves every projection behind, and no event but a fence      *)
(* advance is one.                                                         *)
Stale == [w \in Writers |-> {[t EXCEPT !.current = FALSE] : t \in captured[w]}]
Appends(next) == run' = [next EXCEPT !.atFence = FALSE]

Project(w) ==
  /\ run.outcome = "none" /\ Projectable(run)
  /\ \E decision \in Evaluate(run) :
       captured' = [captured EXCEPT ![w] = {[decision |-> decision, current |-> TRUE]}]
  /\ UNCHANGED run

(* Mutant: the head of the ledger is not compared.                         *)
MatchesAnyHead(t) == ~run.behind

(* The projection is of this ledger and has its fence, which it knows from *)
(* run.fence-advanced alone: not from an attempt that recovery started.    *)
MatchesStore(t) == t.current /\ ~run.behind

(* One commit, which succeeds or leaves the ledger as it is; either way    *)
(* the clock observation is used up, and the writer must project again.    *)
Commits(w, t, next) ==
  IF MatchesStore(t) /\ run.outcome = "none"
  THEN \/ Appends(next) /\ captured' = [Stale EXCEPT ![w] = {}]
       \/ UNCHANGED run /\ captured' = [captured EXCEPT ![w] = {}]
  ELSE UNCHANGED run /\ captured' = [captured EXCEPT ![w] = {}]

(* The reducer takes a seal while nothing is in flight.                    *)
TerminalWritten(d) ==
  IF d.kind # "seal" THEN [run EXCEPT !.freeze = d.candidate]
  ELSE IF InFlight(run) = {} THEN [run EXCEPT !.outcome = d.candidate, !.owned = FALSE]
  ELSE run

WriteTerminal(w) ==
  \E t \in captured[w] :
    /\ t.decision.kind \in {"freeze-work", "revise-terminal-freeze", "seal"}
    /\ Commits(w, t, TerminalWritten(t.decision))

CompensationWritten(d) ==
  CASE d.kind \in {"request-compensation", "revise-compensation-request"} ->
         [run EXCEPT !.request = [pending |-> d.candidate, refs |-> d.refs]]
    [] d.kind = "enter-compensation" ->
         [run EXCEPT !.phase = "compensation", !.entered = d.refs, !.pending = d.candidate,
                     !.atBoundary = run.atFence]
    [] d.kind = "escalate-compensation" -> [run EXCEPT !.pending = d.candidate]
    [] OTHER -> [run EXCEPT !.settled = [c \in Compensations |->
                   IF c \in d.refs THEN Settlement(run, c) ELSE run.settled[c]]]

WriteCompensation(w) ==
  \E t \in captured[w] :
    /\ t.decision.kind \in {"request-compensation", "revise-compensation-request", "enter-compensation",
                            "escalate-compensation", "settle-compensation"}
    /\ Commits(w, t, CompensationWritten(t.decision))

-----------------------------------------------------------------------------
(* The kernel and the operators, as far as the reducer lets them.          *)

Elsewhere(next) == run.outcome = "none" /\ Appends(next) /\ captured' = Stale

Working == run.state = "running" /\ run.owned

(* Bounds: a task is not tried again; once the phase is entered the run    *)
(* goes on in the mode that admits its compensations alone.                *)
AdmitWork(c) ==
  /\ Working /\ run.phase = "work" /\ run.work[c] = "pending"
  /\ Elsewhere([run EXCEPT !.work[c] = "in-flight"])

AdmitUndo(c) ==
  /\ Working /\ run.mode = "compensation" /\ c \in run.entered /\ run.undo[c] = "pending"
  /\ Elsewhere([run EXCEPT !.undo[c] = "in-flight"])

(* The terminal event of the action, its effect's outcome, its settlement. *)
WorkEnds(c, status, effect) ==
  /\ run.work[c] = "in-flight"
  /\ status = "unknown" <=> effect = "unknown"
  /\ Elsewhere([run EXCEPT !.work[c] = status, !.effect[c] = effect])

UndoEnds(c, status) ==
  /\ run.undo[c] = "in-flight"
  /\ Elsewhere([run EXCEPT !.undo[c] = status])

Verify(c, result) ==
  /\ run.mode = "compensation" /\ run.undo[c] \in {"completed", "failed"} /\ run.verifier[c] = "missing"
  /\ Elsewhere([run EXCEPT !.verifier[c] = result])

(* Bound: the limit refuses one admission in each phase.                   *)
RefuseAdmission ==
  /\ Working /\ run.block # run.phase
  /\ run.phase = "compensation" => run.mode = "compensation"
  /\ Elsewhere([run EXCEPT !.block = run.phase])

(* An abort is requested at a quiet boundary, a revocation at any; the     *)
(* fence that follows takes the owner down, and recovery starts an attempt *)
(* with a fence of its own.                                                *)
RequestAbort ==
  /\ Working /\ InFlight(run) = {} /\ ~run.abort
  /\ Elsewhere([run EXCEPT !.state = "stopped", !.abort = TRUE])

Revoke ==
  /\ Working
  /\ Elsewhere([run EXCEPT !.state = "stopped"])

AdvanceFence ==
  /\ run.outcome = "none" /\ run.state = "stopped" /\ run.owned
  /\ run' = [run EXCEPT !.owned = FALSE, !.behind = FALSE, !.atFence = TRUE]
  /\ captured' = Stale

Recover ==
  /\ run.state = "stopped" /\ InFlight(run) = {}
  /\ Elsewhere([run EXCEPT !.state = "running", !.owned = TRUE, !.behind = TRUE,
                           !.mode = IF run.phase = "work" THEN "ordinary" ELSE "compensation"])

Kernel ==
  \/ RefuseAdmission
  \/ \E c \in Compensations :
       \/ AdmitWork(c) \/ AdmitUndo(c)
       \/ \E status \in {"completed", "failed", "unknown"} :
            \/ UndoEnds(c, status)
            \/ \E effect \in {"not-committed", "committed", "unknown"} : WorkEnds(c, status, effect)
       \/ \E result \in {"pass", "failed"} : Verify(c, result)

Next ==
  \/ Kernel \/ RequestAbort \/ Revoke \/ AdvanceFence \/ Recover
  \/ \E w \in Writers : Project(w) \/ WriteTerminal(w) \/ WriteCompensation(w)

Spec == Init /\ [][Next]_vars

Sealed == run.outcome # "none"

-----------------------------------------------------------------------------
(* A run is sealed with the highest candidate that its ledger proves: an   *)
(* abort, a failure or a refused admission that reached the ledger while   *)
(* somebody was deciding is not lost, in either phase (terminalCandidate,  *)
(* projectionMatchesStore).                                                *)
SealedHighest ==
  Sealed => \A k \in Proven(run) : Priority[k] <= Priority[run.outcome]

(* A run that ends in a state to recover from has settled every effect     *)
(* that took place, or may have, and nothing of it is still going on: also *)
(* of work that was admitted after compensation had been requested.        *)
SealedCompensated ==
  Sealed => /\ InFlight(run) = {}
            /\ run.outcome \in RecoveryCandidates =>
                 \A c \in Exposed(run) : run.settled[c] # Unsettled

(* What a sealed run says of its compensations is what its facts say, also *)
(* when an undoing went on after it had been given up for the limit.       *)
SealedTruthful ==
  Sealed => \A c \in run.entered : run.settled[c] = Settlement(run, c)

=============================================================================

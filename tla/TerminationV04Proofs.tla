------------------------ MODULE TerminationV04Proofs ------------------------
(***************************************************************************)
(* Proofs about TerminationV04, for any number of compensations and of     *)
(* writers, whether or not the plan keeps a budget for recovery.           *)
(***************************************************************************)
EXTENDS TerminationV04, TLAPS

Fields ==
  {"state", "mode", "owned", "behind", "atFence", "abort", "block", "work", "undo", "effect", "verifier",
   "freeze", "request", "phase", "entered", "atBoundary", "pending", "settled", "outcome"}

Candidates == DOMAIN Priority

(* The variables are records and functions of what the actions select.     *)
Shaped ==
  /\ DOMAIN run = Fields /\ DOMAIN run.work = Compensations
  /\ DOMAIN captured = Writers
  /\ \A w \in Writers : \A t \in captured[w] : "current" \in DOMAIN t

(* A projection that is current was built of this very ledger.             *)
Fresh ==
  \A w \in Writers : \A t \in captured[w] :
    t.current => /\ run.outcome = "none"
                 /\ t.decision \in Evaluate(run)
                 /\ Projectable(run)

(* What holds of the ledger in each phase.  Once compensation is entered   *)
(* no work is in flight, so no effect can come to what was requested.      *)
InWork == run.phase = "work" /\ run.entered = {} /\ run.pending = "none"
InCompensation ==
  /\ run.phase = "compensation"
  /\ run.entered = run.request.refs
  /\ run.pending \in RecoveryCandidates
  /\ Exposed(run) \subseteq run.request.refs
  /\ \A c \in Compensations : run.work[c] # "in-flight"

Named ==
  /\ run.freeze \in Candidates
  /\ run.request # NoRequest => run.request.pending \in RecoveryCandidates

Ends == SealedHighest /\ SealedCompensated /\ SealedTruthful

TerminationInv == Shaped /\ Fresh /\ (InWork \/ InCompensation) /\ Named /\ Ends

-----------------------------------------------------------------------------
(* The candidates.                                                         *)

LEMMA Ranks ==
  /\ Candidates = {"none", "completed", "blocked", "exhausted", "failed", "aborted"}
  /\ Priority["none"] = 0 /\ Priority["completed"] = 100 /\ Priority["blocked"] = 200
  /\ Priority["exhausted"] = 500 /\ Priority["failed"] = 600 /\ Priority["aborted"] = 700
BY DEF Candidates, Priority

(* Of some candidates one is the highest.                                  *)
LEMMA TopIsHighest ==
  ASSUME NEW S, S \subseteq Candidates, S # {}
  PROVE  Top(S) \in S /\ \A k \in S : Priority[k] <= Priority[Top(S)]
<1>1. \E k \in S : \A j \in S : Priority[j] <= Priority[k]
  <2>1. CASE "aborted" \in S
    BY <2>1, Ranks
  <2>2. CASE "aborted" \notin S /\ "failed" \in S
    BY <2>2, Ranks
  <2>3. CASE "aborted" \notin S /\ "failed" \notin S /\ "exhausted" \in S
    BY <2>3, Ranks
  <2>4. CASE S \subseteq {"none", "completed", "blocked"} /\ "blocked" \in S
    BY <2>4, Ranks
  <2>5. CASE S \subseteq {"none", "completed"} /\ "completed" \in S
    BY <2>5, Ranks
  <2>6. CASE S = {"none"}
    BY <2>6, Ranks
  <2>7. S \subseteq {"none", "completed", "blocked", "exhausted", "failed", "aborted"}
    BY Ranks
  <2> QED BY <2>1, <2>2, <2>3, <2>4, <2>5, <2>6, <2>7
<1> QED BY <1>1 DEF Top

LEMMA SelectedIsHighest ==
  ASSUME NEW s
  PROVE  Selected(s) \in Candidates /\ \A k \in Proven(s) : Priority[k] <= Priority[Selected(s)]
<1>1. Proven(s) \subseteq Candidates
  BY DEF Proven, Candidates
<1> QED BY <1>1, TopIsHighest, Ranks DEF Selected

-----------------------------------------------------------------------------
(* The decisions, and what each says of the snapshot it was made from.     *)

LEMMA Decided ==
  ASSUME NEW kind, NEW candidate, NEW refs
  PROVE  /\ Decision(kind, candidate, refs).kind = kind
         /\ Decision(kind, candidate, refs).candidate = candidate
         /\ Decision(kind, candidate, refs).refs = refs
BY DEF Decision

(* Before the phase is entered and nothing is in flight.                   *)
LEMMA WorkDecisions ==
  ASSUME NEW s, NEW d \in DuringWork(s)
  PROVE  \/ d.kind \in {"request-compensation", "revise-compensation-request"} /\ d.candidate = s.freeze
         \/ /\ d.kind = "enter-compensation" /\ d.candidate = s.request.pending /\ d.refs = s.request.refs
            /\ s.request # NoRequest /\ Called(s) \ s.request.refs = {}
BY Decided DEF DuringWork

LEMMA CompensationDecisions ==
  ASSUME NEW s, NEW d \in DuringCompensation(s)
  PROVE  \/ d.kind = "continue"
         \/ d.kind = "escalate-compensation" /\ d.candidate \in RecoveryCandidates
         \/ d.kind = "settle-compensation"
         \/ /\ d \in Seal(s) /\ d.kind = "seal"
            /\ ~(Selected(s) \in RecoveryCandidates /\ Rises(Selected(s), s.pending))
            /\ \A c \in Compensations : Applicable(s, c) => s.settled[c] # Unsettled
<1>. DEFINE due == {c \in Compensations : s.settled[c] = Unsettled /\ Settlement(s, c) # Unsettled}
            open == {c \in Compensations : s.settled[c] = Unsettled /\ Applicable(s, c)}
            higher == Selected(s) \in RecoveryCandidates /\ Rises(Selected(s), s.pending)
<1>1. DuringCompensation(s) = IF higher THEN {Decision("escalate-compensation", Selected(s), {})}
                              ELSE IF due # {} THEN {Decision("settle-compensation", "none", {c}) : c \in due}
                              ELSE IF open # {} THEN Continue ELSE Seal(s)
  BY DEF DuringCompensation
<1>. HIDE DEF due, higher
<1>2. CASE higher
  BY <1>1, <1>2, Decided DEF higher
<1>3. CASE ~higher /\ due # {}
  <2>1. PICK c \in due : d = Decision("settle-compensation", "none", {c})
    BY <1>1, <1>3
  <2> QED BY <2>1, Decided
<1>4. CASE ~higher /\ due = {} /\ open # {}
  BY <1>1, <1>4, Decided DEF Continue
<1>5. CASE ~higher /\ due = {} /\ open = {}
  <2>1. d \in Seal(s)
    BY <1>1, <1>5
  <2>2. d.kind = "seal"
    BY <2>1, Decided DEF Seal
  <2> QED BY <1>5, <2>1, <2>2 DEF higher
<1> QED BY <1>2, <1>3, <1>4, <1>5

SealDecided(s, d) ==
  /\ d.candidate = IF s.pending # "none" THEN s.pending ELSE s.freeze
  /\ InFlight(s) = {}
  /\ \/ s.phase = "work" /\ Called(s) = {} /\ ~Rises(Selected(s), s.freeze)
     \/ /\ s.phase = "compensation"
        /\ ~(Selected(s) \in RecoveryCandidates /\ Rises(Selected(s), s.pending))
        /\ \A c \in Compensations : Applicable(s, c) => s.settled[c] # Unsettled

LEMMA Decisions ==
  ASSUME NEW s, s.phase \in {"work", "compensation"}, NEW d \in Evaluate(s)
  PROVE  \/ d.kind = "continue"
         \/ d.kind \in {"freeze-work", "revise-terminal-freeze"} /\ d.candidate \in Candidates
         \/ d.kind = "seal" /\ SealDecided(s, d)
         \/ /\ d.kind \in {"request-compensation", "revise-compensation-request"}
            /\ s.phase = "work" /\ d.candidate \in RecoveryCandidates
         \/ /\ d.kind = "enter-compensation" /\ s.phase = "work" /\ InFlight(s) = {}
            /\ s.request # NoRequest /\ d.candidate = s.request.pending /\ d.refs = s.request.refs
            /\ Exposed(s) \subseteq s.request.refs
         \/ d.kind = "escalate-compensation" /\ s.phase = "compensation" /\ d.candidate \in RecoveryCandidates
         \/ d.kind = "settle-compensation" /\ s.phase = "compensation"
<1>1. CASE s.freeze = NoFreeze /\ Selected(s) = "none"
  BY <1>1, Decided DEF Evaluate, Continue
<1>2. CASE s.freeze = NoFreeze /\ Selected(s) # "none"
  BY <1>2, Decided, SelectedIsHighest DEF Evaluate
<1>3. CASE s.freeze # NoFreeze /\ s.phase = "work" /\ Rises(Selected(s), s.freeze)
  BY <1>3, Decided, SelectedIsHighest DEF Evaluate
<1>4. CASE s.freeze # NoFreeze /\ ~(s.phase = "work" /\ Rises(Selected(s), s.freeze)) /\ InFlight(s) # {}
  BY <1>4, Decided DEF Evaluate, Continue
<1>5. CASE /\ s.freeze # NoFreeze /\ ~(s.phase = "work" /\ Rises(Selected(s), s.freeze))
           /\ InFlight(s) = {} /\ s.phase = "compensation"
  <2>1. d \in DuringCompensation(s)
    BY <1>5 DEF Evaluate
  <2>2. d \in Seal(s) => d.candidate = IF s.pending # "none" THEN s.pending ELSE s.freeze
    BY Decided DEF Seal
  <2> QED BY <1>5, <2>1, <2>2, CompensationDecisions DEF SealDecided
<1>6. CASE /\ s.freeze # NoFreeze /\ ~Rises(Selected(s), s.freeze)
           /\ InFlight(s) = {} /\ s.phase = "work"
  <2>1. d \in IF Called(s) # {} THEN DuringWork(s) ELSE Seal(s)
    BY <1>6 DEF Evaluate
  <2>2. CASE Called(s) = {}
    <3>1. d.kind = "seal" /\ d.candidate = IF s.pending # "none" THEN s.pending ELSE s.freeze
      BY <2>1, <2>2, Decided DEF Seal
    <3> QED BY <1>6, <2>2, <3>1 DEF SealDecided
  <2>3. CASE Called(s) # {}
    <3>1. d \in DuringWork(s)
      BY <2>1, <2>3
    <3>2. s.freeze \in RecoveryCandidates /\ Called(s) = Exposed(s)
      BY <2>3 DEF Called
    <3> QED BY <1>6, <3>1, <3>2, WorkDecisions
  <2> QED BY <2>2, <2>3
<1> QED BY <1>1, <1>2, <1>3, <1>4, <1>5, <1>6

-----------------------------------------------------------------------------
(* The steps.                                                              *)

(* A step that appends anything but a seal leaves no projection current.   *)
LEMMA Appended ==
  ASSUME Shaped, run'.outcome = "none", DOMAIN run' = Fields, DOMAIN run'.work = Compensations,
         captured' = Stale \/ \E w \in Writers : captured' = [Stale EXCEPT ![w] = {}],
         (InWork \/ InCompensation)', Named'
  PROVE  TerminationInv'
<1>1. DOMAIN captured' = Writers
  BY DEF Shaped, Stale
<1>2. ASSUME NEW w \in Writers, NEW t \in captured'[w]
      PROVE  "current" \in DOMAIN t /\ t.current = FALSE
  <2>1. t \in Stale[w]
    BY <1>2 DEF Stale
  <2>2. PICK u \in captured[w] : t = [u EXCEPT !.current = FALSE]
    BY <1>2, <2>1 DEF Stale
  <2> QED BY <1>2, <2>2 DEF Shaped
<1>3. Shaped' /\ Fresh'
  BY <1>1, <1>2 DEF Shaped, Fresh
<1>4. Ends'
  BY DEF Ends, SealedHighest, SealedCompensated, SealedTruthful, Sealed
<1> QED BY <1>3, <1>4 DEF TerminationInv

(* What the kernel and the operators append keeps to the phase, and in     *)
(* compensation it reaches neither the work nor its effects.               *)
LEMMA FromElsewhere ==
  ASSUME TerminationInv, run.outcome = "none", captured' = Stale,
         DOMAIN run' = Fields, DOMAIN run'.work = Compensations,
         run'.phase = run.phase, run'.entered = run.entered, run'.pending = run.pending,
         run'.request = run.request, run'.freeze = run.freeze, run'.outcome = run.outcome,
         InCompensation => run'.effect = run.effect /\ run'.work = run.work
  PROVE  TerminationInv'
<1>1. Named'
  BY DEF TerminationInv, Named
<1>2. (InWork \/ InCompensation)'
  <2>1. CASE InWork
    BY <2>1 DEF InWork
  <2>2. CASE InCompensation
    BY <2>2 DEF InCompensation, Exposed
  <2> QED BY <2>1, <2>2 DEF TerminationInv
<1> QED BY <1>1, <1>2, Appended DEF TerminationInv

LEMMA KernelKeeps ==
  ASSUME TerminationInv, Kernel
  PROVE  TerminationInv'
<1>. USE DEF Elsewhere, Appends
<1>. DOMAIN run = Fields /\ DOMAIN run.work = Compensations
  BY DEF TerminationInv, Shaped
<1>1. CASE RefuseAdmission
  BY <1>1, FromElsewhere DEF RefuseAdmission, Fields
<1>2. ASSUME NEW c \in Compensations, AdmitWork(c)
      PROVE  TerminationInv'
  BY <1>2, FromElsewhere DEF AdmitWork, Fields, InCompensation
<1>3. ASSUME NEW c \in Compensations, AdmitUndo(c)
      PROVE  TerminationInv'
  BY <1>3, FromElsewhere DEF AdmitUndo, Fields
<1>4. ASSUME NEW c \in Compensations, NEW status, UndoEnds(c, status)
      PROVE  TerminationInv'
  BY <1>4, FromElsewhere DEF UndoEnds, Fields
<1>5. ASSUME NEW c \in Compensations, NEW status, NEW effect, WorkEnds(c, status, effect)
      PROVE  TerminationInv'
  BY <1>5, FromElsewhere DEF WorkEnds, Fields, InCompensation
<1>6. ASSUME NEW c \in Compensations, NEW result, Verify(c, result)
      PROVE  TerminationInv'
  BY <1>6, FromElsewhere DEF Verify, Fields
<1> QED BY <1>1, <1>2, <1>3, <1>4, <1>5, <1>6 DEF Kernel

LEMMA OperatorsKeep ==
  ASSUME TerminationInv, RequestAbort \/ Revoke \/ AdvanceFence \/ Recover
  PROVE  TerminationInv'
<1>. USE DEF Elsewhere, Appends
<1>. DOMAIN run = Fields /\ DOMAIN run.work = Compensations
  BY DEF TerminationInv, Shaped
<1>1. CASE RequestAbort
  BY <1>1, FromElsewhere DEF RequestAbort, Fields
<1>2. CASE Revoke
  BY <1>2, FromElsewhere DEF Revoke, Fields
<1>3. CASE AdvanceFence
  BY <1>3, FromElsewhere DEF AdvanceFence, Fields
<1>4. CASE Recover
  BY <1>4, FromElsewhere DEF Recover, Fields
<1> QED BY <1>1, <1>2, <1>3, <1>4

(* What is said of the ledger alone holds as long as the ledger does.      *)
LEMMA LedgerKept ==
  ASSUME TerminationInv, run' = run
  PROVE  (InWork \/ InCompensation)' /\ Named' /\ Ends'
<1>1. InWork' = InWork
  BY DEF InWork
<1>2. InCompensation' = InCompensation
  BY DEF InCompensation, Exposed
<1>3. Named' = Named
  BY DEF Named
<1>4. SealedHighest' = SealedHighest
  BY DEF SealedHighest, Sealed
<1>5. SealedCompensated' = SealedCompensated
  BY DEF SealedCompensated, Sealed
<1>6. SealedTruthful' = SealedTruthful
  BY DEF SealedTruthful, Sealed
<1> QED BY <1>1, <1>2, <1>3, <1>4, <1>5, <1>6 DEF TerminationInv, Ends

(* A writer that appends nothing drops its projection.                     *)
LEMMA Dropped ==
  ASSUME TerminationInv, NEW w \in Writers, UNCHANGED run, captured' = [captured EXCEPT ![w] = {}]
  PROVE  TerminationInv'
<1>1. Shaped'
  BY DEF TerminationInv, Shaped
<1>2. \A v \in Writers : captured'[v] \subseteq captured[v]
  BY DEF TerminationInv, Shaped
<1>3. Fresh'
  BY <1>2 DEF TerminationInv, Fresh
<1> QED BY <1>1, <1>3, LedgerKept DEF TerminationInv

LEMMA ProjectKeeps ==
  ASSUME TerminationInv, NEW w \in Writers, Project(w)
  PROVE  TerminationInv'
<1>1. PICK decision \in Evaluate(run) :
        captured' = [captured EXCEPT ![w] = {[decision |-> decision, current |-> TRUE]}]
  BY DEF Project
<1>2. run' = run /\ run.outcome = "none" /\ Projectable(run)
  BY DEF Project
<1>3. Shaped'
  BY <1>1, <1>2 DEF TerminationInv, Shaped
<1>4. \A v \in Writers : \A t \in captured'[v] :
        t.current => run.outcome = "none" /\ t.decision \in Evaluate(run) /\ Projectable(run)
  BY <1>1, <1>2 DEF TerminationInv, Shaped, Fresh
<1>5. Fresh'
  BY <1>2, <1>4 DEF Fresh
<1> QED BY <1>2, <1>3, <1>5, LedgerKept DEF TerminationInv

(* A seal says what the ledger that it closes says: nothing that the three *)
(* properties look at is changed by it.                                    *)
LEMMA SealKeeps ==
  ASSUME TerminationInv, NEW w \in Writers, NEW d, SealDecided(run, d), Projectable(run),
         run' = [[run EXCEPT !.outcome = d.candidate, !.owned = FALSE] EXCEPT !.atFence = FALSE],
         captured' = [Stale EXCEPT ![w] = {}]
  PROVE  TerminationInv'
<1>1. DOMAIN run = Fields /\ DOMAIN run.work = Compensations
  BY DEF TerminationInv, Shaped
<1>2. /\ DOMAIN run' = Fields /\ run'.outcome = d.candidate
      /\ run'.work = run.work /\ run'.undo = run.undo /\ run'.effect = run.effect
      /\ run'.verifier = run.verifier /\ run'.settled = run.settled /\ run'.abort = run.abort
      /\ run'.block = run.block /\ run'.request = run.request /\ run'.entered = run.entered
      /\ run'.phase = run.phase /\ run'.pending = run.pending /\ run'.freeze = run.freeze
  BY <1>1 DEF Fields
<1>3. /\ InFlight(run') = InFlight(run) /\ Exposed(run') = Exposed(run) /\ Proven(run') = Proven(run)
      /\ \A c : Settlement(run', c) = Settlement(run, c)
  <2>1. Exhausted(run') = Exhausted(run) /\ Completed(run') = Completed(run)
    BY <1>2 DEF Exhausted, Completed
  <2>2. \A c : Applicable(run', c) = Applicable(run, c)
    BY <1>2 DEF Applicable
  <2>3. Proven(run') = Proven(run)
    BY <1>2, <2>1 DEF Proven
  <2>4. InFlight(run') = InFlight(run) /\ Exposed(run') = Exposed(run)
    BY <1>2 DEF InFlight, Exposed
  <2>5. ASSUME NEW c
        PROVE  Settlement(run', c) = Settlement(run, c)
    BY <1>2, <2>1, <2>2 DEF Settlement
  <2> QED BY <2>3, <2>4, <2>5
<1>4. Shaped' /\ Fresh'
  <2>1. DOMAIN captured' = Writers
    BY DEF Shaped, Stale
  <2>2. ASSUME NEW v \in Writers, NEW t \in captured'[v]
        PROVE  "current" \in DOMAIN t /\ t.current = FALSE
    <3>1. t \in Stale[v]
      BY <2>2 DEF Stale
    <3>2. PICK u \in captured[v] : t = [u EXCEPT !.current = FALSE]
      BY <2>2, <3>1 DEF Stale
    <3> QED BY <2>2, <3>2 DEF TerminationInv, Shaped
  <2> QED BY <1>1, <1>2, <2>1, <2>2 DEF Shaped, Fresh
<1>5. (InWork \/ InCompensation)' /\ Named'
  BY <1>2, <1>3 DEF TerminationInv, InWork, InCompensation, Named
<1>6. /\ \A k \in Proven(run) : Priority[k] <= Priority[d.candidate]
      /\ d.candidate \in RecoveryCandidates => \A c \in Exposed(run) : run.settled[c] # Unsettled
      /\ \A c \in run.entered : run.settled[c] = Settlement(run, c)
  <2>1. /\ Selected(run) \in Candidates
        /\ \A k \in Proven(run) : k \in Candidates /\ Priority[k] <= Priority[Selected(run)]
    BY SelectedIsHighest DEF Proven, Candidates
  <2>2. CASE run.phase = "work"
    <3>1. d.candidate = run.freeze /\ run.entered = {} /\ Called(run) = {} /\ ~Rises(Selected(run), run.freeze)
      BY <2>2 DEF SealDecided, TerminationInv, InWork, InCompensation
    <3>2. Priority[Selected(run)] <= Priority[d.candidate]
      BY <2>1, <3>1, Ranks DEF Rises, TerminationInv, Named
    <3>3. \A k \in Proven(run) : Priority[k] <= Priority[d.candidate]
      BY <2>1, <3>1, <3>2, Ranks DEF TerminationInv, Named
    <3> QED BY <3>1, <3>3 DEF Called
  <2>3. CASE run.phase = "compensation"
    <3>1. InCompensation /\ d.candidate = run.pending
      BY <2>3 DEF SealDecided, TerminationInv, InWork, InCompensation, RecoveryCandidates
    <3>2. /\ ~(Selected(run) \in RecoveryCandidates /\ Rises(Selected(run), run.pending))
          /\ \A c \in Compensations : Applicable(run, c) => run.settled[c] # Unsettled
      BY <2>3 DEF SealDecided
    <3>3. Priority[Selected(run)] <= Priority[d.candidate]
      BY <2>1, <3>1, <3>2, Ranks DEF Rises, InCompensation, RecoveryCandidates
    <3>4. \A k \in Proven(run) : Priority[k] <= Priority[d.candidate]
      BY <2>1, <3>1, <3>3, Ranks DEF InCompensation, RecoveryCandidates
    <3>5. \A c \in run.request.refs : c \in Compensations /\ run.settled[c] # Unsettled
      BY <3>2 DEF Projectable, Exposed, Applicable
    <3>6. \A c \in Compensations : run.settled[c] # Unsettled => run.settled[c] = Settlement(run, c)
      BY DEF Projectable, SettlementsDerive
    <3> QED BY <3>1, <3>4, <3>5, <3>6 DEF InCompensation
  <2> QED BY <2>2, <2>3 DEF SealDecided
<1>7. Ends'
  <2>1. InFlight(run') = {}
    BY <1>3 DEF SealDecided
  <2>2. SealedHighest'
    BY <1>2, <1>3, <1>6 DEF SealedHighest
  <2>3. SealedCompensated'
    BY <1>2, <1>3, <1>6, <2>1 DEF SealedCompensated
  <2>4. SealedTruthful'
    BY <1>2, <1>3, <1>6 DEF SealedTruthful
  <2> QED BY <2>2, <2>3, <2>4 DEF Ends
<1> QED BY <1>4, <1>5, <1>7 DEF TerminationInv

LEMMA WriteTerminalKeeps ==
  ASSUME TerminationInv, NEW w \in Writers, WriteTerminal(w)
  PROVE  TerminationInv'
<1>1. PICK t \in captured[w] : /\ t.decision.kind \in {"freeze-work", "revise-terminal-freeze", "seal"}
                               /\ Commits(w, t, TerminalWritten(t.decision))
  BY DEF WriteTerminal
<1>2. CASE UNCHANGED run /\ captured' = [captured EXCEPT ![w] = {}]
  BY <1>2, Dropped
<1>3. CASE t.current /\ run.outcome = "none" /\ Appends(TerminalWritten(t.decision)) /\ captured' = [Stale EXCEPT ![w] = {}]
  <2>1. t.decision \in Evaluate(run) /\ Projectable(run)
    BY <1>3 DEF TerminationInv, Fresh
  <2>2. run.phase \in {"work", "compensation"} /\ DOMAIN run = Fields /\ DOMAIN run.work = Compensations
    BY DEF TerminationInv, Shaped, InWork, InCompensation
  <2>3. CASE t.decision.kind \in {"freeze-work", "revise-terminal-freeze"}
    <3>1. t.decision.candidate \in Candidates
      BY <2>1, <2>2, <2>3, Decisions
    <3>2. run' = [[run EXCEPT !.freeze = t.decision.candidate] EXCEPT !.atFence = FALSE]
      BY <1>3, <2>3 DEF Appends, TerminalWritten
    <3>3. /\ DOMAIN run' = Fields /\ run'.outcome = "none" /\ run'.freeze = t.decision.candidate
          /\ run'.work = run.work /\ run'.effect = run.effect /\ run'.request = run.request
          /\ run'.phase = run.phase /\ run'.entered = run.entered /\ run'.pending = run.pending
      BY <1>3, <2>2, <3>2 DEF Fields
    <3>4. (InWork \/ InCompensation)' /\ Named'
      BY <3>1, <3>3 DEF TerminationInv, InWork, InCompensation, Exposed, Named
    <3> QED BY <1>3, <2>2, <3>3, <3>4, Appended DEF TerminationInv
  <2>4. CASE t.decision.kind = "seal"
    <3>1. SealDecided(run, t.decision)
      BY <2>1, <2>2, <2>4, Decisions
    <3>2. run' = [[run EXCEPT !.outcome = t.decision.candidate, !.owned = FALSE] EXCEPT !.atFence = FALSE]
      BY <1>3, <2>4, <3>1 DEF Appends, TerminalWritten, SealDecided
    <3> QED BY <1>3, <2>1, <3>1, <3>2, SealKeeps
  <2> QED BY <1>1, <2>3, <2>4
<1> QED BY <1>1, <1>2, <1>3 DEF Commits, MatchesStore

LEMMA WriteCompensationKeeps ==
  ASSUME TerminationInv, NEW w \in Writers, WriteCompensation(w)
  PROVE  TerminationInv'
<1>1. PICK t \in captured[w] :
        /\ t.decision.kind \in {"request-compensation", "revise-compensation-request", "enter-compensation",
                                "escalate-compensation", "settle-compensation"}
        /\ Commits(w, t, CompensationWritten(t.decision))
  BY DEF WriteCompensation
<1>2. CASE UNCHANGED run /\ captured' = [captured EXCEPT ![w] = {}]
  BY <1>2, Dropped
<1>3. CASE t.current /\ run.outcome = "none" /\ Appends(CompensationWritten(t.decision)) /\ captured' = [Stale EXCEPT ![w] = {}]
  <2>. DEFINE d == t.decision
  <2>1. d \in Evaluate(run)
    BY <1>3 DEF TerminationInv, Fresh
  <2>2. run.phase \in {"work", "compensation"} /\ DOMAIN run = Fields /\ DOMAIN run.work = Compensations
    BY DEF TerminationInv, Shaped, InWork, InCompensation
  <2>. HIDE DEF d
  <2>3. run' = [CompensationWritten(d) EXCEPT !.atFence = FALSE]
    BY <1>3 DEF Appends, d
  <2>4. CASE d.kind \in {"request-compensation", "revise-compensation-request"}
    <3>1. run.phase = "work" /\ d.candidate \in RecoveryCandidates
      BY <2>1, <2>2, <2>4, Decisions
    <3>2. run' = [[run EXCEPT !.request = [pending |-> d.candidate, refs |-> d.refs]] EXCEPT !.atFence = FALSE]
      BY <2>3, <2>4 DEF CompensationWritten
    <3>3. /\ DOMAIN run' = Fields /\ run'.outcome = "none" /\ run'.freeze = run.freeze
          /\ run'.work = run.work /\ run'.request = [pending |-> d.candidate, refs |-> d.refs]
          /\ run'.phase = run.phase /\ run'.entered = run.entered /\ run'.pending = run.pending
      BY <1>3, <2>2, <3>2 DEF Fields
    <3>4. InWork' /\ Named'
      BY <3>1, <3>3 DEF TerminationInv, InWork, InCompensation, Named
    <3> QED BY <1>3, <2>2, <3>3, <3>4, Appended DEF TerminationInv
  <2>5. CASE d.kind = "enter-compensation"
    <3>1. /\ run.phase = "work" /\ InFlight(run) = {} /\ run.request # NoRequest
          /\ d.candidate = run.request.pending /\ d.refs = run.request.refs
          /\ Exposed(run) \subseteq run.request.refs
      BY <2>1, <2>2, <2>5, Decisions
    <3>2. run' = [[run EXCEPT !.phase = "compensation", !.entered = d.refs, !.pending = d.candidate,
                              !.atBoundary = run.atFence] EXCEPT !.atFence = FALSE]
      BY <2>3, <2>5 DEF CompensationWritten
    <3>3. /\ DOMAIN run' = Fields /\ run'.outcome = "none" /\ run'.freeze = run.freeze
          /\ run'.work = run.work /\ run'.effect = run.effect /\ run'.request = run.request
          /\ run'.phase = "compensation" /\ run'.entered = d.refs /\ run'.pending = d.candidate
      BY <1>3, <2>2, <3>2 DEF Fields
    <3>4. \A c \in Compensations : run.work[c] # "in-flight"
      BY <3>1 DEF InFlight
    <3>5. InCompensation' /\ Named'
      BY <3>1, <3>3, <3>4 DEF TerminationInv, InCompensation, Exposed, Named
    <3> QED BY <1>3, <2>2, <3>3, <3>5, Appended DEF TerminationInv
  <2>6. CASE d.kind = "escalate-compensation"
    <3>1. run.phase = "compensation" /\ d.candidate \in RecoveryCandidates
      BY <2>1, <2>2, <2>6, Decisions
    <3>2. run' = [[run EXCEPT !.pending = d.candidate] EXCEPT !.atFence = FALSE]
      BY <2>3, <2>6 DEF CompensationWritten
    <3>3. /\ DOMAIN run' = Fields /\ run'.outcome = "none" /\ run'.freeze = run.freeze
          /\ run'.work = run.work /\ run'.effect = run.effect /\ run'.request = run.request
          /\ run'.phase = run.phase /\ run'.entered = run.entered /\ run'.pending = d.candidate
      BY <1>3, <2>2, <3>2 DEF Fields
    <3>4. InCompensation' /\ Named'
      BY <3>1, <3>3 DEF TerminationInv, InWork, InCompensation, Exposed, Named
    <3> QED BY <1>3, <2>2, <3>3, <3>4, Appended DEF TerminationInv
  <2>7. CASE d.kind = "settle-compensation"
    <3>1. run' = [[run EXCEPT !.settled = [c \in Compensations |->
                     IF c \in d.refs THEN Settlement(run, c) ELSE run.settled[c]]] EXCEPT !.atFence = FALSE]
      BY <2>3, <2>7 DEF CompensationWritten
    <3>2. /\ DOMAIN run' = Fields /\ run'.outcome = "none" /\ run'.freeze = run.freeze
          /\ run'.work = run.work /\ run'.effect = run.effect /\ run'.request = run.request
          /\ run'.phase = run.phase /\ run'.entered = run.entered /\ run'.pending = run.pending
      BY <1>3, <2>2, <3>1 DEF Fields
    <3>3. (InWork \/ InCompensation)' /\ Named'
      BY <3>2 DEF TerminationInv, InWork, InCompensation, Exposed, Named
    <3> QED BY <1>3, <2>2, <3>2, <3>3, Appended DEF TerminationInv
  <2> QED BY <1>1, <2>4, <2>5, <2>6, <2>7 DEF d
<1> QED BY <1>1, <1>2, <1>3 DEF Commits, MatchesStore

-----------------------------------------------------------------------------
LEMMA InitHolds == Init => TerminationInv
<1>. SUFFICES ASSUME Init
              PROVE  TerminationInv
  OBVIOUS
<1>1. Shaped /\ Fresh
  BY DEF Init, Shaped, Fresh, Fields
<1>2. InWork /\ Named
  BY Ranks DEF Init, InWork, Named, NoFreeze, NoRequest
<1>3. Ends
  BY DEF Init, Ends, SealedHighest, SealedCompensated, SealedTruthful, Sealed
<1> QED BY <1>1, <1>2, <1>3 DEF TerminationInv

LEMMA NextKeeps == TerminationInv /\ [Next]_vars => TerminationInv'
<1>. SUFFICES ASSUME TerminationInv, [Next]_vars
              PROVE  TerminationInv'
  OBVIOUS
<1>1. CASE Kernel
  BY <1>1, KernelKeeps
<1>2. CASE RequestAbort \/ Revoke \/ AdvanceFence \/ Recover
  BY <1>2, OperatorsKeep
<1>3. ASSUME NEW w \in Writers, Project(w) \/ WriteTerminal(w) \/ WriteCompensation(w)
      PROVE  TerminationInv'
  BY <1>3, ProjectKeeps, WriteTerminalKeeps, WriteCompensationKeeps
<1>4. CASE UNCHANGED vars
  <2>1. run' = run /\ captured' = captured
    BY <1>4 DEF vars
  <2>2. Shaped' /\ Fresh'
    BY <2>1 DEF TerminationInv, Shaped, Fresh
  <2> QED BY <2>1, <2>2, LedgerKept DEF TerminationInv
<1> QED BY <1>1, <1>2, <1>3, <1>4 DEF Next

(* Every projection that could still be acted upon was built of the ledger *)
(* as it stands, and the facts of each phase hold.                         *)
THEOREM TerminationIsInvariant == Spec => []TerminationInv
BY InitHolds, NextKeeps, PTL DEF Spec

(* A run is sealed with the highest candidate that its ledger proves,      *)
(* whatever came in between the projection that was decided from and the   *)
(* commit of the seal (terminalCandidate, projectionMatchesStore).         *)
THEOREM HighestIsSealed == Spec => []SealedHighest
<1>1. TerminationInv => SealedHighest
  BY DEF TerminationInv, Ends
<1> QED BY <1>1, TerminationIsInvariant, PTL

(* A run that is sealed in a state to recover from has every effect that   *)
(* took place settled, and nothing of it goes on: what was admitted after  *)
(* the request is in a revised request, or the phase is not entered.       *)
THEOREM SealedAreCompensated == Spec => []SealedCompensated
<1>1. TerminationInv => SealedCompensated
  BY DEF TerminationInv, Ends
<1> QED BY <1>1, TerminationIsInvariant, PTL

(* The settlements of a sealed run are those its facts derive, because the *)
(* ledger they were last derived from is the one that was sealed           *)
(* (deriveCompensationProjectionV02, projectionMatchesStore).              *)
THEOREM SealsAreTruthful == Spec => []SealedTruthful
<1>1. TerminationInv => SealedTruthful
  BY DEF TerminationInv, Ends
<1> QED BY <1>1, TerminationIsInvariant, PTL
=============================================================================

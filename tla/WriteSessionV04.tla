--------------------------- MODULE WriteSessionV04 ---------------------------
(***************************************************************************)
(* The control plane of a V04 run: the operators' processes that pause,    *)
(* abort, revoke, resume, terminate and reconcile it, each under an        *)
(* authorization it captured at some boundary of the ledger, and the       *)
(* kernel that works in between.  They share one ledger, which a writer    *)
(* extends by one or two commits; a commit is acknowledged, refused, or of *)
(* unknown outcome, and between the two a process can die (FileStoreV04    *)
(* shows that the file store keeps to this).                               *)
(*                                                                         *)
(* A call holds the run's lock while it inspects and commits, except that  *)
(* the last commit of an abort, a heartbeat and a release is returned and  *)
(* not awaited: the finally that closes the session runs beside it, and    *)
(* the commit lands with the lock or without.                              *)
(***************************************************************************)
EXTENDS RuntimeReducerV04

CONSTANTS
  Writers,    \* the operators' processes
  Actions,    \* the ids the kernel gives to actions
  RequestIds, \* the ids of recovery requests
  Free,       \* the run's lock file is absent
  Stale,      \* the run's lock file was left behind by a process that died
  Offered,    \* the operations that each process makes use of
  MaxSeq,     \* bound on the events of the ledger
  MaxLeases   \* bound on the leases active at a time

Operations == {"heartbeat", "release", "pause", "abort", "revoke", "resume", "terminal", "reconcile"}

ASSUME WriteSessionAssumption ==
  /\ Free \notin Writers /\ Stale \notin Writers /\ Free # Stale
  /\ Offered \in [Writers -> SUBSET Operations]
  /\ MaxSeq \in Nat /\ MaxLeases \in Nat

VARIABLES
  ledger,   \* what the durable ledger stands for
  lock,     \* who holds the run's lock
  capture,  \* the authorization a process has captured and not yet used
  call      \* the call a process is in, with its answer once it has one

vars == <<ledger, lock, capture, call>>

Modes == {"ordinary", "reconciliation-only"}
Answers == {"COMMITTED", "NOT_COMMITTED", "REQUEST_COMMITTED", "OUTCOME_UNKNOWN"}

(* A call: the events it found (`base`); for a commit that is not awaited  *)
(* the head it goes on top of, and the lease it is about.                  *)
NoCall ==
  [pc |-> "idle", op |-> "none", base |-> 0, head |-> 0, lease |-> {}, answer |-> "none"]

Init ==
  /\ ledger = Initialized
  /\ lock = Free
  /\ capture = [w \in Writers |-> {}]
  /\ call = [w \in Writers |-> NoCall]

Idle(w) == call[w].pc = "idle"

-----------------------------------------------------------------------------
(* The kernel, which is not in this repository for V04: every batch of     *)
(* events that the reducer accepts while nobody holds the lock.  A batch   *)
(* is given by the ledgers it leads to: one, or none if it is refused.     *)

(* The ledgers that one event more leads to, and the ones that may follow. *)
Appending(e) == After({ledger}, e)
Within(states) == {s \in Publishable(states) : s.seq <= MaxSeq}

Publish(batch) ==
  /\ lock = Free
  /\ ledger' \in Within(batch)
  /\ UNCHANGED <<lock, capture, call>>

RunStarts == Publish(Appending([type |-> "run.started"]))

FirstAttempt ==
  /\ ledger.attempt = 0
  /\ Publish(Appending([type |-> "execution.attempt-started", request |-> 0,
                        boundary |-> ledger.started, mode |-> "ordinary", fence |-> 0]))

AcquireLease ==
  /\ Cardinality(ledger.leases) < MaxLeases
  /\ Publish(Appending([type |-> "ownership.lease-acquired", attempt |-> ledger.attempt,
                        fence |-> ledger.fence]))

(* Bound: action ids are not used again.  The reducer forgets an id that   *)
(* was settled, and would take it, but unresolvedAdmissions would not see  *)
(* its second admission (runtime-recovery-v04.ts:252).                     *)
AdmitAction(a) ==
  /\ a \notin ledger.settled
  /\ Publish(Appending([type |-> "task.action-admitted", action |-> a, attempt |-> ledger.attempt,
                        fence |-> ledger.fence]))

StartExecution(a) ==
  /\ a \in ActionsInFlight(ledger)
  /\ Publish(Appending([type |-> "task.execution-started", action |-> a]))

OutcomeUnknown(a) ==
  /\ a \in ActionsInFlight(ledger)
  /\ Publish(Appending([type |-> "task.action-outcome-reconciled", action |-> a,
                        status |-> "outcome-remains-unknown"]))

SettleAction(a) == Publish(Appending([type |-> "task.action-settled", action |-> a]))

RejectObservation ==
  LET rejected == Appending([type |-> "integrity.observation-rejected"])
      quarantined == After(rejected, [type |-> "run.quarantined"])
  IN  \E batch \in {rejected, quarantined} : Publish(batch)

-----------------------------------------------------------------------------
(* Capturing an authorization reads the ledger without the lock, and binds *)
(* what is authorized to the head it found.                                *)

Binding(op) ==
  [op |-> op, boundary |-> ledger.seq, attempt |-> ledger.attempt, fence |-> ledger.fence,
   id |-> "none", mode |-> "ordinary", target |-> "none"]

Captures(w, token) ==
  /\ token.op \in Offered[w]
  /\ Idle(w) /\ capture[w] = {}
  /\ capture' = [capture EXCEPT ![w] = {token}]
  /\ UNCHANGED <<ledger, lock, call>>

CapturePause(w) ==
  /\ ledger.phase = "running" /\ ledger.resume = {} /\ ledger.pause = 0
  /\ Lease(ledger.attempt, ledger.attempt, ledger.fence) \in ledger.leases
  /\ Captures(w, Binding("pause"))

CaptureAbort(w) ==
  /\ ledger.phase = "running" /\ ledger.inFlight = {} /\ ~ledger.aborted
  /\ OwnerActive(ledger)
  /\ Captures(w, Binding("abort"))

CaptureRevocation(w) ==
  /\ ledger.phase # "sealed" /\ OwnerActive(ledger)
  /\ Captures(w, Binding("revoke"))

(* The terminal projection: what the evaluation of the run decided at the  *)
(* head it was built from.  It is built from the events V02 knew too, of   *)
(* which run.fence-advanced is the one that moves the fence: past an       *)
(* attempt that recovery started, its fence is an old one, and the writer  *)
(* refuses it (projectionMatchesStore).                                    *)
CaptureTerminal(w, decision) ==
  /\ decision = "freeze-work" <=> ~ledger.frozen
  /\ Captures(w, [Binding("terminal") EXCEPT !.target = decision, !.fence = ledger.advanced])

CaptureResume(w, id, mode, target) ==
  /\ ledger.attempt # 0
  /\ IF mode = "ordinary" THEN target = "none" ELSE target \in ActionsInFlight(ledger)
  /\ Captures(w, [Binding("resume") EXCEPT !.id = id, !.mode = mode, !.target = target])

Forget(w) ==
  /\ Idle(w) /\ capture[w] # {}
  /\ capture' = [capture EXCEPT ![w] = {}]
  /\ UNCHANGED <<ledger, lock, call>>

-----------------------------------------------------------------------------
(* A call opens the store, which takes the lock, inspects the ledger and   *)
(* commits.  A call that inspects and declines changes nothing.            *)

(* The boundary the authorization names is the one the store now has.      *)
BoundaryMatches(t) ==
  HeadIs(ledger, t.boundary) /\ t.attempt = ledger.attempt /\ t.fence = ledger.fence

Reply(op, base, answer) ==
  [NoCall EXCEPT !.pc = "closing", !.op = op, !.base = base, !.answer = answer]

Answered(w, op, base, answer) == call' = [call EXCEPT ![w] = Reply(op, base, answer)]

(* One commit: acknowledged, refused, or neither; `refusal` is the answer  *)
(* of this caller to a refused one.                                        *)
Commit(w, op, base, batch, done, refusal) ==
  LET next == Within(batch) IN
  \/ /\ ledger' \in next
     /\ call' = [call EXCEPT ![w] = done]
  \/ ledger' = ledger /\ Answered(w, op, base, refusal)
  \/ /\ next # {} /\ ledger' \in {ledger} \cup next
     /\ Answered(w, op, base, "OUTCOME_UNKNOWN")

Done(op, base) == Reply(op, base, "COMMITTED")
Requested(op, base) == [NoCall EXCEPT !.pc = "requested", !.op = op, !.base = base]

Opens(w, op) == op \in Offered[w] /\ Idle(w) /\ lock = Free /\ lock' = w

(* A call that commits once.                                               *)
Once(w, op, batch) ==
  /\ Opens(w, op)
  /\ Commit(w, op, ledger.seq, batch, Done(op, ledger.seq), "NOT_COMMITTED")

(* The first commit of two, which uses up the authorization.               *)
Request(w, op, batch) ==
  /\ Opens(w, op)
  /\ capture' = [capture EXCEPT ![w] = {}]
  /\ Commit(w, op, ledger.seq, batch, Requested(op, ledger.seq), "NOT_COMMITTED")

(* The last commit of a call that does not await it: the call declines, or *)
(* leaves the commit to land on the ledger it has inspected.               *)
CommitUnawaited(w, op, base, lease, batch, refusal) ==
  /\ \/ /\ Within(batch) # {}
        /\ call' = [call EXCEPT ![w] = [NoCall EXCEPT !.pc = "landing", !.op = op, !.base = base,
                                                      !.head = ledger.seq, !.lease = lease]]
     \/ Answered(w, op, base, refusal)
  /\ UNCHANGED <<ledger, capture>>

HeartbeatBatch(l) ==
  Appending([type |-> "ownership.lease-heartbeat-recorded", lease |-> l.ref, fence |-> l.fence])

ReleaseBatch(l) ==
  Appending([type |-> "ownership.lease-released", lease |-> l.ref, fence |-> l.fence])

HeartbeatLease(w, l) ==
  /\ l.ref = ledger.attempt \/ OwnerActive(ledger)
  /\ Opens(w, "heartbeat")
  /\ CommitUnawaited(w, "heartbeat", ledger.seq, {l}, HeartbeatBatch(l), "NOT_COMMITTED")

ReleaseLease(w, l) ==
  /\ Opens(w, "release")
  /\ CommitUnawaited(w, "release", ledger.seq, {l}, ReleaseBatch(l), "NOT_COMMITTED")

TerminalEvent(decision) ==
  CASE decision = "freeze-work" -> [type |-> "run.terminal-freeze-entered"]
    [] decision = "revise-terminal-freeze" -> [type |-> "run.terminal-freeze-revised"]
    [] OTHER -> [type |-> "run.terminal-sealed", fence |-> ledger.fence + 1]

WriteTerminal(w) ==
  \E t \in capture[w] :
    /\ t.op = "terminal" /\ BoundaryMatches(t)
    /\ capture' = [capture EXCEPT ![w] = {}]
    /\ Once(w, "terminal", Appending(TerminalEvent(t.target)))

(* The adapter acknowledged that it never entered the action, and its      *)
(* process is proven to be gone: the action is closed in one batch.        *)
NonEntryBatch(a) ==
  LET acknowledged == Appending([type |-> "task.execution-non-entry-acknowledged", action |-> a])
      terminated == After(acknowledged, [type |-> "process.termination-attempted", action |-> a])
      reconciled == After(terminated, [type |-> "task.action-outcome-reconciled", action |-> a,
                                       status |-> "proven-non-start"])
  IN  After(reconciled, [type |-> "task.action-settled", action |-> a])

ReconcileNonEntry(w, a) ==
  /\ a \in ActionsInFlight(ledger) \ (ledger.facts \cup ledger.terminated)
  /\ Once(w, "reconcile", NonEntryBatch(a))
  /\ UNCHANGED capture

-----------------------------------------------------------------------------
RequestType ==
  [pause |-> "control.pause-requested", abort |-> "control.abort-requested",
   revoke |-> "authority.grant-revoked", resume |-> "recovery.resume-requested"]

(* Pausing, aborting, revoking and resuming take two commits: the request, *)
(* and what it asks for.  A process that dies in between leaves the        *)
(* request, which a later call can continue while it still is the head.    *)

(* Mutant: only the run owner is taken down, not its subordinates.         *)
FenceEventOwnerOnly ==
  [type |-> "run.fence-advanced", attempt |-> ledger.attempt, fence |-> ledger.fence + 1,
   owners |-> {ledger.attempt} \cap ActiveRefs(ledger)]

FenceEvent ==
  [type |-> "run.fence-advanced", attempt |-> ledger.attempt, fence |-> ledger.fence + 1,
   owners |-> ActiveRefs(ledger)]

(* Mutant: the pause takes down the run owner alone.                       *)
PauseBatchOwnerOnly(ref) ==
  After(Appending([FenceEvent EXCEPT !.owners = {ledger.attempt}]),
        [type |-> "run.paused", request |-> ref, attempt |-> ledger.attempt, owners |-> {ledger.attempt}])

PauseBatch(ref) ==
  After(Appending(FenceEvent),
        [type |-> "run.paused", request |-> ref, attempt |-> ledger.attempt,
         owners |-> ActiveRefs(ledger)])

AttemptEvent(r) ==
  [type |-> "execution.attempt-started", request |-> r.ref, boundary |-> r.boundary,
   mode |-> r.mode, fence |-> ledger.fence + 1]

(* Mutant: the failure of the second commit is reported as of the first.   *)
CompletesOrNothing(w, op, batch) ==
  /\ call[w].pc = "requested" /\ call[w].op = op
  /\ Commit(w, op, call[w].base, batch, Done(op, call[w].base), "NOT_COMMITTED")
  /\ UNCHANGED <<lock, capture>>

(* The second commit of the call that made the request, and of a later one *)
(* that continues it.                                                      *)
Completes(w, op, batch) ==
  /\ call[w].pc = "requested" /\ call[w].op = op
  /\ Commit(w, op, call[w].base, batch, Done(op, call[w].base), "REQUEST_COMMITTED")
  /\ UNCHANGED <<lock, capture>>

Continues(w, op, ref, batch) ==
  /\ HeadIs(ledger, ref)
  /\ Opens(w, op)
  /\ Commit(w, op, ref - 1, batch, Done(op, ref - 1), "REQUEST_COMMITTED")
  /\ UNCHANGED capture

Pausable ==
  ledger.phase = "running" /\ ledger.resume = {} /\ OwnerActive(ledger) /\ ledger.inFlight = {}

RequestPause(w) ==
  \E t \in capture[w] :
    /\ t.op = "pause" /\ BoundaryMatches(t) /\ Pausable
    /\ Request(w, "pause", Appending([type |-> "control.pause-requested", attempt |-> t.attempt,
                                      fence |-> t.fence]))

CompletePause(w) ==
  Completes(w, "pause", PauseBatch(ledger.pause))

ContinuePause(w) ==
  \E r \in ledger.control :
    /\ r.kind = RequestType.pause /\ r.attempt = ledger.attempt /\ r.fence = ledger.fence
    /\ Pausable
    /\ Continues(w, "pause", r.ref, PauseBatch(r.ref))

RequestAbort(w) ==
  \E t \in capture[w] :
    /\ t.op = "abort" /\ BoundaryMatches(t)
    /\ ledger.phase = "running" /\ ledger.inFlight = {} /\ OwnerActive(ledger)
    /\ Request(w, "abort", Appending([type |-> "control.abort-requested"]))

(* The fence of an abort is the commit that is not awaited.                *)
CompleteAbort(w) ==
  /\ call[w].pc = "requested" /\ call[w].op = "abort"
  /\ CommitUnawaited(w, "abort", call[w].base, {}, Appending(FenceEvent), "REQUEST_COMMITTED")
  /\ UNCHANGED lock

ContinueAbort(w) ==
  \E r \in ledger.control :
    /\ r.kind = RequestType.abort /\ OwnerActive(ledger)
    /\ HeadIs(ledger, r.ref)
    /\ Opens(w, "abort")
    /\ CommitUnawaited(w, "abort", r.ref - 1, {}, Appending(FenceEvent), "REQUEST_COMMITTED")

RequestRevocation(w) ==
  \E t \in capture[w] :
    /\ t.op = "revoke" /\ BoundaryMatches(t)
    /\ Request(w, "revoke", Appending([type |-> "authority.grant-revoked"]))

CompleteRevocation(w) == Completes(w, "revoke", Appending(FenceEvent))

ContinueRevocation(w) ==
  \E r \in ledger.control :
    /\ r.kind = RequestType.revoke /\ OwnerActive(ledger)
    /\ Continues(w, "revoke", r.ref, Appending(FenceEvent))

(* The admissions recovery counts as unresolved: those in flight, except   *)
(* the ones of action ids that were settled at some time.                  *)
Unresolved == ActionsInFlight(ledger) \ ledger.settled

(* Mutant: recovery in ordinary mode looks at no admission.                *)
EligibleOverUnresolved(q, pendingRef) ==
  /\ ledger.phase \notin {"sealed", "quarantine-required", "quarantined"}
  /\ \A r \in ledger.resume : r.ref = pendingRef
  /\ q.id \notin ledger.consumedIds
  /\ q.mode # "ordinary" => q.target \in Unresolved

Eligible(q, pendingRef) ==
  /\ ledger.phase \notin {"sealed", "quarantine-required", "quarantined"}
  /\ \A r \in ledger.resume : r.ref = pendingRef
  /\ q.id \notin ledger.consumedIds
  /\ IF q.mode = "ordinary" THEN Unresolved = {} ELSE q.target \in Unresolved

RequestResume(w) ==
  \E t \in capture[w] :
    /\ t.op = "resume" /\ BoundaryMatches(t) /\ Eligible(t, 0)
    /\ Request(w, "resume",
               Appending([type |-> "recovery.resume-requested", id |-> t.id, mode |-> t.mode,
                          attempt |-> t.attempt, boundary |-> t.boundary, target |-> t.target]))

CompleteResume(w) ==
  \E r \in ledger.resume :
    Eligible(r, r.ref) /\ Completes(w, "resume", Appending(AttemptEvent(r)))

ContinueResume(w) ==
  \E r \in ledger.resume :
    Eligible(r, r.ref) /\ Continues(w, "resume", r.ref, Appending(AttemptEvent(r)))

-----------------------------------------------------------------------------
(* The commit that was not awaited lands, if the ledger still is the one   *)
(* the call inspected; the store compares them, whoever has the lock.      *)

LandingBatch(c) ==
  CASE c.op = "heartbeat" -> UNION {HeartbeatBatch(l) : l \in c.lease}
    [] c.op = "release" -> UNION {ReleaseBatch(l) : l \in c.lease}
    [] OTHER -> Appending(FenceEvent)

Refusal(op) == IF op = "abort" THEN "REQUEST_COMMITTED" ELSE "NOT_COMMITTED"

Landed(w, answer) ==
  LET c == call[w] IN
  call' = [call EXCEPT ![w] = [Reply(c.op, c.base, answer) EXCEPT !.lease = c.lease]]

Land(w) ==
  LET next == IF HeadIs(ledger, call[w].head) THEN Within(LandingBatch(call[w])) ELSE {} IN
  /\ call[w].pc = "landing"
  /\ \/ ledger' \in next /\ Landed(w, "COMMITTED")
     \/ ledger' = ledger /\ Landed(w, Refusal(call[w].op))
     \/ ledger' \in {ledger} \cup next /\ Landed(w, "OUTCOME_UNKNOWN")
  /\ UNCHANGED <<lock, capture>>

-----------------------------------------------------------------------------
(* A call ends by closing its session, or with its process; then the lock  *)
(* stays until an operator removes it.  The close unlinks the lock once,   *)
(* maybe before the commit that nobody awaits has landed.                  *)

LockAfter(w, left) == lock' = IF lock = w THEN left ELSE lock

CloseBeside(w) ==
  /\ call[w].pc = "landing" /\ lock = w
  /\ lock' = Free
  /\ UNCHANGED <<ledger, capture, call>>

Close(w) ==
  /\ call[w].pc = "closing"
  /\ call' = [call EXCEPT ![w] = NoCall]
  /\ LockAfter(w, Free)
  /\ UNCHANGED <<ledger, capture>>

Crash(w) ==
  /\ call[w].pc \in {"requested", "landing", "closing"}
  /\ call' = [call EXCEPT ![w] = NoCall]
  /\ capture' = [capture EXCEPT ![w] = {}]
  /\ LockAfter(w, Stale)
  /\ UNCHANGED ledger

RemoveStaleLock ==
  /\ lock = Stale
  /\ lock' = Free
  /\ UNCHANGED <<ledger, capture, call>>

Kernel ==
  \/ RunStarts \/ FirstAttempt \/ AcquireLease \/ RejectObservation
  \/ \E a \in Actions : AdmitAction(a) \/ StartExecution(a) \/ OutcomeUnknown(a) \/ SettleAction(a)

Authorize(w) ==
  \/ CapturePause(w) \/ CaptureAbort(w) \/ CaptureRevocation(w) \/ Forget(w)
  \/ \E decision \in {"freeze-work", "revise-terminal-freeze", "seal"} : CaptureTerminal(w, decision)
  \/ \E id \in RequestIds, mode \in Modes, target \in Actions \cup {"none"} :
       CaptureResume(w, id, mode, target)

Write(w) ==
  \/ \E l \in ledger.leases : HeartbeatLease(w, l) \/ ReleaseLease(w, l)
  \/ RequestPause(w) \/ CompletePause(w) \/ ContinuePause(w)
  \/ RequestAbort(w) \/ CompleteAbort(w) \/ ContinueAbort(w)
  \/ RequestRevocation(w) \/ CompleteRevocation(w) \/ ContinueRevocation(w)
  \/ RequestResume(w) \/ CompleteResume(w) \/ ContinueResume(w)
  \/ WriteTerminal(w)
  \/ \E a \in Actions : ReconcileNonEntry(w, a)

Next ==
  \/ Kernel \/ RemoveStaleLock
  \/ \E w \in Writers : Authorize(w) \/ Write(w) \/ Land(w) \/ CloseBeside(w) \/ Close(w) \/ Crash(w)

Spec == Init /\ [][Next]_vars

-----------------------------------------------------------------------------
(* Whoever holds an active lease holds it of the current attempt, under    *)
(* the current fence: a writer that advances the fence takes every owner   *)
(* down with it (activeOwnerRefsForPause, ownerRefs), and so does the      *)
(* attempt that recovery starts.                                           *)
HolderIsCurrent ==
  \A l \in ledger.leases : l.attempt = ledger.attempt /\ l.fence = ledger.fence

(* A paused run is quiet: no action is in flight and nobody holds a lease, *)
(* the subordinates that an owner gave one to included.                    *)
PausedIsQuiet == ledger.phase = "paused" => ledger.inFlight = {} /\ ledger.leases = {}

(* While the run is in ordinary mode, what is in flight was admitted by    *)
(* the current attempt: recovery (decideRecovery) does not continue in     *)
(* ordinary mode over actions an earlier attempt left unresolved.          *)
OrdinaryStartsClean ==
  ledger.mode = "ordinary" => \A w \in ledger.inFlight : w.attempt = ledger.attempt

(* A recovery request is used up by the attempt it starts: the ids seen    *)
(* are those of the attempts after the first and of the pending request,   *)
(* if any, so no request starts two attempts (consumed request ids).       *)
ConsumedOnce ==
  LET pending == {r.id : r \in ledger.resume} IN
  /\ ledger.seenIds = ledger.consumedIds \cup pending
  /\ pending \cap ledger.consumedIds = {}
  /\ ledger.attempt # 0 => Cardinality(ledger.consumedIds) = ledger.ordinal - 1

(* The answer of a call that still has the lock is true of the ledger it   *)
(* leaves: a refused call changed nothing, a request reported alone is the *)
(* last event (but in both cases one commit that another call did not      *)
(* await may have landed), and a call reported committed has its effect.   *)
(* What outlasts the lock, for a call whose commit landed after its close: *)
(* an acknowledged abort leaves no lease from before its request, and an   *)
(* acknowledged release no longer shows that lease, whatever others have   *)
(* committed since.  Only an unknown outcome says nothing.                 *)
Landings == {"ownership.lease-heartbeat-recorded", "ownership.lease-released", "run.fence-advanced"}

StandsAt(n) == ledger.seq = n \/ (ledger.seq = n + 1 /\ ledger.head \in Landings)

TrueUnderLock(c) ==
  CASE c.answer = "NOT_COMMITTED" -> StandsAt(c.base)
    [] c.answer = "REQUEST_COMMITTED" ->
         /\ StandsAt(c.base + 1)
         /\ ledger.seq = c.base + 1 => ledger.head = RequestType[c.op]
    [] c.answer = "COMMITTED" ->
         /\ ledger.seq > c.base
         /\ c.op = "pause" => ledger.phase = "paused"
         /\ c.op \in {"abort", "revoke"} => ledger.head = "run.fence-advanced" /\ ledger.leases = {}
         /\ c.op = "resume" => ledger.attempt = ledger.seq /\ ledger.resume = {}
    [] OTHER -> TRUE

TrueForGood(c) ==
  c.answer = "COMMITTED" =>
    /\ c.op = "abort" => \A l \in ledger.leases : l.ref > c.base
    /\ c.op = "release" => c.lease \cap ledger.leases = {}

AnswersTruthful ==
  \A w \in Writers : call[w].pc = "closing" =>
    (lock = w => TrueUnderLock(call[w])) /\ TrueForGood(call[w])

-----------------------------------------------------------------------------
(* Stopping an attempt fences the attempt, and the fence, that the request *)
(* was made against, and leaves it without an owner.                       *)
StopIsNamed ==
  ledger'.fence # ledger.fence /\ ledger'.attempt = ledger.attempt /\ ledger'.phase # "sealed" =>
    /\ ledger'.leases = {}
    /\ \E r \in ledger.control : r.attempt = ledger.attempt /\ r.fence = ledger.fence
StopsNameTheirAttempt == [][StopIsNamed]_vars

(* Between a revocation or an abort and the next attempt nothing is        *)
(* admitted, even when the process that stopped the run died before it     *)
(* advanced the fence, and the owner still holds its lease.                *)
NotAdmittedOnceStopped ==
  ledger'.head = "task.action-admitted" /\ ledger' # ledger =>
    \A r \in ledger.control : r.attempt = ledger.attempt => r.kind = RequestType.pause
StoppedAttemptAdmitsNothing == [][NotAdmittedOnceStopped]_vars

(* The run implements the abstract one: its epochs are the fences of its   *)
(* attempts, its holders the active leases.                                *)
Abstract == INSTANCE FencedRun WITH
  Ids <- 1 .. MaxSeq,
  epoch <- IF ledger.attempt = 0 THEN 0 ELSE ledger.fence + 1,
  owner <- ledger.attempt,
  holders <- {[id |-> l.ref, epoch |-> l.fence + 1] : l \in ledger.leases},
  work <- ActionsInFlight(ledger),
  over <- ledger.phase = "sealed"

ImplementsFencedRun == Abstract!Spec
=============================================================================

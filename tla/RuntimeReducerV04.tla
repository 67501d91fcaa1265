-------------------------- MODULE RuntimeReducerV04 --------------------------
(***************************************************************************)
(* The state a V04 ledger stands for, and the batches of events it can be  *)
(* extended with: the reducer (run/runtime-state-reducer-v04.ts), the      *)
(* adjacency rules of the ledger's history (run/runtime-ledger-v04.ts) and *)
(* the one rule of the manifest that can refuse a valid ledger             *)
(* (run/runtime-manifest-v04.ts).  Operators only: every writer of         *)
(* WriteSessionV04 computes what it would commit with them.                *)
(*                                                                         *)
(* An event is named by its sequence number.  The ledger is a hash chain   *)
(* that is only appended to, so the number of an event names its content,  *)
(* and naming the head names the whole prefix; 0 stands for null.  A lease *)
(* that is no longer active is forgotten.  Abstracted: clock observations, *)
(* deadlines and heartbeat ordinals, side effects, event kinds that change *)
(* nothing but their own records, and the compensation-continuation mode.  *)
(***************************************************************************)
EXTENDS Naturals, FiniteSets

(* The ledger of a run that run.initialized has just opened.               *)
Initialized ==
  [seq |-> 1, head |-> "run.initialized", phase |-> "initialized", started |-> 0,
   ordinal |-> 0, attempt |-> 0, mode |-> "ordinary", fence |-> 0, advanced |-> 0,
   leases |-> {}, inFlight |-> {}, settled |-> {}, facts |-> {},
   acknowledged |-> {}, terminated |-> {}, nonStarts |-> {},
   resume |-> {}, seenIds |-> {}, consumedIds |-> {},
   pause |-> 0, control |-> {}, fenced |-> {}, aborted |-> FALSE, frozen |-> FALSE]

ActiveRefs(s) == {l.ref : l \in s.leases}

(* The run owner's lease is the attempt-started event itself.              *)
OwnerActive(s) == s.attempt # 0 /\ s.attempt \in ActiveRefs(s)

ActionsInFlight(s) == {w.action : w \in s.inFlight}

(* Mutant: it is enough that the ledger contains the event.                *)
HeadPassed(s, ref) == s.seq >= ref

(* A reference names the head: nothing was appended after that event.      *)
HeadIs(s, ref) == s.seq = ref

-----------------------------------------------------------------------------
(* What the mode of the attempt and a pending request shut out.            *)

WorkEvents ==
  {"task.action-admitted", "task.execution-started"}

RestrictedSharedEvents ==
  {"control.pause-requested", "control.abort-requested", "run.fence-advanced", "run.paused",
   "integrity.observation-rejected", "run.quarantined", "authority.grant-revoked",
   "ownership.lease-heartbeat-recorded", "ownership.lease-released",
   "run.terminal-freeze-entered", "run.terminal-freeze-revised", "run.terminal-sealed",
   "recovery.resume-requested", "execution.attempt-started"}

ReconciliationEvidence ==
  {"process.termination-attempted", "task.execution-non-entry-acknowledged",
   "task.action-outcome-reconciled", "task.action-settled"}

PermittedByMode(s, e) ==
  s.mode = "ordinary" \/ e.type \in RestrictedSharedEvents \cup ReconciliationEvidence

PermittedNow(s, e) ==
  /\ s.phase # "sealed"
  /\ s.phase = "quarantine-required" => e.type = "run.quarantined"
  /\ s.resume # {} => e.type \notin WorkEvents
  /\ PermittedByMode(s, e)

-----------------------------------------------------------------------------
(* One guard per kind of event that has one.                               *)

MayRequestResume(s, e) ==
  /\ s.attempt # 0 /\ e.attempt = s.attempt
  /\ s.resume = {}
  /\ e.id \notin s.seenIds

MayStartAttempt(s, e) ==
  /\ s.started # 0
  /\ IF s.attempt = 0
     THEN e.request = 0 /\ e.fence = 0 /\ e.boundary = s.started
     ELSE /\ e.fence = s.fence + 1
          /\ \E r \in s.resume :
               /\ r.ref = e.request /\ r.boundary = e.boundary
               /\ HeadIs(s, r.ref)

MayAcquireLease(s, e) ==
  s.resume = {} /\ s.phase = "running" /\ OwnerActive(s) /\ e.attempt = s.attempt /\ e.fence = s.fence

MayHeartbeat(s, e) ==
  \E l \in s.leases : l.ref = e.lease /\ l.fence = s.fence /\ e.fence = s.fence

MayRelease(s, e) == e.lease \in ActiveRefs(s) /\ e.fence = s.fence

MayRequestPause(s, e) == OwnerActive(s) /\ e.attempt = s.attempt /\ e.fence = s.fence

MayAdvanceFence(s, e) ==
  s.attempt # 0 /\ e.attempt = s.attempt /\ e.fence = s.fence + 1 /\ e.owners \subseteq ActiveRefs(s)

(* Mutant: the attempt is checked, but not that its owner holds its lease. *)
MayAdmitUnowned(s, e) ==
  /\ s.resume = {} /\ s.phase = "running"
  /\ e.attempt = s.attempt /\ e.fence = s.fence
  /\ e.action \notin ActionsInFlight(s)

MayAdmit(s, e) ==
  /\ s.resume = {} /\ s.phase = "running" /\ OwnerActive(s)
  /\ e.attempt = s.attempt /\ e.fence = s.fence
  /\ e.action \notin ActionsInFlight(s)

MayAcknowledge(s, e) ==
  e.action \in (ActionsInFlight(s) \cup s.settled) \ (s.acknowledged \cup s.facts)

MayReconcile(s, e) ==
  e.status = "outcome-remains-unknown"
    \/ e.action \in (s.acknowledged \cap s.terminated) \ s.facts

MaySettle(s, e) == e.action \in ActionsInFlight(s)

(* run.paused closes its own request, right after the fence that named the *)
(* owners it reports.                                                      *)
MayPause(s, e) ==
  /\ s.phase = "running" /\ s.inFlight = {}
  /\ s.pause # 0 /\ e.request = s.pause /\ e.attempt = s.attempt
  /\ s.head = "run.fence-advanced" /\ s.fenced = e.owners

MaySeal(s, e) == s.frozen /\ s.inFlight = {} /\ e.fence = s.fence + 1

Accepts(s, e) ==
  /\ PermittedNow(s, e)
  /\ CASE e.type = "run.started" -> s.phase = "initialized"
       [] e.type = "recovery.resume-requested" -> MayRequestResume(s, e)
       [] e.type = "execution.attempt-started" -> MayStartAttempt(s, e)
       [] e.type = "ownership.lease-acquired" -> MayAcquireLease(s, e)
       [] e.type = "ownership.lease-heartbeat-recorded" -> MayHeartbeat(s, e)
       [] e.type = "ownership.lease-released" -> MayRelease(s, e)
       [] e.type = "control.pause-requested" -> MayRequestPause(s, e)
       [] e.type = "run.fence-advanced" -> MayAdvanceFence(s, e)
       [] e.type = "task.action-admitted" -> MayAdmit(s, e)
       [] e.type = "task.execution-non-entry-acknowledged" -> MayAcknowledge(s, e)
       [] e.type = "process.termination-attempted" -> e.action \in s.acknowledged
       [] e.type = "task.action-outcome-reconciled" -> MayReconcile(s, e)
       [] e.type = "task.action-settled" -> MaySettle(s, e)
       [] e.type = "run.paused" -> MayPause(s, e)
       [] e.type = "integrity.observation-rejected" -> s.phase \in {"running", "paused"}
       [] e.type = "run.quarantined" -> s.phase = "quarantine-required"
       [] e.type = "run.terminal-sealed" -> MaySeal(s, e)
       [] OTHER -> TRUE

-----------------------------------------------------------------------------
(* What an accepted event makes of the state.                              *)

(* Mutant: a revocation leaves the run to the fence.                       *)
LeftToTheFence(phase) == phase

(* A revocation does not soften an abort or a quarantine.                  *)
Hold(phase) == IF phase \in {"aborting", "quarantined"} THEN phase ELSE "held"

Lease(ref, attempt, fence) == [ref |-> ref, attempt |-> attempt, fence |-> fence]

(* A control request, as a writer that finds it in the ledger reads it.    *)
ControlRequest(s, kind) ==
  {[kind |-> kind, ref |-> s.seq + 1, attempt |-> s.attempt, fence |-> s.fence]}

(* Mutant: the request is not used up by the attempt.                      *)
StartAttemptKeepingRequest(s, e, ref) ==
  [s EXCEPT !.ordinal = @ + 1, !.attempt = ref, !.mode = e.mode, !.fence = e.fence,
            !.leases = {Lease(ref, ref, e.fence)}, !.phase = "running",
            !.consumedIds = @ \cup {r.id : r \in s.resume}]

StartAttempt(s, e, ref) ==
  [s EXCEPT !.ordinal = @ + 1, !.attempt = ref, !.mode = e.mode, !.fence = e.fence,
            !.leases = {Lease(ref, ref, e.fence)}, !.phase = "running",
            !.consumedIds = @ \cup {r.id : r \in s.resume}, !.resume = {}]

(* `advanced` is the fence as run.fence-advanced events alone tell it; an   *)
(* attempt that recovery starts moves the fence without one.               *)
AdvanceFence(s, e) ==
  [s EXCEPT !.fence = e.fence, !.advanced = e.fence, !.fenced = e.owners,
            !.leases = {l \in @ : l.ref \notin e.owners}]

Effect(s, e, ref) ==
  CASE e.type = "run.started" -> [s EXCEPT !.phase = "running", !.started = ref]
    [] e.type = "recovery.resume-requested" ->
         [s EXCEPT !.seenIds = @ \cup {e.id},
                   !.resume = {[ref |-> ref, id |-> e.id, mode |-> e.mode, attempt |-> e.attempt,
                                boundary |-> e.boundary, target |-> e.target]}]
    [] e.type = "execution.attempt-started" -> StartAttempt(s, e, ref)
    [] e.type = "ownership.lease-acquired" ->
         [s EXCEPT !.leases = @ \cup {Lease(ref, e.attempt, e.fence)}]
    [] e.type = "ownership.lease-released" ->
         [s EXCEPT !.leases = {l \in @ : l.ref # e.lease}]
    [] e.type = "control.pause-requested" ->
         [s EXCEPT !.pause = ref, !.control = ControlRequest(s, e.type)]
    [] e.type = "run.fence-advanced" -> AdvanceFence(s, e)
    [] e.type = "task.action-admitted" ->
         [s EXCEPT !.inFlight = @ \cup {[action |-> e.action, attempt |-> e.attempt]}]
    [] e.type = "task.execution-non-entry-acknowledged" ->
         [s EXCEPT !.acknowledged = @ \cup {e.action}]
    [] e.type = "process.termination-attempted" -> [s EXCEPT !.terminated = @ \cup {e.action}]
    [] e.type = "task.action-outcome-reconciled" ->
         IF e.status = "proven-non-start" THEN [s EXCEPT !.nonStarts = @ \cup {e.action}]
                                          ELSE [s EXCEPT !.facts = @ \cup {e.action}]
    [] e.type = "task.execution-started" -> [s EXCEPT !.facts = @ \cup {e.action}]
    [] e.type = "task.action-settled" ->
         [s EXCEPT !.inFlight = {w \in @ : w.action # e.action}, !.settled = @ \cup {e.action}]
    [] e.type = "run.paused" -> [s EXCEPT !.phase = "paused", !.pause = 0]
    [] e.type = "integrity.observation-rejected" -> [s EXCEPT !.phase = "quarantine-required"]
    [] e.type = "run.quarantined" -> [s EXCEPT !.phase = "quarantined"]
    [] e.type = "authority.grant-revoked" ->
         [s EXCEPT !.phase = Hold(@),
                   !.control = ControlRequest(s, e.type)]
    [] e.type = "control.abort-requested" ->
         [s EXCEPT !.phase = IF @ = "quarantined" THEN @ ELSE "aborting",
                   !.aborted = TRUE, !.control = ControlRequest(s, e.type)]
    [] e.type \in {"run.terminal-freeze-entered", "run.terminal-freeze-revised"} ->
         [s EXCEPT !.frozen = TRUE]
    [] e.type = "run.terminal-sealed" ->
         [s EXCEPT !.phase = "sealed", !.fence = e.fence, !.leases = {}]
    [] OTHER -> s

Reduce(s, e) == [Effect(s, e, s.seq + 1) EXCEPT !.seq = @ + 1, !.head = e.type]

(* The states a ledger reaches by one event more: one, or none.            *)
After(states, e) == {Reduce(s, e) : s \in {x \in states : Accepts(x, e)}}

(* A state in which the last event demands another one cannot be written   *)
(* down in a manifest.                                                     *)
Projectable(s) == s.phase # "quarantine-required"

(* What a writer can write down of what its batch of events leads to.      *)
Publishable(states) == {x \in states : Projectable(x)}
=============================================================================

----------------------- MODULE ExecutionCoordinatorV03 -----------------------
(***************************************************************************)
(* The V03 runtime: execution coordinators                                 *)
(* (run/runtime-execution-coordinator-v03.ts) over write sessions          *)
(* (runtime-write-session-v03.ts) of one captured run store.  A            *)
(* coordinator takes one call after the other from its promise chain.  A   *)
(* call has an action admitted (lease, clock and admission,                *)
(* runtime-action-admission-v03.ts), dispatches it to its adapter          *)
(* (runtime-effect-dispatch-broker-v01.ts), records that it started,       *)
(* compares what the adapter observed with what was admitted               *)
(* (runtime-observation-integrity-v03.ts), and either keeps the result in  *)
(* custody for its caller, or quarantines the run and has the process      *)
(* terminated (runtime-termination-v03.ts).                                *)
(*                                                                         *)
(* Each operation of a session is one step: a session runs them one by     *)
(* one, and none of them waits for anything.  Between two of them others   *)
(* may append, and callers take results, make calls or ask to close.  An   *)
(* append can be refused before it began, which closes the session, or     *)
(* fail with an outcome nobody knows, which poisons session and store.     *)
(***************************************************************************)
EXTENDS Naturals, Sequences

CONSTANTS
  Sessions,  \* write sessions that may be opened, one after the other
  Calls,     \* calls of coordinators
  Adapters,  \* captured effect adapters
  None,      \* no session, no call
  Envelopes, \* how many event envelopes the captured store holds
  MaxFaults, \* bound on failing appends: the store injects at most one
  MaxKernel  \* bound on the events appended by the kernel

ASSUME CoordinatorAssumption ==
  /\ None \notin Sessions \cup Calls
  /\ Envelopes \in Nat /\ MaxFaults \in Nat /\ MaxKernel \in Nat

VARIABLES
  ledger,    \* events appended to the captured prefix; a torn line is none
  published, \* how many of them the manifest describes
  store,     \* whether the store is poisoned, and which session holds its lock
  session,   \* the sessions
  coord,     \* the coordinator of each session
  queue,     \* its promise chain: the calls that have not ended, in order
  call,      \* the calls
  used,      \* adapters that were given to a call
  faults, kernel

runVars == <<ledger, published, store, session>>
vars == <<runVars, coord, queue, call, used, faults, kernel>>

Event(type, c) == [type |-> type, call |-> c]
Has(l, type) == \E i \in DOMAIN l : l[i].type = type
IsPublished(e) == \E i \in 1 .. published : ledger[i] = e

IdleCall == [pc |-> "idle", session |-> None, entered |-> FALSE, observed |-> "nothing",
             answer |-> "none", custody |-> "none"]

Init ==
  /\ ledger = <<>> /\ published = 0
  /\ store = [poisoned |-> FALSE, holder |-> None]
  /\ session = [s \in Sessions |-> [state |-> "new", poisoned |-> FALSE]]
  /\ coord = [s \in Sessions |-> [captured |-> FALSE, closed |-> FALSE, status |-> "OPEN"]]
  /\ queue = [s \in Sessions |-> <<>>]
  /\ call = [c \in Calls |-> IdleCall]
  /\ used = {} /\ faults = 0 /\ kernel = 0

-----------------------------------------------------------------------------
(* The ledger (validateRuntimeLedgerHistoryV02, reduceRuntimeEventPrefix   *)
(* V03).  The store's admission context names one lease, and a lease id    *)
(* may appear once.                                                        *)

Required(l) == l # <<>> /\ l[Len(l)].type = "rejected"
Stopped(l) == Has(l, "quarantined") \/ Has(l, "stopped")

Accepts(l, e) ==
  /\ Required(l) <=> e.type = "quarantined"
  /\ e.type = "lease" => ~Has(l, "lease")
  /\ e.type = "admitted" => ~Stopped(l) /\ l # <<>> /\ l[Len(l)] = Event("clock", e.call)
  /\ e.type = "rejected" => ~Stopped(l)
  /\ e.type = "terminated" => Has(l, "quarantined")

AcceptsAll(l, es) == \A i \in DOMAIN es : Accepts(l \o SubSeq(es, 1, i - 1), es[i])

-----------------------------------------------------------------------------
(* Sessions.                                                               *)

Live(s) ==
  session[s].state = "open" /\ ~session[s].poisoned /\ ~store.poisoned /\ store.holder = s

(* inspectRuntimeWriteSessionV03ForTermination: the manifest describes the *)
(* ledger.                                                                 *)
Inspectable(s) == Live(s) /\ published = Len(ledger) /\ ~Required(ledger)

(* inspectRuntimeWriteSessionV03ForDispatch.                               *)
Dispatchable(s) == Inspectable(s) /\ ~Has(ledger, "quarantined")

(* verifyRuntimeWriteSessionTailReadbackV03: the ledger ends with es.      *)
TailIs(s, es) ==
  /\ Live(s)
  /\ published = Len(ledger) /\ Len(ledger) >= Len(es)
  /\ SubSeq(ledger, Len(ledger) - Len(es) + 1, Len(ledger)) = es

Poisoned(s) ==
  /\ session' = [session EXCEPT ![s].poisoned = TRUE]
  /\ store' = [store EXCEPT !.poisoned = TRUE]

(* What the manifest may describe when k of n lines were written.          *)
(* Mutant: the first of two alone.                                         *)
PublishesSome(k, n) == {published, Len(ledger) + k}
Publishes(k, n) == IF k = n THEN {published, Len(ledger) + k} ELSE {published}

(* An append of one event (appendSerialized), or of two that belong        *)
(* together (appendIntegrityQuarantinePairSerialized).                     *)
AppendEvents(s, es, result) ==
  LET open == session[s].state = "open"
      poisoned == session[s].poisoned \/ store.poisoned
      accepted == Len(ledger) + Len(es) <= Envelopes /\ AcceptsAll(ledger, es)
  IN
  \/ /\ ~open \/ (~poisoned /\ ~accepted)
     /\ result = "NOT_COMMITTED"
     /\ UNCHANGED <<runVars, faults>>
  \/ /\ open /\ poisoned
     /\ result = "OUTCOME_UNKNOWN"
     /\ UNCHANGED <<runVars, faults>>
  \/ /\ Live(s) /\ accepted
     /\ result = "COMMITTED"
     /\ ledger' = ledger \o es
     /\ published' = Len(ledger')
     /\ UNCHANGED <<store, session, faults>>
  \/ /\ Live(s) /\ accepted /\ faults < MaxFaults
     /\ result = "NOT_COMMITTED"
     /\ session' = [session EXCEPT ![s].state = "closed"]
     /\ store' = [store EXCEPT !.holder = None]
     /\ faults' = faults + 1
     /\ UNCHANGED <<ledger, published>>
  \/ /\ Live(s) /\ accepted /\ faults < MaxFaults
     /\ result = "OUTCOME_UNKNOWN"
     /\ \E k \in 0 .. Len(es) :
          /\ ledger' = ledger \o SubSeq(es, 1, k)
          /\ published' \in Publishes(k, Len(es))
     /\ Poisoned(s)
     /\ faults' = faults + 1

Results == {"COMMITTED", "NOT_COMMITTED", "OUTCOME_UNKNOWN"}

(* openRuntimeWriteSessionV03, with the expectation of a caller who read   *)
(* the files.                                                              *)
Open(s) ==
  /\ session[s].state = "new"
  /\ ~store.poisoned /\ store.holder = None
  /\ published = Len(ledger) /\ ~Has(ledger, "quarantined") /\ ~Required(ledger)
  /\ session' = [session EXCEPT ![s].state = "open"]
  /\ store' = [store EXCEPT !.holder = s]
  /\ UNCHANGED <<ledger, published, coord, queue, call, used, faults, kernel>>

(* captureRuntimeExecutionCoordinatorV03: one coordinator for a session.   *)
Capture(s) ==
  /\ ~coord[s].captured
  /\ Dispatchable(s)
  /\ coord' = [coord EXCEPT ![s].captured = TRUE]
  /\ UNCHANGED <<runVars, queue, call, used, faults, kernel>>

(* The kernel appends what no coordinator does: an abort or a revocation,  *)
(* a clock past the expiry of the lease.                                   *)
Kernel(s) ==
  /\ kernel < MaxKernel
  /\ Live(s)
  /\ \E type \in {"stopped", "late"}, result \in Results :
       AppendEvents(s, <<Event(type, None)>>, result)
  /\ kernel' = kernel + 1
  /\ UNCHANGED <<coord, queue, call, used>>

-----------------------------------------------------------------------------
(* Calls.                                                                  *)

(* coordinateRuntimeActionV03, up to its place in the promise chain.       *)
Coordinate(c, s, a) ==
  /\ call[c].pc = "idle" /\ coord[s].captured
  /\ \/ /\ coord[s].closed
        /\ call' = [call EXCEPT ![c].pc = "answered", ![c].session = s, ![c].answer = "COORDINATOR_CLOSED"]
        /\ UNCHANGED <<queue, used>>
     \/ /\ ~coord[s].closed /\ a \in used
        /\ call' = [call EXCEPT ![c].pc = "answered", ![c].session = s, ![c].answer = "ADAPTER_ALREADY_USED"]
        /\ UNCHANGED <<queue, used>>
     \/ /\ ~coord[s].closed /\ a \notin used
        /\ call' = [call EXCEPT ![c].pc = "queued", ![c].session = s]
        /\ queue' = [queue EXCEPT ![s] = Append(@, c)]
        /\ used' = used \cup {a}
  /\ UNCHANGED <<runVars, coord, faults, kernel>>

(* closeRuntimeExecutionCoordinatorV03.                                    *)
RequestClose(c, s) ==
  /\ call[c].pc = "idle" /\ coord[s].captured
  /\ call' = [call EXCEPT ![c].pc = "close-queued", ![c].session = s]
  /\ queue' = [queue EXCEPT ![s] = Append(@, c)]
  /\ UNCHANGED <<runVars, coord, used, faults, kernel>>

(* takeRuntimeInvocationResultV01: the result is consumed, or destroyed    *)
(* when the caller's binding is wrong.                                     *)
Take(c) ==
  /\ call[c].custody = "held"
  /\ \E end \in {"taken", "destroyed"} : call' = [call EXCEPT ![c].custody = end]
  /\ UNCHANGED <<runVars, coord, queue, used, faults, kernel>>

At(c, pc) == call[c].pc = pc /\ queue[call[c].session] # <<>> /\ Head(queue[call[c].session]) = c

Go(c, pc) == call' = [call EXCEPT ![c].pc = pc]

Fail(c, pc) == call' = [call EXCEPT ![c].pc = pc, ![c].answer = "FAILED"]

(* Mutant: a call that was answered keeps its place.                       *)
Stay(c) == UNCHANGED queue
Leave(c) == queue' = [queue EXCEPT ![call[c].session] = Tail(@)]

(* An append of the call, and where it goes from there.                    *)
AppendStep(c, es, committed, refused) ==
  /\ \E result \in Results :
       /\ AppendEvents(call[c].session, es, result)
       /\ Go(c, CASE result = "COMMITTED" -> committed
                  [] result = "NOT_COMMITTED" -> refused
                  [] result = "OUTCOME_UNKNOWN" -> "poison")
  /\ UNCHANGED <<coord, queue, used, kernel>>

(* A readback of the call: the session is poisoned unless it is exact.     *)
VerifyStep(c, exact, next) ==
  /\ Go(c, IF exact THEN next ELSE "poison")
  /\ UNCHANGED <<runVars, coord, queue, used, faults, kernel>>

Begin(c) ==
  LET closed == coord[call[c].session].closed IN
  /\ \/ At(c, "queued") /\ ~closed /\ Fail(c, "inspect") /\ UNCHANGED queue
     \/ /\ At(c, "queued") /\ closed
        /\ call' = [call EXCEPT ![c].pc = "answered", ![c].answer = "COORDINATOR_CLOSED"]
        /\ Leave(c)
     \/ /\ At(c, "close-queued") /\ ~closed
        /\ call' = [call EXCEPT ![c].pc = "closing", ![c].answer = "CLOSE_ENDED"]
        /\ UNCHANGED queue
     \/ /\ At(c, "close-queued") /\ closed
        /\ call' = [call EXCEPT ![c].pc = "answered", ![c].answer = "CLOSE_ENDED"]
        /\ Leave(c)
  /\ UNCHANGED <<runVars, coord, used, faults, kernel>>

(* admitRuntimeActionV03 refuses for reasons of the session, or for any of *)
(* its own: records, authority, drift, simulation, limits.                 *)
InspectForAdmission(c) ==
  /\ At(c, "inspect")
  /\ \/ /\ Dispatchable(call[c].session) /\ Len(ledger) + 3 <= Envelopes
        /\ Go(c, "lease")
     \/ Go(c, "closing")
  /\ UNCHANGED <<runVars, coord, queue, used, faults, kernel>>

AppendLease(c) == At(c, "lease") /\ AppendStep(c, <<Event("lease", c)>>, "clock", "closing")

AppendClock(c) == At(c, "clock") /\ AppendStep(c, <<Event("clock", c)>>, "admit", "poison")

AppendAdmission(c) == At(c, "admit") /\ AppendStep(c, <<Event("admitted", c)>>, "verify-admission", "poison")

(* verifyRuntimeWriteSessionAdmissionReadbackV03.                          *)
VerifyAdmission(c) ==
  /\ At(c, "verify-admission")
  /\ VerifyStep(c, /\ Dispatchable(call[c].session)
                   /\ TailIs(call[c].session, <<Event("lease", c), Event("clock", c), Event("admitted", c)>>),
                "dispatch")

(* dispatchAdmittedActionV01 up to the call of the adapter: the lease must *)
(* not have expired by a clock after the admission, and the adapter must   *)
(* be bound to the dispatch that was admitted.                             *)
Late(c) ==
  \E i, j \in DOMAIN ledger : i < j /\ ledger[i] = Event("admitted", c) /\ ledger[j].type = "late"

Dispatch(c) ==
  LET fits == Dispatchable(call[c].session) IN
  /\ At(c, "dispatch")
  /\ \/ fits /\ ~Late(c) /\ call' = [call EXCEPT ![c].pc = "adapter", ![c].entered = TRUE]
     \/ (~fits \/ Late(c)) /\ Go(c, "closing")
     \/ fits /\ Go(c, "poison")
  /\ UNCHANGED <<runVars, coord, queue, used, faults, kernel>>

(* The adapter reports that nothing was started, or throws, or reports     *)
(* what it observed.                                                       *)
AdapterReturns(c) ==
  /\ At(c, "adapter")
  /\ \E o \in {"not-started", "unknown", "exact", "mismatch"} :
       call' = [call EXCEPT ![c].observed = o,
                  ![c].pc = CASE o = "not-started" -> "closing"
                              [] o = "unknown" -> "poison"
                              [] OTHER -> "inspect-start"]
  /\ UNCHANGED <<runVars, coord, queue, used, faults, kernel>>

(* appendExecutionStarted.                                                 *)
InspectForStart(c) == At(c, "inspect-start") /\ VerifyStep(c, Dispatchable(call[c].session), "start")

(* Mutant: a start that was not committed only closes the coordinator.     *)
AppendStartKeeps(c) == At(c, "start") /\ AppendStep(c, <<Event("started", c)>>, "verify-start", "closing")

AppendStart(c) == At(c, "start") /\ AppendStep(c, <<Event("started", c)>>, "verify-start", "poison")

VerifyStart(c) ==
  At(c, "verify-start") /\ VerifyStep(c, TailIs(call[c].session, <<Event("started", c)>>), "reconcile")

(* reconcileRuntimeObservationIntegrityV03: a result that fits is kept for *)
(* the caller and the call ends, the coordinator staying open.             *)
Reconcile(c) ==
  LET fits == Dispatchable(call[c].session) IN
  /\ At(c, "reconcile")
  /\ \/ /\ fits /\ call[c].observed = "exact"
        /\ call' = [call EXCEPT ![c].pc = "answered", ![c].answer = "MATCHED", ![c].custody = "held"]
        /\ Leave(c)
     \/ fits /\ call[c].observed # "exact" /\ Go(c, "pair") /\ UNCHANGED queue
     \/ ~fits /\ Go(c, "poison") /\ UNCHANGED queue
  /\ UNCHANGED <<runVars, coord, used, faults, kernel>>

Pair(c) == <<Event("rejected", c), Event("quarantined", c)>>

AppendPair(c) == At(c, "pair") /\ AppendStep(c, Pair(c), "verify-pair", "poison")

VerifyPair(c) ==
  /\ At(c, "verify-pair")
  /\ call' = [call EXCEPT
       ![c].pc = IF TailIs(call[c].session, Pair(c)) THEN "terminate" ELSE "poison",
       ![c].answer = IF TailIs(call[c].session, Pair(c)) THEN "QUARANTINED" ELSE @]
  /\ UNCHANGED <<runVars, coord, queue, used, faults, kernel>>

(* terminateRuntimeActionV03: the host is asked once, and the attempt is   *)
(* recorded whatever the host answers.                                     *)
Terminate(c) ==
  /\ At(c, "terminate")
  /\ Go(c, IF Inspectable(call[c].session) THEN "termination" ELSE "closing")
  /\ UNCHANGED <<runVars, coord, queue, used, faults, kernel>>

AppendTermination(c) ==
  At(c, "termination") /\ AppendStep(c, <<Event("terminated", c)>>, "verify-termination", "poison")

VerifyTermination(c) ==
  /\ At(c, "verify-termination")
  /\ VerifyStep(c, TailIs(call[c].session, <<Event("terminated", c)>>), "closing")

(* poisonRuntimeWriteSessionV03ForAdmission.                               *)
Poison(c) ==
  /\ At(c, "poison")
  /\ Poisoned(call[c].session)
  /\ Go(c, "closing")
  /\ UNCHANGED <<ledger, published, coord, queue, used, faults, kernel>>

(* closeState: the coordinator closes and destroys the results it holds,   *)
(* then the session is closed.                                             *)
(* Mutant: the coordinator closes and keeps the results.                   *)
KeepCustodies(c, s) == call' = [call EXCEPT ![c].pc = "close-session"]

DestroyCustodies(c, s) ==
  call' = [d \in Calls |->
    [call[d] EXCEPT
      !.pc = IF d = c THEN "close-session" ELSE @,
      !.custody = IF call[d].session = s /\ @ = "held" THEN "destroyed" ELSE @]]

CloseState(c) ==
  /\ At(c, "closing")
  /\ coord' = [coord EXCEPT ![call[c].session].closed = TRUE]
  /\ DestroyCustodies(c, call[c].session)
  /\ UNCHANGED <<runVars, queue, used, faults, kernel>>

(* closeRuntimeWriteSessionV03: who holds the lock afterwards.             *)
(* Mutant: a poisoned session keeps it.                                    *)
HolderKept(s) == IF session[s].state = "open" /\ ~session[s].poisoned THEN None ELSE store.holder
HolderAfterClose(s) == IF session[s].state = "open" THEN None ELSE store.holder

CloseSession(c) ==
  LET s == call[c].session IN
  /\ At(c, "close-session")
  /\ session' = [session EXCEPT ![s].state = "closed"]
  /\ store' = [store EXCEPT !.holder = HolderAfterClose(s)]
  /\ coord' = [coord EXCEPT ![s].status = IF session[s].state = "open" THEN "CLOSED" ELSE "CLOSE_FAILED"]
  /\ Go(c, "answered") /\ Leave(c)
  /\ UNCHANGED <<ledger, published, used, faults, kernel>>

Step(c) ==
  \/ Begin(c) \/ InspectForAdmission(c) \/ AppendLease(c) \/ AppendClock(c) \/ AppendAdmission(c)
  \/ VerifyAdmission(c) \/ Dispatch(c) \/ AdapterReturns(c)
  \/ InspectForStart(c) \/ AppendStart(c) \/ VerifyStart(c) \/ Reconcile(c)
  \/ AppendPair(c) \/ VerifyPair(c)
  \/ Terminate(c) \/ AppendTermination(c) \/ VerifyTermination(c)
  \/ Poison(c) \/ CloseState(c) \/ CloseSession(c)

Next ==
  \/ \E s \in Sessions : Open(s) \/ Capture(s) \/ Kernel(s)
  \/ \E c \in Calls, s \in Sessions : RequestClose(c, s) \/ \E a \in Adapters : Coordinate(c, s, a)
  \/ \E c \in Calls : Take(c) \/ Step(c)

(* Adapters and the host answer: without that a call may wait forever, as  *)
(* no operation of this runtime has a timeout.                             *)
Spec == Init /\ [][Next]_vars /\ \A c \in Calls : WF_vars(Step(c))

-----------------------------------------------------------------------------
(* Properties.                                                             *)

(* The kinds of values the variables take.                                 *)
Events == [type : {"stopped", "late", "lease", "clock", "admitted", "started", "rejected",
                   "quarantined", "terminated"},
           call : Calls \cup {None}]

CallStates ==
  [pc : {"idle", "queued", "close-queued", "inspect", "lease", "clock", "admit", "verify-admission",
         "dispatch", "adapter", "inspect-start", "start", "verify-start", "reconcile", "pair",
         "verify-pair", "terminate", "termination", "verify-termination", "poison", "closing",
         "close-session", "answered"},
   session : Sessions \cup {None},
   entered : BOOLEAN,
   observed : {"nothing", "not-started", "unknown", "exact", "mismatch"},
   answer : {"none", "FAILED", "MATCHED", "QUARANTINED", "CLOSE_ENDED", "COORDINATOR_CLOSED",
             "ADAPTER_ALREADY_USED"},
   custody : {"none", "held", "taken", "destroyed"}]

TypeOK ==
  /\ ledger \in Seq(Events) /\ published \in 0 .. Len(ledger)
  /\ store \in [poisoned : BOOLEAN, holder : Sessions \cup {None}]
  /\ session \in [Sessions -> [state : {"new", "open", "closed"}, poisoned : BOOLEAN]]
  /\ coord \in [Sessions -> [captured : BOOLEAN, closed : BOOLEAN, status : {"OPEN", "CLOSED", "CLOSE_FAILED"}]]
  /\ queue \in [Sessions -> Seq(Calls)]
  /\ call \in [Calls -> CallStates]
  /\ used \subseteq Adapters
  /\ faults \in 0 .. MaxFaults /\ kernel \in 0 .. MaxKernel

Answered(c) == call[c].pc = "answered"

(* What an effect that was handed to its adapter must leave on the ledger: *)
(* its start if what it did was admitted, the quarantine pair if not.      *)
Recorded(c) ==
  /\ IsPublished(Event("started", c))
  /\ call[c].observed = "exact" \/ IsPublished(Event("quarantined", c))

(* An effect whose adapter was entered, and did not report that nothing    *)
(* started, is on the published ledger with its outcome when the call is   *)
(* answered, or the store takes no further event: no later work can build  *)
(* on an effect nobody recorded (the poisoning before every closeState of  *)
(* coordinateSerialized).                                                  *)
EffectsAreRecorded ==
  \A c \in Calls :
    Answered(c) /\ call[c].entered /\ call[c].observed # "not-started" => Recorded(c) \/ store.poisoned

(* The manifest never describes a rejected observation without the         *)
(* quarantine that must follow it, wherever the append of the two failed.  *)
QuarantinePairs ==
  \A i \in 1 .. published :
    ledger[i].type = "rejected" =>
      i < published /\ ledger[i + 1] = Event("quarantined", ledger[i].call)

(* A call that failed, quarantined the run or closed its coordinator has   *)
(* given the run's lock back when it is answered, whichever operation      *)
(* failed, also when the session had closed itself before                  *)
(* (CLOSE_FAILED); and a session that is closed never holds the lock.      *)
EndedCallsFreeTheLock ==
  /\ \A c \in Calls :
       Answered(c) /\ call[c].answer \in {"FAILED", "QUARANTINED", "CLOSE_ENDED"} =>
         store.holder # call[c].session
  /\ \A s \in Sessions : session[s].state = "closed" => store.holder # s

(* A result waits for its caller only while its coordinator is open, and   *)
(* only results of matched effects whose start is published are released   *)
(* (destroyCustodies, takeRuntimeInvocationResultV01).                     *)
ResultsDieWithCoordinator ==
  \A c \in Calls :
    /\ call[c].custody = "held" => ~coord[call[c].session].closed
    /\ call[c].custody \in {"held", "taken"} =>
         call[c].observed = "exact" /\ IsPublished(Event("started", c))

(* Every call is answered: each failure leads to the close of the          *)
(* coordinator, and the close lets the calls behind it be answered.        *)
CallsAnswered == \A c \in Calls : call[c].pc # "idle" ~> Answered(c)

=============================================================================

-------------------- MODULE ExecutionCoordinatorV03Proofs --------------------
(***************************************************************************)
(* For any sessions, calls, adapters, envelopes and failing appends: an    *)
(* effect that was handed to its adapter is on record when its call is     *)
(* answered, or the store takes no further event; quarantine pairs are     *)
(* published whole; a coordinator's calls end one after the other, with    *)
(* its results and its lock given up when it closes.                       *)
(***************************************************************************)
EXTENDS ExecutionCoordinatorV03, SequenceTheorems, TLAPS

(* Nothing was handed to the adapter of a call that has not come to it.    *)
NotEntered(c) ==
  call[c].pc \in {"idle", "queued", "close-queued", "inspect", "lease", "clock", "admit",
                  "verify-admission", "dispatch"} => ~call[c].entered

(* EffectsAreRecorded is not inductive: it says nothing of calls under     *)
(* way.  Once its start was read back it is on record, and so is its       *)
(* quarantine; a call that is about to end has recorded its effect, or     *)
(* stopped the store, unless it started nothing.                           *)
Progress(c) ==
  /\ NotEntered(c)
  /\ call[c].pc \in {"reconcile", "pair", "verify-pair"} => IsPublished(Event("started", c))
  /\ call[c].pc \in {"terminate", "termination", "verify-termination"} => Recorded(c)
  /\ /\ call[c].pc \in {"closing", "close-session", "answered"}
     /\ call[c].entered /\ call[c].observed # "not-started"
     => Recorded(c) \/ store.poisoned

RecordInv == TypeOK /\ \A c \in Calls : Progress(c)

(* What no step takes back: what is published, and the store's poison.     *)
Kept ==
  /\ store.poisoned => store'.poisoned
  /\ \A e \in Events : IsPublished(e) => IsPublished(e)'

(* The types of what an append may change.                                 *)
LedgerOK == ledger \in Seq(Events) /\ published \in 0 .. Len(ledger)
StoreOK == store \in [poisoned : BOOLEAN, holder : Sessions \cup {None}]
SessionOK == session \in [Sessions -> [state : {"new", "open", "closed"}, poisoned : BOOLEAN]]
FaultsOK == faults \in 0 .. MaxFaults
RunOK == LedgerOK /\ StoreOK /\ SessionOK /\ FaultsOK

-----------------------------------------------------------------------------
(* Lines added at the end of the ledger take nothing back.                 *)
LEMMA LedgerGrows ==
  ASSUME LedgerOK, NEW es \in Seq(Events), ledger' = ledger \o es,
         published' \in published .. Len(ledger')
  PROVE  LedgerOK' /\ \A e \in Events : IsPublished(e) => IsPublished(e)'
<1>1. ledger' \in Seq(Events) /\ Len(ledger') = Len(ledger) + Len(es)
  BY ConcatProperties DEF LedgerOK
<1>2. \A i \in 1 .. Len(ledger) : ledger'[i] = ledger[i]
  BY ConcatProperties DEF LedgerOK
<1>3. published \in Nat /\ Len(ledger) \in Nat /\ Len(es) \in Nat
  BY DEF LedgerOK
<1>4. LedgerOK'
  BY <1>1, <1>3 DEF LedgerOK
<1>5. ASSUME NEW e \in Events, IsPublished(e) PROVE IsPublished(e)'
  <2>1. PICK i \in 1 .. published : ledger[i] = e
    BY <1>5 DEF IsPublished
  <2>2. i \in 1 .. Len(ledger) /\ i \in 1 .. published'
    BY <1>1, <1>3, <1>4, <2>1 DEF LedgerOK
  <2> QED
    BY <1>2, <2>1, <2>2 DEF IsPublished
<1> QED
  BY <1>4, <1>5

(* An append keeps the types of what it changes, and takes nothing back.   *)
LEMMA AppendKeeps ==
  ASSUME RunOK, NEW s, NEW es \in Seq(Events), NEW result, AppendEvents(s, es, result)
  PROVE  RunOK' /\ Kept
<1> USE CoordinatorAssumption
<1>1. CASE UNCHANGED <<runVars, faults>>
  BY <1>1 DEF RunOK, LedgerOK, StoreOK, SessionOK, FaultsOK, Kept, IsPublished, runVars
<1>2. CASE /\ ledger' = ledger \o es /\ published' = Len(ledger')
           /\ UNCHANGED <<store, session, faults>>
  <2>1. published' \in published .. Len(ledger')
    <3>1. Len(ledger') = Len(ledger) + Len(es) /\ Len(es) \in Nat /\ Len(ledger) \in Nat
      BY <1>2, ConcatProperties DEF RunOK, LedgerOK
    <3> QED
      BY <1>2, <3>1 DEF RunOK, LedgerOK
  <2>2. LedgerOK' /\ \A e \in Events : IsPublished(e) => IsPublished(e)'
    BY <1>2, <2>1, LedgerGrows DEF RunOK
  <2> QED
    BY <1>2, <2>2 DEF RunOK, StoreOK, SessionOK, FaultsOK, Kept
<1>3. CASE /\ faults < MaxFaults
           /\ session' = [session EXCEPT ![s].state = "closed"]
           /\ store' = [store EXCEPT !.holder = None]
           /\ faults' = faults + 1
           /\ UNCHANGED <<ledger, published>>
  <2>1. LedgerOK' /\ Kept
    BY <1>3 DEF RunOK, LedgerOK, StoreOK, Kept, IsPublished
  <2>2. StoreOK' /\ SessionOK'
    BY <1>3 DEF RunOK, StoreOK, SessionOK
  <2>3. FaultsOK'
    BY <1>3 DEF RunOK, FaultsOK
  <2> QED
    BY <2>1, <2>2, <2>3 DEF RunOK
<1>4. ASSUME NEW k \in 0 .. Len(es),
             ledger' = ledger \o SubSeq(es, 1, k), published' \in Publishes(k, Len(es)),
             Poisoned(s), faults < MaxFaults, faults' = faults + 1
      PROVE  RunOK' /\ Kept
  <2>1. SubSeq(es, 1, k) \in Seq(Events) /\ Len(SubSeq(es, 1, k)) = k
    BY <1>4, SubSeqProperties
  <2>2. Len(ledger') = Len(ledger) + k
    BY <1>4, <2>1, ConcatProperties DEF RunOK, LedgerOK
  <2>3. published' \in published .. Len(ledger')
    BY <1>4, <2>2 DEF RunOK, LedgerOK, Publishes
  <2>4. LedgerOK' /\ \A e \in Events : IsPublished(e) => IsPublished(e)'
    BY <1>4, <2>1, <2>3, LedgerGrows DEF RunOK
  <2>5. StoreOK' /\ SessionOK' /\ store'.poisoned
    BY <1>4 DEF RunOK, StoreOK, SessionOK, Poisoned
  <2> QED
    BY <1>4, <2>4, <2>5 DEF RunOK, FaultsOK, Kept
<1> QED
  BY <1>1, <1>2, <1>3, <1>4 DEF AppendEvents

-----------------------------------------------------------------------------
(* Type correctness: an append changes the run, every step its call.       *)
RestOK ==
  /\ coord \in [Sessions -> [captured : BOOLEAN, closed : BOOLEAN, status : {"OPEN", "CLOSED", "CLOSE_FAILED"}]]
  /\ queue \in [Sessions -> Seq(Calls)]
  /\ call \in [Calls -> CallStates]
  /\ used \subseteq Adapters
  /\ kernel \in 0 .. MaxKernel

Places == {"idle", "queued", "close-queued", "inspect", "lease", "clock", "admit", "verify-admission",
           "dispatch", "adapter", "inspect-start", "start", "verify-start", "reconcile", "pair",
           "verify-pair", "terminate", "termination", "verify-termination", "poison", "closing",
           "close-session", "answered"}

LEMMA TypeParts == TypeOK <=> RunOK /\ RestOK
BY DEF TypeOK, RunOK, LedgerOK, StoreOK, SessionOK, FaultsOK, RestOK

LEMMA TypePartsNext == TypeOK' <=> RunOK' /\ RestOK'
BY DEF TypeOK, RunOK, LedgerOK, StoreOK, SessionOK, FaultsOK, RestOK

(* A step that leaves the run alone takes nothing back.                    *)
LEMMA RunStays ==
  ASSUME RunOK, UNCHANGED <<runVars, faults>>
  PROVE  RunOK' /\ Kept
BY DEF RunOK, LedgerOK, StoreOK, SessionOK, FaultsOK, Kept, IsPublished, runVars

(* A call that goes to a place of the code is still a call.  The sets of   *)
(* its fields are kept folded: the provers need their members only.        *)
Observations == {"nothing", "not-started", "unknown", "exact", "mismatch"}
Answers == {"none", "FAILED", "MATCHED", "QUARANTINED", "CLOSE_ENDED", "COORDINATOR_CLOSED",
            "ADAPTER_ALREADY_USED"}
Custodies == {"none", "held", "taken", "destroyed"}

LEMMA CallSets ==
  CallStates = [pc : Places, session : Sessions \cup {None}, entered : BOOLEAN,
                observed : Observations, answer : Answers, custody : Custodies]
BY DEF CallStates, Places, Observations, Answers, Custodies

LEMMA Names ==
  /\ {"inspect", "answered", "closing", "adapter", "poison", "inspect-start", "pair", "terminate",
      "close-session", "queued", "close-queued"} \subseteq Places
  /\ {"not-started", "unknown", "exact", "mismatch"} \subseteq Observations
  /\ {"FAILED", "MATCHED", "QUARANTINED", "CLOSE_ENDED", "COORDINATOR_CLOSED", "ADAPTER_ALREADY_USED"}
      \subseteq Answers
  /\ {"held", "taken", "destroyed"} \subseteq Custodies
BY DEF Places, Observations, Answers, Custodies

LEMMA GoKeeps ==
  ASSUME RestOK, NEW c \in Calls, NEW pc \in Places, Go(c, pc)
  PROVE  call' \in [Calls -> CallStates]
BY CallSets DEF RestOK, Go

LEMMA LeaveKeeps ==
  ASSUME RestOK, NEW c \in Calls, NEW pc, At(c, pc), Leave(c)
  PROVE  queue' \in [Sessions -> Seq(Calls)]
<1>1. ASSUME NEW s \in Sessions PROVE queue'[s] \in Seq(Calls)
  <2>1. queue[s] \in Seq(Calls)
    BY DEF RestOK
  <2>2. CASE s = call[c].session
    <3>1. queue'[s] = Tail(queue[s]) /\ queue[s] # <<>>
      BY <2>2 DEF Leave, At, RestOK
    <3> QED
      BY <2>1, <3>1
  <2>3. CASE s # call[c].session
    BY <2>1, <2>3 DEF Leave, RestOK
  <2> QED
    BY <2>2, <2>3
<1> QED
  BY <1>1 DEF Leave, RestOK

LEMMA AppendStepKeeps ==
  ASSUME TypeOK, NEW c \in Calls, NEW es \in Seq(Events),
         NEW committed \in Places, NEW refused \in Places, AppendStep(c, es, committed, refused)
  PROVE  TypeOK' /\ Kept
<1>1. PICK result \in Results :
        /\ AppendEvents(call[c].session, es, result)
        /\ Go(c, CASE result = "COMMITTED" -> committed
                   [] result = "NOT_COMMITTED" -> refused
                   [] result = "OUTCOME_UNKNOWN" -> "poison")
  BY DEF AppendStep
<1>2. RunOK' /\ Kept
  BY <1>1, TypeParts, AppendKeeps
<1>3. \E pc \in Places : Go(c, pc)
  BY <1>1 DEF Results, Places
<1>4. RestOK'
  BY <1>3, TypeParts, GoKeeps DEF RestOK, AppendStep
<1> QED
  BY <1>2, <1>4, TypePartsNext

LEMMA VerifyStepKeeps ==
  ASSUME TypeOK, NEW c \in Calls, NEW exact, NEW next \in Places, VerifyStep(c, exact, next)
  PROVE  TypeOK' /\ Kept
<1>1. \E pc \in Places : Go(c, pc)
  BY DEF VerifyStep, Places
<1>2. RunOK' /\ Kept
  BY TypeParts, RunStays DEF VerifyStep
<1>3. RestOK'
  BY <1>1, TypeParts, GoKeeps DEF RestOK, VerifyStep
<1> QED
  BY <1>2, <1>3, TypePartsNext

(* The events the code appends are events.                                 *)
LEMMA Lines ==
  ASSUME NEW c \in Calls \cup {None}
  PROVE  /\ \A type \in {"stopped", "late", "lease", "clock", "admitted", "started", "rejected",
                        "quarantined", "terminated"} :
              Event(type, c) \in Events /\ <<Event(type, c)>> \in Seq(Events)
         /\ Pair(c) \in Seq(Events)
BY DEF Event, Events, Pair

(* Every step of a call keeps the types and takes nothing back.            *)
LEMMA StepKeeps ==
  ASSUME TypeOK, NEW c \in Calls, Step(c)
  PROVE  TypeOK' /\ Kept
<1> USE CoordinatorAssumption
<1>0. RunOK /\ RestOK
  BY TypeParts
<1>1. CASE Begin(c)
  <2>1. call' \in [Calls -> CallStates]
    <3>1. PICK pc \in {"inspect", "answered", "closing"},
               answer \in {"FAILED", "CLOSE_ENDED", "COORDINATOR_CLOSED"} :
            call' = [call EXCEPT ![c].pc = pc, ![c].answer = answer]
      BY <1>1 DEF Begin, Fail
    <3>2. pc \in Places /\ answer \in Answers
      BY <3>1, Names
    <3> QED
      BY <1>0, <3>1, <3>2, CallSets, ZenonT(60) DEF RestOK
  <2>2. queue' \in [Sessions -> Seq(Calls)]
    BY <1>0, <1>1, LeaveKeeps DEF Begin, RestOK
  <2>3. RestOK'
    BY <1>0, <1>1, <2>1, <2>2 DEF Begin, RestOK
  <2> QED
    BY <1>0, <1>1, <2>3, RunStays, TypePartsNext DEF Begin
<1>2. CASE InspectForAdmission(c)
  <2>1. RestOK'
    BY <1>0, <1>2, GoKeeps DEF InspectForAdmission, RestOK, Places
  <2> QED
    BY <1>0, <1>2, <2>1, RunStays, TypePartsNext DEF InspectForAdmission
<1>3. CASE AppendLease(c) \/ AppendClock(c) \/ AppendAdmission(c) \/ AppendStart(c)
           \/ AppendPair(c) \/ AppendTermination(c)
  BY <1>3, Lines, AppendStepKeeps
     DEF AppendLease, AppendClock, AppendAdmission, AppendStart, AppendPair, AppendTermination, Places
<1>4. CASE VerifyAdmission(c) \/ InspectForStart(c) \/ VerifyStart(c) \/ VerifyTermination(c)
  BY <1>4, VerifyStepKeeps DEF VerifyAdmission, InspectForStart, VerifyStart, VerifyTermination, Places
<1>5. CASE Dispatch(c)
  <2>1. call' \in [Calls -> CallStates]
    <3>1. CASE call' = [call EXCEPT ![c].pc = "adapter", ![c].entered = TRUE]
      BY <1>0, <3>1, CallSets, Names, ZenonT(60) DEF RestOK
    <3>2. CASE Go(c, "closing") \/ Go(c, "poison")
      BY <1>0, <3>2, GoKeeps, Names
    <3> QED
      BY <1>5, <3>1, <3>2 DEF Dispatch
  <2>2. RestOK'
    BY <1>0, <1>5, <2>1 DEF Dispatch, RestOK
  <2> QED
    BY <1>0, <1>5, <2>2, RunStays, TypePartsNext DEF Dispatch
<1>6. CASE AdapterReturns(c)
  <2>1. call' \in [Calls -> CallStates]
    <3>1. PICK o \in {"not-started", "unknown", "exact", "mismatch"},
               pc \in {"closing", "poison", "inspect-start"} :
            call' = [call EXCEPT ![c].observed = o, ![c].pc = pc]
      BY <1>6 DEF AdapterReturns
    <3>2. pc \in Places /\ o \in Observations
      BY <3>1, Names
    <3> QED
      BY <1>0, <3>1, <3>2, CallSets, ZenonT(60) DEF RestOK
  <2>2. RestOK'
    BY <1>0, <1>6, <2>1 DEF AdapterReturns, RestOK
  <2> QED
    BY <1>0, <1>6, <2>2, RunStays, TypePartsNext DEF AdapterReturns
<1>7. CASE Reconcile(c)
  <2>1. call' \in [Calls -> CallStates]
    <3>1. CASE call' = [call EXCEPT ![c].pc = "answered", ![c].answer = "MATCHED", ![c].custody = "held"]
      BY <1>0, <3>1, CallSets, Names, ZenonT(60) DEF RestOK
    <3>2. CASE Go(c, "pair") \/ Go(c, "poison")
      BY <1>0, <3>2, GoKeeps, Names
    <3> QED
      BY <1>7, <3>1, <3>2 DEF Reconcile
  <2>2. queue' \in [Sessions -> Seq(Calls)]
    BY <1>0, <1>7, LeaveKeeps DEF Reconcile, RestOK
  <2>3. RestOK'
    BY <1>0, <1>7, <2>1, <2>2 DEF Reconcile, RestOK
  <2> QED
    BY <1>0, <1>7, <2>3, RunStays, TypePartsNext DEF Reconcile
<1>8. CASE VerifyPair(c)
  <2>1. call' \in [Calls -> CallStates]
    BY <1>0, <1>8, CallSets, Names, ZenonT(60) DEF VerifyPair, RestOK
  <2>2. RestOK'
    BY <1>0, <1>8, <2>1 DEF VerifyPair, RestOK
  <2> QED
    BY <1>0, <1>8, <2>2, RunStays, TypePartsNext DEF VerifyPair
<1>9. CASE Terminate(c)
  <2>1. RestOK'
    BY <1>0, <1>9, GoKeeps DEF Terminate, RestOK, Places
  <2> QED
    BY <1>0, <1>9, <2>1, RunStays, TypePartsNext DEF Terminate
<1>10. CASE Poison(c)
  <2>1. RestOK'
    BY <1>0, <1>10, GoKeeps DEF Poison, RestOK, Places
  <2>2. RunOK' /\ Kept
    BY <1>0, <1>10 DEF Poison, Poisoned, RunOK, LedgerOK, StoreOK, SessionOK, FaultsOK, Kept, IsPublished
  <2> QED
    BY <2>1, <2>2, TypePartsNext
<1>11. CASE CloseState(c)
  <2>1. call' \in [Calls -> CallStates]
    BY <1>0, <1>11, CallSets, Names, ZenonT(60) DEF CloseState, DestroyCustodies, RestOK
  <2>2. RestOK'
    BY <1>0, <1>11, <2>1 DEF CloseState, RestOK
  <2> QED
    BY <1>0, <1>11, <2>2, RunStays, TypePartsNext DEF CloseState
<1>12. CASE CloseSession(c)
  <2>1. call' \in [Calls -> CallStates] /\ queue' \in [Sessions -> Seq(Calls)]
    BY <1>0, <1>12, GoKeeps, LeaveKeeps DEF CloseSession, Places
  <2>2. RestOK'
    BY <1>0, <1>12, <2>1, ZenonT(60) DEF CloseSession, RestOK
  <2>3. StoreOK' /\ (store.poisoned => store'.poisoned)
    BY <1>0, <1>12 DEF CloseSession, HolderAfterClose, RunOK, StoreOK
  <2>4. SessionOK'
    BY <1>0, <1>12 DEF CloseSession, RunOK, SessionOK
  <2>5. LedgerOK' /\ FaultsOK' /\ \A e \in Events : IsPublished(e) => IsPublished(e)'
    BY <1>0, <1>12 DEF CloseSession, RunOK, LedgerOK, FaultsOK, IsPublished
  <2> QED
    BY <2>2, <2>3, <2>4, <2>5, TypePartsNext DEF RunOK, Kept
<1> QED
  BY <1>1, <1>2, <1>3, <1>4, <1>5, <1>6, <1>7, <1>8, <1>9, <1>10, <1>11, <1>12 DEF Step

LEMMA NextKeeps ==
  ASSUME TypeOK, [Next]_vars
  PROVE  TypeOK' /\ Kept
<1> USE CoordinatorAssumption
<1>0. RunOK /\ RestOK
  BY TypeParts
<1>1. ASSUME NEW s \in Sessions, Open(s) PROVE TypeOK' /\ Kept
  <2>1. RunOK' /\ Kept
    BY <1>0, <1>1 DEF Open, RunOK, LedgerOK, StoreOK, SessionOK, FaultsOK, Kept, IsPublished
  <2>2. RestOK'
    BY <1>0, <1>1 DEF Open, RestOK
  <2> QED
    BY <2>1, <2>2, TypePartsNext
<1>2. ASSUME NEW s \in Sessions, Capture(s) PROVE TypeOK' /\ Kept
  <2>1. RestOK'
    BY <1>0, <1>2 DEF Capture, RestOK
  <2> QED
    BY <1>0, <1>2, <2>1, RunStays, TypePartsNext DEF Capture
<1>3. ASSUME NEW s \in Sessions, Kernel(s) PROVE TypeOK' /\ Kept
  <2>1. PICK es \in Seq(Events), result \in Results : AppendEvents(s, es, result)
    BY <1>3, Lines DEF Kernel
  <2>2. RestOK'
    BY <1>0, <1>3 DEF Kernel, RestOK
  <2> QED
    BY <1>0, <2>1, <2>2, AppendKeeps, TypePartsNext
<1>4. ASSUME NEW c \in Calls, NEW s \in Sessions, RequestClose(c, s) PROVE TypeOK' /\ Kept
  <2>1. call' \in [Calls -> CallStates]
    BY <1>0, <1>4, CallSets, Names, ZenonT(60) DEF RequestClose, RestOK
  <2>2. RestOK'
    BY <1>0, <1>4, <2>1 DEF RequestClose, RestOK
  <2> QED
    BY <1>0, <1>4, <2>2, RunStays, TypePartsNext DEF RequestClose
<1>5. ASSUME NEW c \in Calls, NEW s \in Sessions, NEW a \in Adapters, Coordinate(c, s, a)
      PROVE  TypeOK' /\ Kept
  <2>1. call' \in [Calls -> CallStates]
    <3>1. CASE call' = [call EXCEPT ![c].pc = "queued", ![c].session = s]
      BY <1>0, <3>1, CallSets, Names, ZenonT(60) DEF RestOK
    <3>2. ASSUME NEW answer \in {"COORDINATOR_CLOSED", "ADAPTER_ALREADY_USED"},
                 call' = [call EXCEPT ![c].pc = "answered", ![c].session = s, ![c].answer = answer]
          PROVE  call' \in [Calls -> CallStates]
      BY <1>0, <3>2, CallSets, Names, ZenonT(60) DEF RestOK
    <3> QED
      BY <1>5, <3>1, <3>2 DEF Coordinate
  <2>2. queue' \in [Sessions -> Seq(Calls)]
    <3>1. CASE queue' = [queue EXCEPT ![s] = Append(@, c)]
      BY <1>0, <3>1 DEF RestOK
    <3> QED
      BY <1>0, <1>5, <3>1 DEF Coordinate, RestOK
  <2>3. used' \subseteq Adapters
    BY <1>0, <1>5 DEF Coordinate, RestOK
  <2>4. RestOK'
    BY <1>0, <1>5, <2>1, <2>2, <2>3 DEF Coordinate, RestOK
  <2> QED
    BY <1>0, <1>5, <2>4, RunStays, TypePartsNext DEF Coordinate
<1>6. ASSUME NEW c \in Calls, Take(c) PROVE TypeOK' /\ Kept
  <2>1. call' \in [Calls -> CallStates]
    <3>1. PICK end \in {"taken", "destroyed"} : call' = [call EXCEPT ![c].custody = end]
      BY <1>6 DEF Take
    <3> QED
      BY <1>0, <3>1, CallSets, Names DEF RestOK
  <2>2. RestOK'
    BY <1>0, <1>6, <2>1 DEF Take, RestOK
  <2> QED
    BY <1>0, <1>6, <2>2, RunStays, TypePartsNext DEF Take
<1>7. CASE UNCHANGED vars
  BY <1>0, <1>7, RunStays, TypePartsNext DEF vars, RestOK
<1> QED
  BY <1>1, <1>2, <1>3, <1>4, <1>5, <1>6, <1>7, StepKeeps DEF Next

(* For all constants, the model keeps its types.                           *)
THEOREM CoordinatorTypeCorrect == Spec => []TypeOK
<1>1. Init => TypeOK
  BY CoordinatorAssumption
     DEF Init, TypeOK, IdleCall, CallStates, Events
<1>2. TypeOK /\ [Next]_vars => TypeOK'
  BY NextKeeps
<1> QED
  BY <1>1, <1>2, PTL DEF Spec

-----------------------------------------------------------------------------
(* What was recorded stays recorded, and what a call has come to stays     *)
(* true of it until it moves.                                              *)
LEMMA RecordStays ==
  ASSUME TypeOK, Kept, NEW c \in Calls
  PROVE  /\ IsPublished(Event("started", c)) => IsPublished(Event("started", c))'
         /\ Recorded(c) /\ call'[c].observed = call[c].observed => Recorded(c)'
BY Lines DEF Kept, Recorded

LEMMA ProgressStays ==
  ASSUME TypeOK, Kept, NEW c \in Calls, Progress(c), call'[c].pc = call[c].pc,
         call'[c].entered = call[c].entered, call'[c].observed = call[c].observed
  PROVE  Progress(c)'
BY RecordStays DEF Kept, Progress, NotEntered

(* A readback of the end of the ledger shows what it ends with, published. *)
LEMMA TailShows ==
  ASSUME TypeOK, NEW s, NEW e \in Events, TailIs(s, <<e>>)
  PROVE  IsPublished(e)
<1>1. Len(ledger) \in Nat /\ Len(ledger) >= 1 /\ published = Len(ledger) /\ Len(<<e>>) = 1
  BY DEF TypeOK, TailIs
<1>2. SubSeq(ledger, Len(ledger), Len(ledger)) = <<e>>
  BY <1>1 DEF TailIs
<1>3. SubSeq(ledger, Len(ledger), Len(ledger))[1] = ledger[Len(ledger)]
  BY <1>1 DEF TypeOK
<1> QED
  BY <1>1, <1>2, <1>3 DEF IsPublished

LEMMA PairShows ==
  ASSUME TypeOK, NEW s, NEW c \in Calls, TailIs(s, Pair(c))
  PROVE  IsPublished(Event("quarantined", c))
<1>1. Len(ledger) \in Nat /\ Len(ledger) >= 2 /\ published = Len(ledger) /\ Len(Pair(c)) = 2
  BY DEF TypeOK, TailIs, Pair
<1>2. SubSeq(ledger, Len(ledger) - 1, Len(ledger)) = Pair(c)
  BY <1>1 DEF TailIs
<1>3. SubSeq(ledger, Len(ledger) - 1, Len(ledger))[2] = ledger[Len(ledger)]
  BY <1>1 DEF TypeOK
<1>4. ledger[Len(ledger)] = Event("quarantined", c)
  <2>1. Pair(c)[2] = Event("quarantined", c)
    BY DEF Pair
  <2> QED
    BY <1>2, <1>3, <2>1
<1> QED
  BY <1>1, <1>4 DEF IsPublished

(* A call moves when only its place changes.                               *)
Moves(c, places) ==
  /\ call'[c].pc \in places
  /\ call'[c].entered = call[c].entered /\ call'[c].observed = call[c].observed

(* What a step of c does to c and to the others.                           *)
LEMMA Others ==
  ASSUME TypeOK, NEW c \in Calls, Step(c), NEW d \in Calls, d # c
  PROVE  /\ call'[d].pc = call[d].pc /\ call'[d].entered = call[d].entered
         /\ call'[d].observed = call[d].observed
<1>1. CASE CloseState(c)
  BY <1>1, CallSets, ZenonT(60) DEF TypeOK, CloseState, DestroyCustodies
<1>2. CASE call'[d] = call[d]
  BY <1>2
<1>3. ~CloseState(c) => call'[d] = call[d]
  BY DEF TypeOK, Step, Begin, InspectForAdmission, AppendLease, AppendClock, AppendAdmission, VerifyAdmission,
         Dispatch, AdapterReturns, InspectForStart, AppendStart, VerifyStart, Reconcile, AppendPair, VerifyPair,
         Terminate, AppendTermination, VerifyTermination, Poison, CloseSession, AppendStep, VerifyStep, Go, Fail
<1> QED
  BY <1>1, <1>2, <1>3

LEMMA GoMoves ==
  ASSUME TypeOK, NEW c \in Calls, NEW pc, Go(c, pc)
  PROVE  Moves(c, {pc})
BY CallSets DEF TypeOK, Go, Moves

LEMMA AppendMoves ==
  ASSUME TypeOK, NEW c \in Calls, NEW es, NEW committed, NEW refused, AppendStep(c, es, committed, refused)
  PROVE  Moves(c, {committed, refused, "poison"})
<1>1. \E pc \in {committed, refused, "poison"} : Go(c, pc)
  BY DEF AppendStep, Results
<1> QED
  BY <1>1, GoMoves DEF Moves

LEMMA VerifyMoves ==
  ASSUME TypeOK, NEW c \in Calls, NEW exact, NEW next, VerifyStep(c, exact, next)
  PROVE  Moves(c, {next, "poison"})
BY GoMoves DEF VerifyStep, Moves

(* A call at its adapter, or about to record its start or to poison, has   *)
(* nothing to show; nor has one that entered no adapter.                   *)
LEMMA NothingToShow ==
  ASSUME NEW c \in Calls,
         \/ call'[c].pc \in {"adapter", "inspect-start", "start", "verify-start", "poison"}
         \/ /\ ~call'[c].entered
            /\ call'[c].pc \notin {"reconcile", "pair", "verify-pair", "terminate", "termination",
                                   "verify-termination"}
  PROVE  Progress(c)'
BY DEF Progress, NotEntered

(* A call whose effect is on record may end, or go on to record its        *)
(* termination.                                                            *)
LEMMA RecordedMoves ==
  ASSUME NEW c \in Calls, Recorded(c)',
         call'[c].pc \in {"terminate", "termination", "verify-termination", "closing", "close-session",
                         "answered", "poison"}
  PROVE  Progress(c)'
BY DEF Progress, NotEntered

LEMMA StepProgress ==
  ASSUME TypeOK, Kept, NEW c \in Calls, Progress(c), Step(c)
  PROVE  Progress(c)'
<1>1. CASE Begin(c)
  <2>1. /\ call[c].pc \in {"queued", "close-queued"}
        /\ call'[c].pc \in {"inspect", "closing", "answered"} /\ call'[c].entered = call[c].entered
    BY <1>1, CallSets DEF TypeOK, Begin, At, Fail
  <2> QED
    BY <2>1, NothingToShow DEF Progress, NotEntered
<1>2. CASE InspectForAdmission(c)
  <2>1. call[c].pc = "inspect" /\ Moves(c, {"lease", "closing"})
    BY <1>2, GoMoves DEF InspectForAdmission, At, Moves
  <2> QED
    BY <2>1, NothingToShow DEF Progress, NotEntered, Moves
<1>3. CASE AppendLease(c) \/ AppendClock(c) \/ AppendAdmission(c)
  <2>1. /\ call[c].pc \in {"lease", "clock", "admit"}
        /\ Moves(c, {"clock", "closing", "admit", "verify-admission", "poison"})
    BY <1>3, AppendMoves DEF AppendLease, AppendClock, AppendAdmission, At, Moves
  <2> QED
    BY <2>1, NothingToShow DEF Progress, NotEntered, Moves
<1>4. CASE VerifyAdmission(c)
  <2>1. call[c].pc = "verify-admission" /\ Moves(c, {"dispatch", "poison"})
    BY <1>4, VerifyMoves DEF VerifyAdmission, At
  <2> QED
    BY <2>1, NothingToShow DEF Progress, NotEntered, Moves
<1>5. CASE Dispatch(c)
  <2>1. call[c].pc = "dispatch"
    BY <1>5 DEF Dispatch, At
  <2>2. call'[c].pc \in {"adapter", "poison"} \/ Moves(c, {"closing"})
    BY <1>5, GoMoves, CallSets DEF Dispatch, TypeOK, Moves
  <2> QED
    BY <2>1, <2>2, NothingToShow DEF Progress, NotEntered, Moves
<1>6. CASE AdapterReturns(c)
  <2>1. \/ call'[c].pc \in {"poison", "inspect-start"}
        \/ call'[c].pc = "closing" /\ call'[c].observed = "not-started"
    BY <1>6, CallSets DEF AdapterReturns, TypeOK
  <2> QED
    BY <2>1, NothingToShow DEF Progress, NotEntered
<1>7. CASE InspectForStart(c) \/ AppendStart(c)
  <2>1. Moves(c, {"start", "verify-start", "poison"})
    BY <1>7, AppendMoves, VerifyMoves DEF InspectForStart, AppendStart, Moves
  <2> QED
    BY <2>1, NothingToShow DEF Moves
<1>8. CASE VerifyStart(c)
  <2>1. CASE TailIs(call[c].session, <<Event("started", c)>>)
    <3>1. IsPublished(Event("started", c))'
      BY <2>1, TailShows, RecordStays, Lines
    <3>2. Moves(c, {"reconcile", "poison"})
      BY <1>8, VerifyMoves DEF VerifyStart
    <3> QED
      BY <3>1, <3>2 DEF Moves, Progress, NotEntered
  <2>2. CASE ~TailIs(call[c].session, <<Event("started", c)>>)
    <3>1. Moves(c, {"poison"})
      BY <1>8, <2>2, GoMoves DEF VerifyStart, VerifyStep
    <3> QED
      BY <3>1, NothingToShow DEF Moves
  <2> QED
    BY <2>1, <2>2
<1>9. CASE Reconcile(c)
  <2>1. IsPublished(Event("started", c))'
    BY <1>9, RecordStays DEF Reconcile, At, Progress
  <2>2. CASE /\ call[c].observed = "exact"
             /\ call' = [call EXCEPT ![c].pc = "answered", ![c].answer = "MATCHED", ![c].custody = "held"]
    <3>1. call'[c].pc = "answered" /\ call'[c].observed = "exact"
      BY <2>2, CallSets DEF TypeOK
    <3> QED
      BY <2>1, <3>1, RecordedMoves DEF Recorded
  <2>3. CASE Go(c, "pair") \/ Go(c, "poison")
    <3>1. call'[c].pc \in {"pair", "poison"}
      BY <2>3, GoMoves DEF Moves
    <3> QED
      BY <2>1, <3>1 DEF Progress, NotEntered
  <2> QED
    BY <1>9, <2>2, <2>3 DEF Reconcile
<1>10. CASE AppendPair(c)
  <2>1. IsPublished(Event("started", c))'
    BY <1>10, RecordStays DEF AppendPair, At, Progress
  <2>2. Moves(c, {"verify-pair", "poison"})
    BY <1>10, AppendMoves DEF AppendPair, Moves
  <2> QED
    BY <2>1, <2>2 DEF Progress, NotEntered, Moves
<1>11. CASE VerifyPair(c)
  <2>1. IsPublished(Event("started", c))'
    BY <1>11, RecordStays DEF VerifyPair, At, Progress
  <2>2. CASE TailIs(call[c].session, Pair(c))
    <3>1. IsPublished(Event("quarantined", c))
      BY <2>2, PairShows
    <3>2. IsPublished(Event("quarantined", c))'
      BY <3>1, Lines DEF Kept
    <3>3. call'[c].pc = "terminate"
      BY <1>11, <2>2, CallSets DEF VerifyPair, TypeOK
    <3> QED
      BY <2>1, <3>2, <3>3, RecordedMoves DEF Recorded
  <2>3. CASE ~TailIs(call[c].session, Pair(c))
    <3>1. call'[c].pc = "poison"
      BY <1>11, <2>3, CallSets DEF VerifyPair, TypeOK
    <3> QED
      BY <3>1, NothingToShow
  <2> QED
    BY <2>2, <2>3
<1>12. CASE Terminate(c) \/ AppendTermination(c) \/ VerifyTermination(c)
  <2>1. /\ call[c].pc \in {"terminate", "termination", "verify-termination"}
        /\ Moves(c, {"termination", "verify-termination", "closing", "poison"})
    BY <1>12, GoMoves, AppendMoves, VerifyMoves DEF Terminate, AppendTermination, VerifyTermination, At, Moves
  <2>2. Recorded(c)'
    BY <2>1, RecordStays DEF Progress, Moves
  <2> QED
    BY <2>1, <2>2, RecordedMoves DEF Moves
<1>13. CASE Poison(c)
  <2>1. store'.poisoned /\ Moves(c, {"closing"})
    BY <1>13, GoMoves DEF Poison, Poisoned, TypeOK
  <2> QED
    BY <2>1 DEF Progress, NotEntered, Moves
<1>14. CASE CloseState(c) \/ CloseSession(c)
  <2>1. call[c].pc \in {"closing", "close-session"} /\ Moves(c, {"close-session", "answered"})
    <3>1. CASE CloseState(c)
      BY <3>1, CallSets DEF CloseState, DestroyCustodies, At, TypeOK, Moves
    <3>2. CASE CloseSession(c)
      BY <3>2, GoMoves DEF CloseSession, At, Moves
    <3> QED
      BY <1>14, <3>1, <3>2
  <2>2. (Recorded(c) => Recorded(c)') /\ (store.poisoned => store'.poisoned)
    BY <2>1, RecordStays DEF Kept, Moves
  <2> QED
    BY <2>1, <2>2 DEF Progress, NotEntered, Moves
<1> QED
  BY <1>1, <1>2, <1>3, <1>4, <1>5, <1>6, <1>7, <1>8, <1>9, <1>10, <1>11, <1>12, <1>13, <1>14 DEF Step

LEMMA NextProgress ==
  ASSUME RecordInv, [Next]_vars, NEW d \in Calls
  PROVE  Progress(d)'
<1>0. TypeOK /\ Progress(d) /\ Kept
  BY NextKeeps DEF RecordInv
<1>1. CASE \E c \in Calls : Step(c)
  BY <1>0, <1>1, StepProgress, Others, ProgressStays
<1>2. ASSUME NEW c \in Calls, NEW s \in Sessions, RequestClose(c, s) PROVE Progress(d)'
  <2>1. CASE c = d
    <3>1. call[c].pc = "idle" /\ call'[c].pc = "close-queued" /\ call'[c].entered = call[c].entered
      BY <1>0, <1>2, CallSets DEF RequestClose, TypeOK
    <3> QED
      BY <1>0, <2>1, <3>1, NothingToShow DEF Progress, NotEntered
  <2>2. CASE c # d
    BY <1>0, <1>2, <2>2, ProgressStays DEF RequestClose, TypeOK
  <2> QED
    BY <2>1, <2>2
<1>3. ASSUME NEW c \in Calls, NEW s \in Sessions, NEW a \in Adapters, Coordinate(c, s, a) PROVE Progress(d)'
  <2>1. CASE c = d
    <3>1. call[c].pc = "idle" /\ call'[c].pc \in {"answered", "queued"} /\ call'[c].entered = call[c].entered
      BY <1>0, <1>3, CallSets DEF Coordinate, TypeOK
    <3> QED
      BY <1>0, <2>1, <3>1, NothingToShow DEF Progress, NotEntered
  <2>2. CASE c # d
    BY <1>0, <1>3, <2>2, ProgressStays DEF Coordinate, TypeOK
  <2> QED
    BY <2>1, <2>2
<1>4. ASSUME NEW c \in Calls, Take(c) PROVE Progress(d)'
  <2>1. /\ call'[d].pc = call[d].pc /\ call'[d].entered = call[d].entered
        /\ call'[d].observed = call[d].observed
    BY <1>0, <1>4, CallSets DEF Take, TypeOK
  <2> QED
    BY <1>0, <2>1, ProgressStays
<1>5. CASE (\E s \in Sessions : Open(s) \/ Capture(s) \/ Kernel(s)) \/ UNCHANGED vars
  BY <1>0, <1>5, ProgressStays DEF Open, Capture, Kernel, vars
<1> QED
  BY <1>1, <1>2, <1>3, <1>4, <1>5 DEF Next

(* For all constants: an effect that was handed to its adapter, and may    *)
(* have started, is on the published ledger with its outcome when its call *)
(* is answered, or the store takes no further event.                       *)
THEOREM EffectsRecorded == Spec => []EffectsAreRecorded
<1>1. Init => RecordInv
  <2>1. Init => TypeOK
    BY CoordinatorAssumption DEF Init, TypeOK, IdleCall, CallStates, Events
  <2>2. Init => \A c \in Calls : Progress(c)
    BY DEF Init, IdleCall, Progress, NotEntered
  <2> QED
    BY <2>1, <2>2 DEF RecordInv
<1>2. RecordInv /\ [Next]_vars => RecordInv'
  BY NextKeeps, NextProgress DEF RecordInv
<1>3. RecordInv => EffectsAreRecorded
  BY DEF RecordInv, Progress, EffectsAreRecorded, Answered
<1> QED
  BY <1>1, <1>2, <1>3, PTL DEF Spec

-----------------------------------------------------------------------------
(* The order of the ledger's lines, and of the calls of a coordinator.     *)

(* A rejected observation is followed by its quarantine, unless it is the  *)
(* last line; and what is published does not end between the two.          *)
PairInv ==
  /\ LedgerOK
  /\ \A i \in 1 .. Len(ledger) - 1 :
       ledger[i].type = "rejected" => ledger[i + 1] = Event("quarantined", ledger[i].call)
  /\ published > 0 => ledger[published].type # "rejected"

(* The code appends single events of other types, and pairs.               *)
Apart(es) ==
  \/ \E c \in Calls \cup {None} : es = Pair(c)
  \/ \E e \in Events : es = <<e>> /\ e.type \notin {"rejected", "quarantined"}

(* What the code appends begins no quarantine and ends in no rejection.    *)
LEMMA ApartLines ==
  ASSUME NEW es, Apart(es)
  PROVE  /\ es \in Seq(Events) /\ Len(es) \in {1, 2}
         /\ es[1].type # "quarantined" /\ es[Len(es)].type # "rejected"
         /\ es[1].type = "rejected" => Len(es) = 2 /\ es[2] = Event("quarantined", es[1].call)
<1>1. ASSUME NEW c \in Calls \cup {None}, es = Pair(c) PROVE
         /\ es \in Seq(Events) /\ Len(es) = 2
         /\ es[1] = Event("rejected", c) /\ es[2] = Event("quarantined", c)
  BY <1>1, Lines DEF Pair
<1>2. ASSUME NEW c \in Calls \cup {None}
      PROVE  Event("rejected", c).type = "rejected" /\ Event("rejected", c).call = c /\ Event("quarantined", c).type = "quarantined"
  BY DEF Event
<1>3. CASE \E c \in Calls \cup {None} : es = Pair(c)
  BY <1>1, <1>2, <1>3
<1>4. ASSUME NEW e \in Events, es = <<e>>, e.type \notin {"rejected", "quarantined"}
      PROVE  es \in Seq(Events) /\ Len(es) = 1 /\ es[1] = e
  BY <1>4
<1>5. CASE \E e \in Events : es = <<e>> /\ e.type \notin {"rejected", "quarantined"}
  BY <1>4, <1>5
<1> QED BY <1>3, <1>5 DEF Apart

(* Nothing is accepted behind a rejected observation but its quarantine.   *)
LEMMA NothingAfterRejected ==
  ASSUME LedgerOK, NEW es, Apart(es), AcceptsAll(ledger, es)
  PROVE  ledger # <<>> => ledger[Len(ledger)].type # "rejected"
<1>1. 1 \in DOMAIN es /\ es[1].type # "quarantined" /\ es \in Seq(Events)
  BY ApartLines
<1>2. Accepts(ledger \o SubSeq(es, 1, 1 - 1), es[1])
  BY <1>1 DEF AcceptsAll
<1>3. SubSeq(es, 1, 1 - 1) = <<>>
  BY <1>1
<1>4. ledger \o SubSeq(es, 1, 1 - 1) = ledger
  BY <1>3 DEF LedgerOK
<1> QED BY <1>1, <1>2, <1>4 DEF Accepts, Required

(* Lines that are added keep the pairs together.                           *)
LEMMA PairsGrow ==
  ASSUME PairInv, NEW es, Apart(es), NEW k \in 0 .. Len(es), ledger # <<>> => ledger[Len(ledger)].type # "rejected",
         ledger' = ledger \o SubSeq(es, 1, k),
         published' = published \/ (k = Len(es) /\ published' = Len(ledger'))
  PROVE  PairInv'
<1> DEFINE n == Len(ledger)
           new == SubSeq(es, 1, k)
<1>1. es \in Seq(Events) /\ Len(es) \in {1, 2} /\ n \in Nat
  BY ApartLines DEF PairInv, LedgerOK
<1>2. new \in Seq(Events) /\ Len(new) = k /\ \A i \in 1 .. k : new[i] = es[i]
  BY <1>1
<1>3. /\ ledger' \in Seq(Events) /\ Len(ledger') = n + k
      /\ \A i \in 1 .. n : ledger'[i] = ledger[i]
      /\ \A i \in 1 .. k : ledger'[n + i] = es[i]
  <2>1. /\ ledger' \in Seq(Events) /\ Len(ledger') = n + k
        /\ \A i \in 1 .. n : ledger'[i] = ledger[i]
    BY <1>1, <1>2, ConcatProperties DEF PairInv, LedgerOK
  <2>2. ASSUME NEW i \in 1 .. k PROVE ledger'[n + i] = es[i]
    <3>1. (ledger \o new)[n + i] = new[i]
      BY <1>1, <1>2 DEF PairInv, LedgerOK
    <3> QED BY <1>2, <3>1
  <2> QED BY <2>1, <2>2
<1>4. LedgerOK'
  BY <1>1, <1>3 DEF PairInv, LedgerOK
<1>5. ASSUME NEW i \in 1 .. Len(ledger') - 1, ledger'[i].type = "rejected"
      PROVE  ledger'[i + 1] = Event("quarantined", ledger'[i].call)
  <2>1. CASE i < n
    BY <1>1, <1>3, <1>5, <2>1 DEF PairInv
  <2>2. CASE i = n
    <3>1. ledger # <<>> /\ ledger'[i] = ledger[n]
      BY <1>1, <1>3, <2>2 DEF PairInv, LedgerOK
    <3> QED BY <1>5, <2>2, <3>1
  <2>3. CASE i > n
    <3>0. i \in 1 .. n + k - 1 /\ k \in 0 .. Len(es)
      BY <1>3
    <3>1. i = n + 1 /\ k = 2 /\ Len(es) = 2
      <4>. DEFINE len == Len(es)
      <4>1. len \in {1, 2} /\ n \in Nat /\ i \in 1 .. n + k - 1 /\ k \in 0 .. len /\ i > n
        BY <1>1, <2>3, <3>0
      <4>. HIDE DEF len, n
      <4>2. i = n + 1 /\ k = 2 /\ len = 2
        BY <4>1
      <4> QED BY <4>2 DEF len
    <3>2. ledger'[i] = es[1] /\ ledger'[i + 1] = es[2]
      BY <1>1, <1>3, <3>1
    <3> QED BY <1>5, <3>2, ApartLines
  <2> QED BY <1>1, <1>3, <2>1, <2>2, <2>3
<1>6. published' > 0 => ledger'[published'].type # "rejected"
  <2>1. CASE published' = published
    BY <1>1, <1>3, <2>1 DEF PairInv, LedgerOK
  <2>2. CASE k = Len(es) /\ published' = Len(ledger')
    <3>1. k \in {1, 2} /\ k = Len(es)
      BY <1>1, <2>2
    <3>2. published' = n + k
      BY <1>3, <2>2
    <3>3. ledger'[n + k] = es[k]
      BY <1>3, <3>1
    <3> QED BY <3>1, <3>2, <3>3, ApartLines
  <2> QED BY <2>1, <2>2
<1> QED BY <1>4, <1>5, <1>6 DEF PairInv

(* Whatever becomes of an append, the pairs stay together.                 *)
LEMMA AppendPairs ==
  ASSUME PairInv, NEW s, NEW es, Apart(es), NEW result, AppendEvents(s, es, result)
  PROVE  PairInv'
<1>0. es \in Seq(Events) /\ Len(es) \in {1, 2}
  BY ApartLines
<1>1. CASE UNCHANGED <<ledger, published>>
  BY <1>1 DEF PairInv, LedgerOK
<1>2. CASE AcceptsAll(ledger, es) /\ ledger' = ledger \o es /\ published' = Len(ledger')
  <2>1. SubSeq(es, 1, Len(es)) = es /\ Len(es) \in 0 .. Len(es)
    BY <1>0
  <2>2. ledger # <<>> => ledger[Len(ledger)].type # "rejected"
    BY <1>2, NothingAfterRejected DEF PairInv
  <2>3. ledger' = ledger \o SubSeq(es, 1, Len(es))
    BY <1>2, <2>1
  <2> QED BY <1>2, <2>1, <2>2, <2>3, PairsGrow
<1>3. ASSUME AcceptsAll(ledger, es), NEW k \in 0 .. Len(es), ledger' = ledger \o SubSeq(es, 1, k),
             published' \in Publishes(k, Len(es))
      PROVE  PairInv'
  <2>1. published' = published \/ (k = Len(es) /\ published' = Len(ledger'))
    <3>1. Len(ledger') = Len(ledger) + k
      BY <1>0, <1>3 DEF PairInv, LedgerOK
    <3> QED BY <1>3, <3>1 DEF Publishes
  <2> QED BY <1>3, <2>1, PairsGrow, NothingAfterRejected DEF PairInv
<1> QED BY <1>1, <1>2, <1>3 DEF AppendEvents, runVars

(* Whoever appends, and whatever becomes of it, the pairs stay together.   *)
LEMMA NextPairs ==
  ASSUME PairInv, [Next]_vars
  PROVE  PairInv'
<1>1. CASE UNCHANGED <<ledger, published>>
  BY <1>1 DEF PairInv, LedgerOK
<1>2. ASSUME NEW c \in Calls \cup {None},
             NEW type \in {"stopped", "late", "lease", "clock", "admitted", "started", "terminated"}
      PROVE  Apart(<<Event(type, c)>>)
  <2>1. Event(type, c) \in Events /\ Event(type, c).type = type
    BY <1>2, Lines DEF Event
  <2> QED BY <1>2, <2>1 DEF Apart
<1>3. ASSUME NEW s \in Sessions, Kernel(s) PROVE PairInv'
  BY <1>2, <1>3, AppendPairs DEF Kernel
<1>4. ASSUME NEW c \in Calls,
             \/ AppendLease(c) \/ AppendClock(c) \/ AppendAdmission(c) \/ AppendStart(c)
             \/ AppendPair(c) \/ AppendTermination(c)
      PROVE  PairInv'
  <2>1. \E es, result : Apart(es) /\ AppendEvents(call[c].session, es, result)
    BY <1>2, <1>4 DEF AppendLease, AppendClock, AppendAdmission, AppendStart, AppendPair, AppendTermination, AppendStep, Apart
  <2> QED BY <2>1, AppendPairs
<1>5. ASSUME NEW c \in Calls, Step(c),
             ~(\/ AppendLease(c) \/ AppendClock(c) \/ AppendAdmission(c) \/ AppendStart(c)
               \/ AppendPair(c) \/ AppendTermination(c))
      PROVE  UNCHANGED <<ledger, published>>
  BY <1>5 DEF Step, Begin, InspectForAdmission, VerifyAdmission, Dispatch, AdapterReturns, InspectForStart, VerifyStart,
              Reconcile, VerifyPair, Terminate, VerifyTermination, Poison, CloseState, CloseSession, VerifyStep, runVars
<1>6. ASSUME \/ UNCHANGED vars
             \/ \E s \in Sessions : Open(s) \/ Capture(s)
             \/ \E c \in Calls, s \in Sessions : RequestClose(c, s) \/ \E a \in Adapters : Coordinate(c, s, a)
             \/ \E c \in Calls : Take(c)
      PROVE  UNCHANGED <<ledger, published>>
  <2>1. CASE UNCHANGED vars
    BY <2>1 DEF vars, runVars
  <2>2. ASSUME NEW s \in Sessions, Open(s) \/ Capture(s)
        PROVE  UNCHANGED <<ledger, published>>
    BY <2>2 DEF runVars, Open, Capture
  <2>3. ASSUME NEW c \in Calls, NEW s \in Sessions, RequestClose(c, s) \/ \E a \in Adapters : Coordinate(c, s, a)
        PROVE  UNCHANGED <<ledger, published>>
    BY <2>3 DEF runVars, RequestClose, Coordinate
  <2>4. ASSUME NEW c \in Calls, Take(c)
        PROVE  UNCHANGED <<ledger, published>>
    BY <2>4 DEF runVars, Take
  <2> QED BY <1>6, <2>1, <2>2, <2>3, <2>4
<1> QED BY <1>1, <1>3, <1>4, <1>5, <1>6 DEF Next

(* For all constants: the manifest never describes a rejected observation  *)
(* without its quarantine (appendIntegrityQuarantinePairSerialized).       *)
THEOREM PairsArePublishedWhole == Spec => []QuarantinePairs
<1>1. Init => PairInv
  BY DEF Init, PairInv, LedgerOK
<1>2. PairInv /\ [Next]_vars => PairInv'
  BY NextPairs
<1>3. PairInv => QuarantinePairs
  <2> SUFFICES ASSUME PairInv, NEW i \in 1 .. published, ledger[i].type = "rejected"
               PROVE  i < published /\ ledger[i + 1] = Event("quarantined", ledger[i].call)
    BY DEF QuarantinePairs
  <2>1. published \in 0 .. Len(ledger) /\ Len(ledger) \in Nat /\ i # published
    BY DEF PairInv, LedgerOK
  <2> QED BY <2>1 DEF PairInv
<1> QED BY <1>1, <1>2, <1>3, PTL DEF Spec

-----------------------------------------------------------------------------
(* The calls of a coordinator are in line: the first may be at work, the   *)
(* others wait.                                                            *)
Waiting == {"queued", "close-queued"}
Busy == {"inspect", "lease", "clock", "admit", "verify-admission", "dispatch", "adapter", "inspect-start", "start",
         "verify-start", "reconcile", "pair", "verify-pair", "terminate", "termination", "verify-termination", "poison",
         "closing"}
Working == Busy \cup {"close-session"}

First(c) == queue[call[c].session] # <<>> /\ queue[call[c].session][1] = c

InLine(s) ==
  /\ \A i \in 1 .. Len(queue[s]) :
       /\ call[queue[s][i]].session = s
       /\ call[queue[s][i]].pc \in Waiting \/ (i = 1 /\ call[queue[s][i]].pc \in Working)
  /\ \A i, j \in 1 .. Len(queue[s]) : queue[s][i] = queue[s][j] => i = j

Ending == {"FAILED", "QUARANTINED", "CLOSE_ENDED"}

(* A call at work is the first in line, of an open coordinator until it    *)
(* closes it; a result waits with an open one; a call that failed or       *)
(* closed leaves a closed session.                                         *)
Placed(c) ==
  /\ call[c].pc # "idle" => call[c].session \in Sessions /\ coord[call[c].session].captured
  /\ call[c].pc \in Working => First(c)
  /\ call[c].pc \in Busy => ~coord[call[c].session].closed
  /\ call[c].custody # "none" => call[c].pc = "answered"
  /\ call[c].custody = "held" => ~coord[call[c].session].closed
  /\ call[c].custody \in {"held", "taken"} => call[c].observed = "exact" /\ IsPublished(Event("started", c))
  /\ call[c].pc = "answered" /\ call[c].answer \in Ending => session[call[c].session].state = "closed"

(* A coordinator has a session, and when it is closed so is the session,   *)
(* unless somebody is about to.                                            *)
Opened(s) ==
  /\ coord[s].captured => session[s].state # "new"
  /\ coord[s].closed => session[s].state = "closed"
                        \/ \E c \in Calls : call[c].pc = "close-session" /\ call[c].session = s

HolderIsOpen == \A s \in Sessions : store.holder = s => session[s].state = "open"

OrderInv ==
  /\ RecordInv /\ HolderIsOpen
  /\ \A s \in Sessions : InLine(s) /\ Opened(s)
  /\ \A c \in Calls : Placed(c)

-----------------------------------------------------------------------------
(* What a step may do to the sessions: close one, or open a new one.       *)
SessionsKept ==
  /\ HolderIsOpen'
  /\ \A s \in Sessions : session[s].state = "closed" => session'[s].state = "closed"
  /\ \A s \in Sessions : session[s].state # "new" => session'[s].state # "new"

(* An append may close the session it was asked of.                        *)
LEMMA AppendSessions ==
  ASSUME TypeOK, HolderIsOpen, NEW s \in Sessions, NEW es, NEW result, AppendEvents(s, es, result)
  PROVE  SessionsKept
<1>1. CASE UNCHANGED <<session, store>>
  BY <1>1 DEF SessionsKept, HolderIsOpen
<1>2. CASE session' = [session EXCEPT ![s].state = "closed"] /\ store' = [store EXCEPT !.holder = None]
  BY <1>2, CoordinatorAssumption DEF TypeOK, SessionsKept, HolderIsOpen
<1>3. CASE Poisoned(s)
  BY <1>3 DEF TypeOK, Poisoned, SessionsKept, HolderIsOpen
<1> QED BY <1>1, <1>2, <1>3 DEF AppendEvents, runVars

(* A step of a call closes at most its own session.                        *)
LEMMA StepSessions ==
  ASSUME OrderInv, NEW c \in Calls, Step(c)
  PROVE  SessionsKept
<1>0. TypeOK /\ HolderIsOpen /\ Placed(c)
  BY DEF OrderInv, RecordInv
<1>1. call[c].session \in Sessions
  <2>1. call[c].pc # "idle"
    BY DEF Step, At, Begin, InspectForAdmission, AppendLease, AppendClock, AppendAdmission, VerifyAdmission,
         Dispatch, AdapterReturns, InspectForStart, AppendStart, VerifyStart, Reconcile, AppendPair, VerifyPair,
         Terminate, AppendTermination, VerifyTermination, Poison, CloseState, CloseSession
  <2> QED BY <1>0, <2>1 DEF Placed
<1>2. CASE \/ AppendLease(c) \/ AppendClock(c) \/ AppendAdmission(c) \/ AppendStart(c)
           \/ AppendPair(c) \/ AppendTermination(c)
  <2>1. \E es, result : AppendEvents(call[c].session, es, result)
    BY <1>2 DEF AppendLease, AppendClock, AppendAdmission, AppendStart, AppendPair, AppendTermination, AppendStep
  <2> QED BY <1>0, <1>1, <2>1, AppendSessions
<1>3. CASE UNCHANGED <<session, store>>
  BY <1>0, <1>3 DEF SessionsKept, HolderIsOpen
<1>4. CASE Poison(c)
  BY <1>0, <1>1, <1>4 DEF Poison, Poisoned, SessionsKept, HolderIsOpen, TypeOK
<1>5. CASE CloseSession(c)
  BY <1>0, <1>1, <1>5, CoordinatorAssumption DEF CloseSession, HolderAfterClose, SessionsKept, HolderIsOpen, TypeOK
<1>6. CASE ~(\/ AppendLease(c) \/ AppendClock(c) \/ AppendAdmission(c) \/ AppendStart(c)
             \/ AppendPair(c) \/ AppendTermination(c) \/ Poison(c) \/ CloseSession(c))
  <2>1. UNCHANGED <<session, store>>
    BY <1>6 DEF Step, Begin, InspectForAdmission, VerifyAdmission, Dispatch, AdapterReturns, InspectForStart, VerifyStart,
                Reconcile, VerifyPair, Terminate, VerifyTermination, CloseState, VerifyStep, runVars
  <2> QED BY <1>3, <2>1
<1> QED BY <1>2, <1>4, <1>5, <1>6

(* Most steps of a call keep it at work, and touch nothing else of it.     *)
Continues(c) ==
  /\ call[c].pc \in Busy /\ call'[c].pc \in Busy
  /\ call'[c].session = call[c].session /\ call'[c].custody = call[c].custody
  /\ \A d \in Calls : d # c => call'[d] = call[d]
  /\ queue' = queue /\ coord' = coord

(* To go from one place at work to another continues.                      *)
LEMMA GoContinues ==
  ASSUME TypeOK, NEW c \in Calls, NEW pc \in Busy, call[c].pc \in Busy, Go(c, pc), queue' = queue, coord' = coord
  PROVE  Continues(c)
BY CallSets DEF TypeOK, Go, Continues

(* A step begins a call, continues it, ends it, or closes its coordinator. *)
LEMMA StepKinds ==
  ASSUME TypeOK, NEW c \in Calls, Step(c)
  PROVE  Begin(c) \/ Continues(c) \/ Reconcile(c) \/ CloseState(c) \/ CloseSession(c)
<1>1. CASE InspectForAdmission(c) \/ Terminate(c)
  BY <1>1, GoContinues DEF InspectForAdmission, Terminate, At, Busy
<1>2. CASE \/ AppendLease(c) \/ AppendClock(c) \/ AppendAdmission(c) \/ AppendStart(c)
           \/ AppendPair(c) \/ AppendTermination(c)
  <2>1. PICK committed \in Busy, refused \in Busy : call[c].pc \in Busy /\ \E es : AppendStep(c, es, committed, refused)
    BY <1>2 DEF AppendLease, AppendClock, AppendAdmission, AppendStart, AppendPair, AppendTermination, At, Busy
  <2>2. (\E pc \in Busy : Go(c, pc)) /\ queue' = queue /\ coord' = coord
    BY <2>1 DEF AppendStep, Results, Busy
  <2> QED BY <2>1, <2>2, GoContinues
<1>3. CASE VerifyAdmission(c) \/ InspectForStart(c) \/ VerifyStart(c) \/ VerifyTermination(c)
  <2>1. PICK next \in Busy : call[c].pc \in Busy /\ \E exact : VerifyStep(c, exact, next)
    BY <1>3 DEF VerifyAdmission, InspectForStart, VerifyStart, VerifyTermination, At, Busy
  <2>2. (\E pc \in Busy : Go(c, pc)) /\ queue' = queue /\ coord' = coord
    BY <2>1 DEF VerifyStep, Busy
  <2> QED BY <2>1, <2>2, GoContinues
<1>4. CASE Dispatch(c)
  <2>1. call[c].pc \in Busy /\ queue' = queue /\ coord' = coord
    BY <1>4 DEF Dispatch, At, Busy
  <2>2. CASE Go(c, "closing") \/ Go(c, "poison")
    BY <2>1, <2>2, GoContinues DEF Busy
  <2>3. CASE call' = [call EXCEPT ![c].pc = "adapter", ![c].entered = TRUE]
    BY <2>1, <2>3, CallSets DEF TypeOK, Continues, Busy
  <2> QED BY <1>4, <2>2, <2>3 DEF Dispatch
<1>5. CASE AdapterReturns(c)
  <2>1. PICK o \in {"not-started", "unknown", "exact", "mismatch"}, pc \in Busy :
          call' = [call EXCEPT ![c].observed = o, ![c].pc = pc]
    BY <1>5 DEF AdapterReturns, Busy
  <2>2. call[c].pc \in Busy /\ queue' = queue /\ coord' = coord
    BY <1>5 DEF AdapterReturns, At, Busy
  <2> QED BY <2>1, <2>2, CallSets DEF TypeOK, Continues
<1>6. CASE VerifyPair(c)
  <2>1. PICK answer \in Answers, pc \in Busy : call' = [call EXCEPT ![c].pc = pc, ![c].answer = answer]
    <3>1. CASE TailIs(call[c].session, Pair(c))
      <4>1. call' = [call EXCEPT ![c].pc = "terminate", ![c].answer = "QUARANTINED"]
        BY <1>6, <3>1 DEF VerifyPair
      <4> QED BY <4>1, Names DEF Busy
    <3>2. CASE ~TailIs(call[c].session, Pair(c))
      <4>1. call' = [call EXCEPT ![c].pc = "poison", ![c].answer = call[c].answer]
        BY <1>6, <3>2 DEF VerifyPair
      <4>2. call[c].answer \in Answers
        BY CallSets DEF TypeOK
      <4> QED BY <4>1, <4>2 DEF Busy
    <3> QED BY <3>1, <3>2
  <2>2. call[c].pc \in Busy /\ queue' = queue /\ coord' = coord
    BY <1>6 DEF VerifyPair, At, Busy
  <2> QED BY <2>1, <2>2, CallSets DEF TypeOK, Continues
<1>7. CASE Poison(c)
  BY <1>7, GoContinues DEF Poison, At, Busy
<1> QED BY <1>1, <1>2, <1>3, <1>4, <1>5, <1>6, <1>7 DEF Step

-----------------------------------------------------------------------------
(* A call that no step touches stays placed, while its coordinator neither *)
(* closes nor loses it as the first in line.                               *)
LEMMA PlacedStays ==
  ASSUME TypeOK, Kept, SessionsKept, NEW d \in Calls, Placed(d), call'[d] = call[d],
         \A s \in Sessions : coord[s].captured => coord'[s].captured,
         call[d].pc # "idle" => coord'[call[d].session].closed = coord[call[d].session].closed,
         call[d].pc \in Working /\ First(d) => First(d)'
  PROVE  Placed(d)'
<1>1. IsPublished(Event("started", d)) => IsPublished(Event("started", d))'
  BY Lines DEF Kept
<1>2. /\ call'[d].pc # "idle" => call'[d].session \in Sessions /\ coord'[call'[d].session].captured
      /\ call'[d].pc \in Working => First(d)'
  BY DEF Placed
<1>3. /\ call'[d].pc \in Busy => ~coord'[call'[d].session].closed
      /\ call'[d].custody # "none" => call'[d].pc = "answered"
      /\ call'[d].custody = "held" => ~coord'[call'[d].session].closed
  BY DEF Placed, Busy
<1>4. call'[d].pc = "answered" /\ call'[d].answer \in Ending => session'[call'[d].session].state = "closed"
  BY DEF Placed, SessionsKept
<1> QED BY <1>1, <1>2, <1>3, <1>4 DEF Placed

(* The line of a session is the same for calls that keep their places in   *)
(* it; only the first may start its work.                                  *)
LEMMA LineStays ==
  ASSUME NEW s, InLine(s), queue' = queue, \A d \in Calls : call'[d].session = call[d].session,
         queue[s] \in Seq(Calls),
         \A d \in Calls : \/ call'[d].pc = call[d].pc \/ (call[d].pc \in Working /\ call'[d].pc \in Working)
                          \/ (First(d) /\ call'[d].pc \in Working)
  PROVE  InLine(s)'
<1>1. ASSUME NEW i \in 1 .. Len(queue[s]) PROVE
         /\ call'[queue[s][i]].session = s
         /\ call'[queue[s][i]].pc \in Waiting \/ (i = 1 /\ call'[queue[s][i]].pc \in Working)
  <2>1. /\ queue[s][i] \in Calls /\ call[queue[s][i]].session = s /\ 1 \in 1 .. Len(queue[s])
        /\ call[queue[s][i]].pc \in Waiting \/ (i = 1 /\ call[queue[s][i]].pc \in Working)
    BY DEF InLine
  <2>2. call[queue[s][i]].pc \in Waiting => call[queue[s][i]].pc \notin Working
    BY DEF Waiting, Working, Busy
  <2>3. First(queue[s][i]) => i = 1
    BY <2>1 DEF First, InLine
  <2> QED BY <2>1, <2>2, <2>3
<1> QED BY <1>1 DEF InLine

(* When the first in line leaves, those behind it wait.                    *)
LEMMA LineMovesUp ==
  ASSUME TypeOK, \A s \in Sessions : InLine(s), NEW c \in Calls, First(c), NEW t \in Sessions, t = call[c].session, Leave(c),
         \A d \in Calls : d # c => call'[d].pc = call[d].pc /\ call'[d].session = call[d].session
  PROVE  /\ \A s \in Sessions : InLine(s)'
         /\ \A d \in Calls : d # c /\ First(d) /\ call[d].session \in Sessions => First(d)'
<1>1. ASSUME NEW s \in Sessions PROVE queue[s] \in Seq(Calls)
  BY DEF TypeOK
<1>2. queue'[t] = Tail(queue[t]) /\ \A s \in Sessions : s # t => queue'[s] = queue[s]
  BY DEF Leave, TypeOK
<1>3. ASSUME NEW s \in Sessions, s # t PROVE InLine(s)'
  <2>1. queue'[s] = queue[s] /\ \A i \in 1 .. Len(queue[s]) : queue[s][i] \in Calls /\ queue[s][i] # c
    BY <1>1, <1>2, <1>3 DEF InLine
  <2> QED BY <2>1 DEF InLine
<1>4. InLine(t)'
  <2>1. /\ Len(queue'[t]) = Len(queue[t]) - 1
        /\ \A i \in 1 .. Len(queue'[t]) : queue'[t][i] = queue[t][i + 1]
    BY <1>1, <1>2 DEF First
  <2>2. ASSUME NEW i \in 1 .. Len(queue'[t])
        PROVE  /\ i + 1 \in 1 .. Len(queue[t]) /\ queue[t][i + 1] \in Calls /\ queue[t][i + 1] # c
               /\ call[queue[t][i + 1]].session = t /\ call[queue[t][i + 1]].pc \in Waiting
    <3>1. i + 1 \in 1 .. Len(queue[t]) /\ 1 \in 1 .. Len(queue[t]) /\ i + 1 # 1
      BY <1>1, <2>1
    <3> QED BY <1>1, <3>1 DEF InLine, First
  <2>3. ASSUME NEW i \in 1 .. Len(queue'[t]), NEW j \in 1 .. Len(queue'[t]), queue'[t][i] = queue'[t][j] PROVE i = j
    <3>1. queue[t][i + 1] = queue[t][j + 1] /\ i + 1 \in 1 .. Len(queue[t]) /\ j + 1 \in 1 .. Len(queue[t])
      BY <2>1, <2>2, <2>3
    <3>2. i + 1 = j + 1
      BY <3>1 DEF InLine
    <3> QED BY <3>2
  <2>4. ASSUME NEW i \in 1 .. Len(queue'[t]) PROVE call'[queue'[t][i]].session = t /\ call'[queue'[t][i]].pc \in Waiting
    <3>1. queue'[t][i] = queue[t][i + 1]
      BY <2>1
    <3>2. call'[queue[t][i + 1]].pc = call[queue[t][i + 1]].pc /\ call'[queue[t][i + 1]].session = call[queue[t][i + 1]].session
      BY <2>2
    <3> QED BY <2>2, <3>1, <3>2
  <2> QED BY <2>3, <2>4 DEF InLine
<1>5. ASSUME NEW d \in Calls, d # c, First(d), call[d].session \in Sessions PROVE First(d)'
  <2>1. call[d].session # t
    BY <1>5 DEF First
  <2> QED BY <1>2, <1>5, <2>1 DEF First
<1>6. ASSUME NEW s \in Sessions PROVE InLine(s)'
  BY <1>3, <1>4
<1> QED BY <1>5, <1>6

(* A call joins the end of a line.                                         *)
LEMMA LineGrows ==
  ASSUME TypeOK, \A s \in Sessions : InLine(s), NEW c \in Calls, NEW t \in Sessions, call[c].pc = "idle",
         queue' = [queue EXCEPT ![t] = Append(@, c)], call'[c].session = t, call'[c].pc \in Waiting,
         \A d \in Calls : d # c => call'[d] = call[d]
  PROVE  /\ \A s \in Sessions : InLine(s)'
         /\ \A d \in Calls : d # c /\ First(d) /\ call[d].session \in Sessions => First(d)'
<1>1. ASSUME NEW s \in Sessions
      PROVE  queue[s] \in Seq(Calls) /\ \A i \in 1 .. Len(queue[s]) : queue[s][i] \in Calls /\ queue[s][i] # c
  <2>1. queue[s] \in Seq(Calls)
    BY DEF TypeOK
  <2>2. \A i \in 1 .. Len(queue[s]) : queue[s][i] \in Calls
    BY <2>1
  <2>3. \A i \in 1 .. Len(queue[s]) : call[queue[s][i]].pc \in Waiting \cup Working
    BY DEF InLine
  <2> QED BY <2>1, <2>2, <2>3 DEF Waiting, Working, Busy
<1>2. queue'[t] = Append(queue[t], c) /\ \A s \in Sessions : s # t => queue'[s] = queue[s]
  BY DEF TypeOK
<1>3. ASSUME NEW s \in Sessions, s # t PROVE InLine(s)'
  BY <1>1, <1>2, <1>3 DEF InLine
<1>4. /\ Len(queue'[t]) = Len(queue[t]) + 1 /\ queue'[t][Len(queue[t]) + 1] = c /\ Len(queue[t]) \in Nat
      /\ \A i \in 1 .. Len(queue[t]) : queue'[t][i] = queue[t][i]
  BY <1>1, <1>2
<1>5. InLine(t)'
  <2>1. ASSUME NEW i \in 1 .. Len(queue'[t]) PROVE
          /\ call'[queue'[t][i]].session = t
          /\ call'[queue'[t][i]].pc \in Waiting \/ (i = 1 /\ call'[queue'[t][i]].pc \in Working)
    <3>1. CASE i \in 1 .. Len(queue[t])
      BY <1>1, <1>4, <3>1 DEF InLine
    <3>2. CASE i = Len(queue[t]) + 1
      BY <1>4, <3>2
    <3> QED BY <1>4, <3>1, <3>2
  <2>2. ASSUME NEW i \in 1 .. Len(queue'[t]), NEW j \in 1 .. Len(queue'[t]), queue'[t][i] = queue'[t][j] PROVE i = j
    <3>1. i \in 1 .. Len(queue[t]) \/ i = Len(queue[t]) + 1
      BY <1>4
    <3>2. j \in 1 .. Len(queue[t]) \/ j = Len(queue[t]) + 1
      BY <1>4
    <3> QED BY <1>1, <1>4, <2>2, <3>1, <3>2 DEF InLine
  <2> QED BY <2>1, <2>2 DEF InLine
<1>6. ASSUME NEW d \in Calls, d # c, First(d), call[d].session \in Sessions PROVE First(d)'
  <2>1. call'[d].session = call[d].session /\ queue[call[d].session] # <<>>
    BY <1>6 DEF First
  <2>2. CASE call[d].session = t
    <3>1. 1 \in 1 .. Len(queue[t]) /\ queue'[t][1] = queue[t][1]
      BY <1>1, <1>4, <2>1, <2>2
    <3>2. queue'[t] # <<>>
      BY <1>1, <1>2
    <3> QED BY <1>6, <2>1, <2>2, <3>1, <3>2 DEF First
  <2>3. CASE call[d].session # t
    BY <1>2, <1>6, <2>1, <2>3 DEF First
  <2> QED BY <2>2, <2>3
<1> QED BY <1>3, <1>5, <1>6

-----------------------------------------------------------------------------
(* Every step of a call keeps the order.                                   *)
Ordered == (\A s \in Sessions : InLine(s) /\ Opened(s)) /\ \A c \in Calls : Placed(c)

LEMMA ContinuesOrdered ==
  ASSUME OrderInv, Kept, SessionsKept, NEW c \in Calls, Continues(c)
  PROVE  Ordered'
<1>0. TypeOK /\ (\A s \in Sessions : InLine(s) /\ Opened(s)) /\ \A d \in Calls : Placed(d)
  BY DEF OrderInv, RecordInv
<1>1. ASSUME NEW s \in Sessions PROVE InLine(s)'
  <2>1. queue[s] \in Seq(Calls)
    BY <1>0 DEF TypeOK
  <2>2. \A d \in Calls : /\ call'[d].session = call[d].session
                         /\ call'[d].pc = call[d].pc \/ (call[d].pc \in Working /\ call'[d].pc \in Working)
    BY DEF Continues, Working
  <2> QED BY <1>0, <2>1, <2>2, LineStays DEF Continues
<1>2. ASSUME NEW s \in Sessions PROVE Opened(s)'
  <2>1. \A d \in Calls : call[d].pc = "close-session" => call'[d] = call[d]
    BY DEF Continues, Busy
  <2> QED BY <1>0, <2>1 DEF Opened, Continues, SessionsKept
<1>3. ASSUME NEW d \in Calls, d # c PROVE Placed(d)'
  BY <1>0, <1>3, PlacedStays DEF Continues, First
<1>4. Placed(c)'
  <2>1. /\ call[c].session \in Sessions /\ coord[call[c].session].captured /\ ~coord[call[c].session].closed
        /\ First(c) /\ call[c].custody = "none"
    BY <1>0 DEF Placed, Continues, Busy, Working
  <2>2. First(c)' /\ call'[c].pc # "answered"
    BY <2>1 DEF First, Continues, Busy
  <2> QED BY <2>1, <2>2 DEF Placed, Continues
<1> QED BY <1>1, <1>2, <1>3, <1>4 DEF Ordered

(* A call that starts its work was the first in line, and leaves an open   *)
(* coordinator open; one that finds it closed finds a closed session.      *)
LEMMA BeginOrdered ==
  ASSUME OrderInv, Kept, SessionsKept, NEW c \in Calls, Begin(c)
  PROVE  Ordered'
<1>0. TypeOK /\ (\A s \in Sessions : InLine(s) /\ Opened(s)) /\ \A d \in Calls : Placed(d)
  BY DEF OrderInv, RecordInv
<1>1. call[c].pc \in Waiting /\ First(c) /\ coord' = coord
  BY <1>0 DEF Begin, At, First, Waiting
<1>2. PICK t \in Sessions : t = call[c].session /\ coord[t].captured /\ call[c].custody = "none"
  BY <1>0, <1>1 DEF Placed, Waiting
<1>3. /\ call'[c].session = t /\ call'[c].custody = "none" /\ \A d \in Calls : d # c => call'[d] = call[d]
      /\ \/ call'[c].pc \in Busy /\ ~coord[t].closed /\ queue' = queue
         \/ call'[c].pc = "answered" /\ coord[t].closed /\ Leave(c)
  BY <1>0, <1>2, CallSets DEF Begin, Fail, Busy, TypeOK
<1>4. ASSUME NEW s \in Sessions PROVE Opened(s)'
  <2>1. \A d \in Calls : call[d].pc = "close-session" => call'[d] = call[d]
    BY <1>1, <1>3 DEF Waiting
  <2> QED BY <1>0, <1>1, <2>1 DEF Opened, SessionsKept
<1>5. CASE call'[c].pc \in Busy /\ ~coord[t].closed /\ queue' = queue
  <2>1. ASSUME NEW s \in Sessions PROVE InLine(s)'
    <3>1. queue[s] \in Seq(Calls)
      BY <1>0 DEF TypeOK
    <3>2. \A d \in Calls : /\ call'[d].session = call[d].session
                           /\ call'[d].pc = call[d].pc \/ (First(d) /\ call'[d].pc \in Working)
      BY <1>1, <1>2, <1>3, <1>5 DEF Working
    <3> QED BY <1>0, <1>5, <3>1, <3>2, LineStays
  <2>2. ASSUME NEW d \in Calls, d # c PROVE Placed(d)'
    BY <1>0, <1>1, <1>3, <1>5, <2>2, PlacedStays DEF First
  <2>3. Placed(c)'
    <3>1. First(c)' /\ call'[c].pc # "answered"
      BY <1>1, <1>2, <1>3, <1>5 DEF First, Busy
    <3> QED BY <1>1, <1>2, <1>3, <1>5, <3>1 DEF Placed
  <2> QED BY <1>4, <2>1, <2>2, <2>3 DEF Ordered
<1>6. CASE call'[c].pc = "answered" /\ coord[t].closed /\ Leave(c)
  <2>1. session[t].state = "closed"
    <3>1. ASSUME NEW d \in Calls, call[d].pc = "close-session", call[d].session = t PROVE FALSE
      <4>1. First(d)
        BY <1>0, <3>1 DEF Placed, Working
      <4>2. d = c
        BY <1>1, <1>2, <3>1, <4>1 DEF First
      <4> QED BY <1>1, <3>1, <4>2 DEF Waiting
    <3> QED BY <1>0, <1>6, <3>1 DEF Opened
  <2>2. /\ \A s \in Sessions : InLine(s)'
        /\ \A d \in Calls : d # c /\ First(d) /\ call[d].session \in Sessions => First(d)'
    BY <1>0, <1>1, <1>2, <1>3, <1>6, LineMovesUp
  <2>3. ASSUME NEW d \in Calls, d # c PROVE Placed(d)'
    <3>1. call[d].pc \in Working /\ First(d) => First(d)'
      BY <1>0, <2>2, <2>3 DEF Placed, Working, Busy
    <3> QED BY <1>0, <1>1, <1>3, <2>3, <3>1, PlacedStays
  <2>4. Placed(c)'
    BY <1>1, <1>2, <1>3, <1>6, <2>1 DEF Placed, SessionsKept, Working, Busy
  <2> QED BY <1>4, <2>2, <2>3, <2>4 DEF Ordered
<1> QED BY <1>3, <1>5, <1>6

(* A result is kept only of an open coordinator, and after its start was   *)
(* published.                                                              *)
LEMMA ReconcileOrdered ==
  ASSUME OrderInv, Kept, SessionsKept, NEW c \in Calls, Reconcile(c)
  PROVE  Ordered'
<1>0. TypeOK /\ (\A s \in Sessions : InLine(s) /\ Opened(s)) /\ (\A d \in Calls : Placed(d)) /\ Progress(c)
  BY DEF OrderInv, RecordInv
<1>1. call[c].pc = "reconcile" /\ First(c) /\ coord' = coord
  BY <1>0 DEF Reconcile, At, First
<1>2. CASE Go(c, "pair") \/ Go(c, "poison")
  <2>1. queue' = queue
    BY <1>0, <1>1, <1>2, CallSets DEF Reconcile, Go, TypeOK
  <2>2. Continues(c)
    BY <1>0, <1>1, <1>2, <2>1, GoContinues DEF Busy
  <2> QED BY <2>2, ContinuesOrdered
<1>3. CASE /\ call[c].observed = "exact" /\ Leave(c)
           /\ call' = [call EXCEPT ![c].pc = "answered", ![c].answer = "MATCHED", ![c].custody = "held"]
  <2>1. PICK t \in Sessions : t = call[c].session /\ coord[t].captured /\ ~coord[t].closed
    BY <1>0, <1>1 DEF Placed, Busy, Working
  <2>2. /\ call'[c].pc = "answered" /\ call'[c].answer = "MATCHED" /\ call'[c].session = t /\ call'[c].observed = "exact"
        /\ \A d \in Calls : d # c => call'[d] = call[d]
    BY <1>0, <1>3, <2>1, CallSets DEF TypeOK
  <2>3. IsPublished(Event("started", c))'
    BY <1>0, <1>1, Lines DEF Progress, Kept
  <2>4. ASSUME NEW s \in Sessions PROVE Opened(s)'
    <3>1. \A d \in Calls : call[d].pc = "close-session" => call'[d] = call[d]
      BY <1>1, <2>2
    <3> QED BY <1>0, <1>1, <3>1 DEF Opened, SessionsKept
  <2>5. /\ \A s \in Sessions : InLine(s)'
        /\ \A d \in Calls : d # c /\ First(d) /\ call[d].session \in Sessions => First(d)'
    BY <1>0, <1>1, <1>3, <2>1, <2>2, LineMovesUp
  <2>6. ASSUME NEW d \in Calls, d # c PROVE Placed(d)'
    <3>1. call[d].pc \in Working /\ First(d) => First(d)'
      BY <1>0, <2>5, <2>6 DEF Placed, Working, Busy
    <3> QED BY <1>0, <1>1, <2>2, <2>6, <3>1, PlacedStays
  <2>7. Placed(c)'
    BY <1>1, <2>1, <2>2, <2>3 DEF Placed, Working, Busy, Ending
  <2> QED BY <2>4, <2>5, <2>6, <2>7 DEF Ordered
<1> QED BY <1>2, <1>3 DEF Reconcile

(* The coordinator that closes destroys the results that wait.             *)
LEMMA CloseStateOrdered ==
  ASSUME OrderInv, Kept, SessionsKept, NEW c \in Calls, CloseState(c)
  PROVE  Ordered'
<1>0. TypeOK /\ (\A s \in Sessions : InLine(s) /\ Opened(s)) /\ \A d \in Calls : Placed(d)
  BY DEF OrderInv, RecordInv
<1>1. call[c].pc = "closing" /\ First(c) /\ queue' = queue
  BY <1>0 DEF CloseState, At, First
<1>2. PICK t \in Sessions : t = call[c].session /\ coord[t].captured /\ call[c].custody = "none"
  BY <1>0, <1>1 DEF Placed
<1>3. ASSUME NEW s \in Sessions
      PROVE  coord'[s].captured = coord[s].captured /\ (s # t => coord'[s] = coord[s]) /\ coord'[t].closed
  BY <1>0, <1>2 DEF CloseState, TypeOK
<1>4. ASSUME NEW d \in Calls PROVE
        /\ call'[d].session = call[d].session /\ call'[d].answer = call[d].answer /\ call'[d].observed = call[d].observed
        /\ call'[d].pc = IF d = c THEN "close-session" ELSE call[d].pc
        /\ call'[d].custody = IF call[d].session = t /\ call[d].custody = "held" THEN "destroyed" ELSE call[d].custody
  <2>1. DestroyCustodies(c, t)
    BY <1>2 DEF CloseState
  <2>2. call'[d] = [call[d] EXCEPT
          !.pc = IF d = c THEN "close-session" ELSE @,
          !.custody = IF call[d].session = t /\ @ = "held" THEN "destroyed" ELSE @]
    BY <2>1, Zenon DEF DestroyCustodies
  <2>3. DOMAIN call[d] = {"pc", "session", "entered", "observed", "answer", "custody"}
    BY <1>0 DEF TypeOK, CallStates
  <2> QED BY <2>2, <2>3
<1>5. ASSUME NEW s \in Sessions PROVE InLine(s)'
  <2>1. queue[s] \in Seq(Calls)
    BY <1>0 DEF TypeOK
  <2>2. \A d \in Calls : /\ call'[d].session = call[d].session
                         /\ call'[d].pc = call[d].pc \/ (First(d) /\ call'[d].pc \in Working)
    BY <1>1, <1>4 DEF Working
  <2> QED BY <1>0, <1>1, <2>1, <2>2, LineStays
<1>6. ASSUME NEW s \in Sessions PROVE Opened(s)'
  <2>1. CASE s = t
    BY <1>0, <1>2, <1>3, <1>4, <2>1 DEF Opened, SessionsKept
  <2>2. CASE s # t
    BY <1>0, <1>1, <1>3, <1>4, <2>2 DEF Opened, SessionsKept
  <2> QED BY <2>1, <2>2
<1>7. ASSUME NEW d \in Calls, d # c PROVE Placed(d)'
  <2>1. Placed(d) /\ call'[d].pc = call[d].pc
    BY <1>0, <1>4, <1>7
  <2>2. call[d].pc \in Working => call[d].session # t /\ First(d)'
    BY <1>1, <1>2, <1>4, <1>7, <2>1 DEF Placed, First
  <2>3. call[d].pc # "idle" => coord'[call[d].session].captured /\ (call[d].session # t => coord'[call[d].session] = coord[call[d].session])
    BY <1>3, <2>1 DEF Placed
  <2>4. call[d].custody \in {"held", "taken"} => IsPublished(Event("started", d))'
    BY <2>1, Lines DEF Placed, Kept
  <2>5. /\ call'[d].pc # "idle" => call'[d].session \in Sessions /\ coord'[call'[d].session].captured
        /\ call'[d].pc \in Working => First(d)'
        /\ call'[d].pc \in Busy => ~coord'[call'[d].session].closed
    BY <1>4, <2>1, <2>2, <2>3 DEF Placed, Working, Busy
  <2>6. /\ call'[d].custody # "none" => call'[d].pc = "answered"
        /\ call'[d].custody = "held" => ~coord'[call'[d].session].closed
        /\ call'[d].custody \in {"held", "taken"} => call'[d].observed = "exact" /\ IsPublished(Event("started", d))'
    BY <1>4, <2>1, <2>3, <2>4 DEF Placed
  <2>7. call'[d].pc = "answered" /\ call'[d].answer \in Ending => session'[call'[d].session].state = "closed"
    BY <1>4, <2>1 DEF Placed, SessionsKept
  <2> QED BY <2>5, <2>6, <2>7 DEF Placed
<1>8. Placed(c)'
  <2>1. First(c)' /\ call'[c].pc = "close-session" /\ call'[c].session = t /\ call'[c].custody = "none"
    BY <1>1, <1>2, <1>4 DEF First
  <2> QED BY <1>2, <1>3, <2>1 DEF Placed, Busy
<1> QED BY <1>5, <1>6, <1>7, <1>8 DEF Ordered

(* The session is closed when the closing call is answered.                *)
LEMMA CloseSessionOrdered ==
  ASSUME OrderInv, Kept, SessionsKept, NEW c \in Calls, CloseSession(c)
  PROVE  Ordered'
<1>0. TypeOK /\ (\A s \in Sessions : InLine(s) /\ Opened(s)) /\ \A d \in Calls : Placed(d)
  BY DEF OrderInv, RecordInv
<1>1. call[c].pc = "close-session" /\ First(c) /\ Leave(c)
  BY <1>0 DEF CloseSession, At, First
<1>2. PICK t \in Sessions : t = call[c].session /\ coord[t].captured /\ call[c].custody = "none"
  BY <1>0, <1>1 DEF Placed
<1>3. ASSUME NEW s \in Sessions PROVE coord'[s].captured = coord[s].captured /\ coord'[s].closed = coord[s].closed
  BY <1>0, <1>2 DEF CloseSession, TypeOK
<1>4. /\ call'[c].pc = "answered" /\ call'[c].session = t /\ call'[c].custody = "none" /\ session'[t].state = "closed"
      /\ \A d \in Calls : d # c => call'[d] = call[d]
  BY <1>0, <1>2, CallSets DEF CloseSession, Go, TypeOK
<1>5. ASSUME NEW s \in Sessions PROVE Opened(s)'
  <2>1. CASE s = t
    BY <1>4, <2>1 DEF Opened
  <2>2. CASE s # t
    BY <1>0, <1>2, <1>3, <1>4, <2>2 DEF Opened, SessionsKept
  <2> QED BY <2>1, <2>2
<1>6. /\ \A s \in Sessions : InLine(s)'
      /\ \A d \in Calls : d # c /\ First(d) /\ call[d].session \in Sessions => First(d)'
  BY <1>0, <1>1, <1>2, <1>4, LineMovesUp
<1>7. ASSUME NEW d \in Calls, d # c PROVE Placed(d)'
  <2>1. call[d].pc \in Working /\ First(d) => First(d)'
    BY <1>0, <1>6, <1>7 DEF Placed, Working, Busy
  <2>2. call[d].pc # "idle" => coord'[call[d].session].closed = coord[call[d].session].closed
    BY <1>0, <1>3 DEF Placed
  <2> QED BY <1>0, <1>3, <1>4, <1>7, <2>1, <2>2, PlacedStays
<1>8. Placed(c)'
  BY <1>2, <1>3, <1>4 DEF Placed, Working, Busy
<1> QED BY <1>5, <1>6, <1>7, <1>8 DEF Ordered

(* New calls join a line or are answered at once.                          *)
LEMMA CallsOrdered ==
  ASSUME OrderInv, Kept, NEW c \in Calls, NEW s \in Sessions, RequestClose(c, s) \/ \E a \in Adapters : Coordinate(c, s, a)
  PROVE  Ordered' /\ HolderIsOpen'
<1>0. TypeOK /\ (\A t \in Sessions : InLine(t) /\ Opened(t)) /\ (\A d \in Calls : Placed(d)) /\ HolderIsOpen
  BY DEF OrderInv, RecordInv
<1>1. call[c].pc = "idle" /\ coord[s].captured /\ coord' = coord /\ session' = session /\ store' = store
  BY DEF RequestClose, Coordinate, runVars
<1>2. HolderIsOpen' /\ SessionsKept
  BY <1>0, <1>1 DEF HolderIsOpen, SessionsKept
<1>3. /\ call'[c].session = s /\ call'[c].custody = "none" /\ (\A d \in Calls : d # c => call'[d] = call[d])
      /\ \/ call'[c].pc \in Waiting /\ queue' = [queue EXCEPT ![s] = Append(@, c)]
         \/ call'[c].pc = "answered" /\ call'[c].answer \notin Ending /\ queue' = queue
  <2>1. call[c].custody = "none"
    BY <1>0, <1>1 DEF Placed
  <2> QED BY <1>0, <2>1, CallSets DEF RequestClose, Coordinate, Waiting, Ending, TypeOK
<1>4. ASSUME NEW t \in Sessions PROVE Opened(t)'
  <2>1. \A d \in Calls : call[d].pc = "close-session" => call'[d] = call[d]
    BY <1>1, <1>3
  <2> QED BY <1>0, <1>1, <2>1 DEF Opened
<1>5. /\ \A t \in Sessions : InLine(t)'
      /\ \A d \in Calls : d # c /\ First(d) /\ call[d].session \in Sessions => First(d)'
  <2>1. CASE call'[c].pc \in Waiting /\ queue' = [queue EXCEPT ![s] = Append(@, c)]
    BY <1>0, <1>1, <1>3, <2>1, LineGrows
  <2>2. CASE queue' = queue
    <3>1. ASSUME NEW t \in Sessions PROVE InLine(t)'
      <4>1. \A i \in 1 .. Len(queue[t]) : queue[t][i] \in Calls
        BY <1>0 DEF TypeOK
      <4>2. \A i \in 1 .. Len(queue[t]) : queue[t][i] # c
        BY <1>0, <1>1 DEF InLine, Waiting, Working, Busy
      <4> QED BY <1>0, <1>3, <2>2, <4>1, <4>2 DEF InLine
    <3> QED BY <1>3, <2>2, <3>1 DEF First
  <2> QED BY <1>3, <2>1, <2>2
<1>6. ASSUME NEW d \in Calls, d # c PROVE Placed(d)'
  <2>1. call[d].pc \in Working /\ First(d) => First(d)'
    BY <1>0, <1>5, <1>6 DEF Placed, Working, Busy
  <2> QED BY <1>0, <1>1, <1>2, <1>3, <1>6, <2>1, PlacedStays
<1>7. Placed(c)'
  BY <1>1, <1>3 DEF Placed, Waiting, Working, Busy
<1> QED BY <1>2, <1>4, <1>5, <1>6, <1>7 DEF Ordered

(* Results that are taken, sessions, coordinators and the kernel's events  *)
(* do not disturb the order.                                               *)
LEMMA RestOrdered ==
  ASSUME OrderInv, Kept,
         \/ \E c \in Calls : Take(c)
         \/ \E s \in Sessions : Open(s) \/ Capture(s) \/ Kernel(s)
         \/ UNCHANGED vars
  PROVE  Ordered' /\ HolderIsOpen'
<1>0. TypeOK /\ (\A t \in Sessions : InLine(t) /\ Opened(t)) /\ (\A d \in Calls : Placed(d)) /\ HolderIsOpen
  BY DEF OrderInv, RecordInv
<1>1. ASSUME NEW c \in Calls, Take(c) PROVE Ordered' /\ HolderIsOpen'
  <2>1. /\ queue' = queue /\ coord' = coord /\ session' = session /\ store' = store /\ call[c].custody = "held"
    BY <1>1 DEF Take, runVars
  <2>2. ASSUME NEW d \in Calls PROVE
          /\ call'[d].pc = call[d].pc /\ call'[d].session = call[d].session /\ call'[d].answer = call[d].answer
          /\ call'[d].observed = call[d].observed
          /\ call'[d].custody = call[d].custody \/ (call[d].custody = "held" /\ call'[d].custody \in {"taken", "destroyed"})
    BY <1>0, <1>1, CallSets DEF Take, TypeOK
  <2>3. ASSUME NEW t \in Sessions PROVE InLine(t)' /\ Opened(t)'
    <3>1. queue[t] \in Seq(Calls)
      BY <1>0 DEF TypeOK
    <3>2. InLine(t)'
      BY <1>0, <2>1, <2>2, <3>1, LineStays
    <3>3. Opened(t)'
      BY <1>0, <2>1, <2>2 DEF Opened
    <3> QED BY <3>2, <3>3
  <2>4. ASSUME NEW d \in Calls PROVE Placed(d)'
    <3>1. IsPublished(Event("started", d)) => IsPublished(Event("started", d))'
      BY Lines DEF Kept
    <3>2. First(d) => First(d)'
      BY <2>1, <2>2 DEF First
    <3> QED BY <1>0, <2>1, <2>2, <3>1, <3>2 DEF Placed
  <2> QED BY <1>0, <2>1, <2>3, <2>4 DEF Ordered, HolderIsOpen
<1>2. ASSUME call' = call, queue' = queue, SessionsKept,
             \A s \in Sessions : /\ coord[s].captured => coord'[s].captured
                                 /\ coord'[s].closed = coord[s].closed
                                 /\ coord'[s].captured => session'[s].state # "new"
      PROVE  Ordered' /\ HolderIsOpen'
  <2>1. ASSUME NEW t \in Sessions PROVE InLine(t)' /\ Opened(t)'
    BY <1>0, <1>2 DEF InLine, Opened, SessionsKept
  <2>2. ASSUME NEW d \in Calls PROVE Placed(d)'
    <3>1. (First(d) => First(d)') /\ (call[d].pc # "idle" => coord'[call[d].session].closed = coord[call[d].session].closed)
      BY <1>0, <1>2 DEF First, Placed
    <3> QED BY <1>0, <1>2, <3>1, PlacedStays
  <2> QED BY <1>2, <2>1, <2>2 DEF Ordered, SessionsKept
<1>3. ASSUME NEW s \in Sessions, Open(s) PROVE Ordered' /\ HolderIsOpen'
  <2>1. SessionsKept
    BY <1>0, <1>3, CoordinatorAssumption DEF Open, SessionsKept, HolderIsOpen, TypeOK
  <2>2. call' = call /\ queue' = queue /\ coord' = coord
    BY <1>3 DEF Open
  <2> QED BY <1>0, <1>2, <2>1, <2>2 DEF Opened, SessionsKept
<1>4. ASSUME NEW s \in Sessions, Capture(s) PROVE Ordered' /\ HolderIsOpen'
  <2>1. session' = session /\ store' = store /\ call' = call /\ queue' = queue /\ session[s].state # "new"
    BY <1>4 DEF Capture, Dispatchable, Inspectable, Live, runVars
  <2>2. \A t \in Sessions : coord'[t].closed = coord[t].closed /\ (coord[t].captured => coord'[t].captured)
                            /\ (t # s => coord'[t] = coord[t])
    BY <1>0, <1>4 DEF Capture, TypeOK
  <2>3. SessionsKept
    BY <1>0, <2>1 DEF SessionsKept, HolderIsOpen
  <2> QED BY <1>0, <1>2, <2>1, <2>2, <2>3 DEF Opened
<1>5. ASSUME NEW s \in Sessions, Kernel(s) PROVE Ordered' /\ HolderIsOpen'
  <2>1. call' = call /\ queue' = queue /\ coord' = coord /\ \E es, result : AppendEvents(s, es, result)
    BY <1>5 DEF Kernel
  <2>2. SessionsKept
    BY <1>0, <2>1, AppendSessions
  <2> QED BY <1>0, <1>2, <2>1, <2>2 DEF Opened, SessionsKept
<1>6. CASE UNCHANGED vars
  <2>1. call' = call /\ queue' = queue /\ coord' = coord /\ session' = session /\ store' = store
    BY <1>6 DEF vars, runVars
  <2>2. SessionsKept
    BY <1>0, <2>1 DEF SessionsKept, HolderIsOpen
  <2> QED BY <1>0, <1>2, <2>1, <2>2 DEF Opened
<1> QED BY <1>1, <1>3, <1>4, <1>5, <1>6

(* Every step keeps the order.                                             *)
LEMMA OrderStep ==
  ASSUME OrderInv, [Next]_vars
  PROVE  OrderInv'
<1>1. TypeOK /\ Kept /\ RecordInv'
  BY NextKeeps, NextProgress DEF RecordInv, OrderInv
<1>2. ASSUME NEW c \in Calls, Step(c) PROVE Ordered' /\ HolderIsOpen'
  <2>1. SessionsKept
    BY <1>2, StepSessions
  <2>2. Ordered'
    BY <1>1, <1>2, <2>1, StepKinds, BeginOrdered, ContinuesOrdered, ReconcileOrdered, CloseStateOrdered, CloseSessionOrdered
  <2> QED BY <2>1, <2>2 DEF SessionsKept
<1>3. Ordered' /\ HolderIsOpen'
  BY <1>1, <1>2, CallsOrdered, RestOrdered DEF Next
<1> QED BY <1>1, <1>3 DEF OrderInv, Ordered

(* At first nobody is in line.                                             *)
LEMMA InitOrder == Init => OrderInv
<1> SUFFICES ASSUME Init PROVE OrderInv
  OBVIOUS
<1>1. TypeOK
  BY CoordinatorAssumption DEF Init, TypeOK, IdleCall, CallStates, Events
<1>2. \A c \in Calls : call[c].pc = "idle" /\ call[c].custody = "none" /\ ~call[c].entered
  BY DEF Init, IdleCall
<1>3. RecordInv
  BY <1>1, <1>2 DEF RecordInv, Progress, NotEntered
<1>4. \A c \in Calls : Placed(c)
  BY <1>2 DEF Placed, Working, Busy
<1>5. HolderIsOpen /\ \A s \in Sessions : InLine(s) /\ Opened(s)
  BY CoordinatorAssumption DEF Init, HolderIsOpen, InLine, Opened
<1> QED BY <1>3, <1>4, <1>5 DEF OrderInv

(* For all constants: a result waits for its caller only while its         *)
(* coordinator is open, and none is released of an effect whose start is   *)
(* not published (destroyCustodies, takeRuntimeInvocationResultV01).       *)
THEOREM ResultsDie == Spec => []ResultsDieWithCoordinator
<1>1. OrderInv => ResultsDieWithCoordinator
  BY DEF OrderInv, Placed, ResultsDieWithCoordinator
<1>2. OrderInv /\ [Next]_vars => OrderInv'
  BY OrderStep
<1> QED BY InitOrder, <1>1, <1>2, PTL DEF Spec

(* For all constants: a call that failed, quarantined or closed has given  *)
(* the run's lock back when it is answered (closeState).                   *)
THEOREM LockIsFreed == Spec => []EndedCallsFreeTheLock
<1>1. OrderInv => EndedCallsFreeTheLock
  <2> SUFFICES ASSUME OrderInv PROVE EndedCallsFreeTheLock
    OBVIOUS
  <2>1. \A s \in Sessions : session[s].state = "closed" => store.holder # s
    BY DEF OrderInv, HolderIsOpen
  <2>2. ASSUME NEW c \in Calls, call[c].pc = "answered", call[c].answer \in Ending PROVE store.holder # call[c].session
    BY <2>1, <2>2 DEF OrderInv, Placed
  <2> QED BY <2>1, <2>2 DEF EndedCallsFreeTheLock, Answered, Ending
<1>2. OrderInv /\ [Next]_vars => OrderInv'
  BY OrderStep
<1> QED BY InitOrder, <1>1, <1>2, PTL DEF Spec
=============================================================================

---------------------- MODULE ProductHostLifecycleProofs ----------------------
(***************************************************************************)
(* For any processes, anchors and failures: the custody of the product     *)
(* host is whole wherever there is no lock; the anchors that were ever     *)
(* durably STABLE form one chain; a mutation that reports success is in it *)
(* and one that refuses has written nothing, and what an observer reads is *)
(* in it.                                                                  *)
(***************************************************************************)
EXTENDS ProductHostLifecycle, TLAPS

(* The variables are records of the fields the actions select.            *)
Shaped ==
  /\ DOMAIN files = {"lock", "lifecycle", "anchor"} /\ DOMAIN durable = {"lock", "lifecycle", "anchor"}
  /\ DOMAIN proc = Procs
  /\ \A p \in Procs : DOMAIN proc[p] = DOMAIN IdleProc

Mutating == {"examine", "replace", "sync", "confirm", "unlink"}

SameContents == files.lifecycle = durable.lifecycle /\ files.anchor = durable.anchor

(* What a mutation may rely on at each of its steps: the lock is its own,  *)
(* and has been durable since before it changed the files.                 *)
Custody(p) ==
  /\ proc[p].pc \in Mutating \cup {"locking"} => files.lock = p
  /\ proc[p].pc \in Mutating => durable.lock = p
  /\ proc[p].pc \in {"locking", "examine", "unlink"} => SameContents /\ Whole(files)
  /\ proc[p].pc = "confirm" => SameContents

(* UnlockedIsWhole is not inductive: a power loss mixes what the processes *)
(* see with what is durable, so the two must agree once either shows no    *)
(* lock.                                                                   *)
CustodyInv ==
  /\ files.lock = Free \/ durable.lock = Free => SameContents /\ Whole(files)
  /\ \A p \in Procs : Custody(p)

-----------------------------------------------------------------------------
(* They are at first: no file is there, and every process is idle.         *)
LEMMA InitShaped == Init => Shaped
BY LifecycleAssumption DEF Init, Empty, Shaped, IdleProc

(* What ending a call, or going to its next step, does to the processes.   *)
LEMMA EndsShape ==
  ASSUME Shaped, NEW p \in Procs, NEW answer, Ends(p, answer)
  PROVE  /\ DOMAIN proc' = Procs /\ \A q \in Procs : DOMAIN proc'[q] = DOMAIN IdleProc
         /\ proc'[p].pc = "done" /\ \A q \in Procs : q # p => proc'[q] = proc[q]
<1>1. proc' = [proc EXCEPT ![p] = [proc[p] EXCEPT !.pc = "done", !.answer = answer,
                                                 !.stage = "PREPARING", !.first = NoRecord]]
  BY DEF Ends, Shaped
<1>2. QED
  BY <1>1 DEF Shaped, IdleProc

LEMMA GotoShape ==
  ASSUME Shaped, NEW p \in Procs, NEW pc, Goto(p, pc)
  PROVE  /\ DOMAIN proc' = Procs /\ \A q \in Procs : DOMAIN proc'[q] = DOMAIN IdleProc
         /\ proc'[p].pc = pc /\ \A q \in Procs : q # p => proc'[q] = proc[q]
BY DEF Goto, Shaped, IdleProc

(* No call, failure or power loss adds a field or drops one.               *)
LEMMA ShapedStep ==
  ASSUME Shaped, [Next]_vars
  PROVE  Shaped'
<1>1. CASE PowerLoss
  BY <1>1 DEF PowerLoss, Persist, Shaped, IdleProc
<1>2. ASSUME NEW p \in Procs, Mutate(p) PROVE Shaped'
  <2>1. CASE \E a \in Anchors : CreateLock(p, a)
    BY <2>1 DEF CreateLock, Shaped, IdleProc
  <2>2. CASE \E a \in Anchors : LockExists(p, a)
    BY <2>2 DEF LockExists, Shaped, IdleProc
  <2>3. CASE \E a \in Anchors : LockFails(p, a)
    BY <2>3 DEF LockFails, Shaped, IdleProc
  <2>4. CASE SyncLock(p)
    BY <2>4, GotoShape DEF SyncLock, Persist, Shaped
  <2>5. CASE Examine(p)
    <3>1. CASE Ends(p, "RECOVERY_REQUIRED")
      BY <2>5, <3>1, EndsShape DEF Examine, Shaped
    <3>2. CASE Goto(p, "replace")
      BY <2>5, <3>2, GotoShape DEF Examine, Shaped
    <3>3. CASE proc' = [proc EXCEPT ![p].pc = "unlink", ![p].answer = "HOLD_PRECONDITION"]
      BY <2>5, <3>3 DEF Examine, Shaped, IdleProc
    <3>4. QED
      BY <2>5, <3>1, <3>2, <3>3 DEF Examine
  <2>6. CASE Replace(p)
    <3>1. DOMAIN files' = DOMAIN files /\ durable' = durable
      BY <2>6 DEF Replace, Replacement
    <3>2. DOMAIN proc' = Procs /\ \A q \in Procs : DOMAIN proc'[q] = DOMAIN IdleProc
      BY <2>6 DEF Replace, Shaped, IdleProc
    <3>3. QED
      BY <3>1, <3>2 DEF Shaped
  <2>7. CASE SyncReplaced(p)
    BY <2>7 DEF SyncReplaced, Persist, Shaped, IdleProc
  <2>8. CASE Confirm(p)
    <3>1. CASE Ends(p, "OUTCOME_UNKNOWN")
      BY <2>8, <3>1, EndsShape DEF Confirm, Shaped
    <3>2. CASE ~Ends(p, "OUTCOME_UNKNOWN")
      <4>1. PICK outcome : proc' = [proc EXCEPT ![p].pc = "unlink", ![p].answer = outcome]
        BY <2>8, <3>2 DEF Confirm
      <4>2. QED
        BY <2>8, <4>1 DEF Confirm, Shaped, IdleProc
    <3>3. QED
      BY <3>1, <3>2
  <2>9. CASE Unlink(p)
    BY <2>9, GotoShape DEF Unlink, Shaped
  <2>10. CASE SyncUnlink(p)
    BY <2>10, GotoShape DEF SyncUnlink, Persist, Shaped
  <2>11. CASE CheckReleased(p)
    BY <2>11, EndsShape, GotoShape DEF CheckReleased, Shaped
  <2>12. CASE \E a \in Anchors : ParentUntrusted(p, a)
    BY <2>12 DEF ParentUntrusted, Shaped, IdleProc
  <2>13. CASE Unbuildable(p)
    BY <2>13, EndsShape DEF Unbuildable, Shaped
  <2>14. QED
    BY <1>2, <2>1, <2>2, <2>3, <2>4, <2>5, <2>6, <2>7, <2>8, <2>9, <2>10, <2>11, <2>12, <2>13 DEF Mutate
<1>3. ASSUME NEW p \in Procs, Observe(p) PROVE Shaped'
  <2>1. CASE \E op \in {"observe", "reconcile"} : StartObserving(p, op)
    BY <2>1 DEF StartObserving, Shaped, IdleProc
  <2>2. CASE LookForLock(p)
    BY <2>2, EndsShape, GotoShape DEF LookForLock, Shaped
  <2>3. CASE ReadFirst(p)
    BY <2>3 DEF ReadFirst, Shaped, IdleProc
  <2>4. CASE ReadAnchor(p)
    BY <2>4 DEF ReadAnchor, Shaped, IdleProc
  <2>5. CASE ReadSecond(p)
    BY <2>5, EndsShape, GotoShape DEF ReadSecond, Shaped
  <2>6. CASE LookAgain(p)
    BY <2>6, EndsShape DEF LookAgain, Shaped
  <2>7. CASE Disturbed(p)
    BY <2>7, EndsShape DEF Disturbed, Shaped
  <2>8. QED
    BY <1>3, <2>1, <2>2, <2>3, <2>4, <2>5, <2>6, <2>7 DEF Observe
<1>4. ASSUME NEW p \in Procs, Return(p) \/ CallFails(p) \/ Crash(p) PROVE Shaped'
  <2>1. CASE Return(p)
    BY <2>1 DEF Return, Shaped, IdleProc
  <2>2. CASE CallFails(p)
    BY <2>2, EndsShape DEF CallFails, Shaped
  <2>3. CASE Crash(p)
    BY <2>3 DEF Crash, Shaped, IdleProc
  <2>4. QED
    BY <1>4, <2>1, <2>2, <2>3
<1>5. CASE UNCHANGED vars
  BY <1>5 DEF vars, Shaped
<1>6. QED
  BY <1>1, <1>2, <1>3, <1>4, <1>5 DEF Next

(* A step that changes no file, after which no process it moved is         *)
(* mutating, keeps the custody.                                            *)
LEMMA QuietStep ==
  ASSUME CustodyInv, UNCHANGED <<files, durable>>,
         \A q \in Procs : proc'[q] = proc[q] \/ proc'[q].pc \notin Mutating \cup {"locking"}
  PROVE  CustodyInv'
<1>1. ASSUME NEW q \in Procs PROVE Custody(q)'
  <2>1. CASE proc'[q] = proc[q]
    BY <2>1 DEF CustodyInv, Custody, SameContents, Whole
  <2>2. CASE proc'[q].pc \notin Mutating \cup {"locking"}
    BY <2>2 DEF Custody, Mutating
  <2>3. QED
    BY <2>1, <2>2
<1>2. QED
  BY <1>1 DEF CustodyInv, SameContents, Whole

(* While one process is mutating or creating its lock, no other is.        *)
LEMMA OneMutates ==
  ASSUME CustodyInv, NEW p \in Procs, NEW q \in Procs, q # p, files.lock = p
  PROVE  proc[q].pc \notin Mutating \cup {"locking"}
BY DEF CustodyInv, Custody

(* The owner of the lock moves from one step of its mutation to the next.  *)
LEMMA OwnerStep ==
  ASSUME CustodyInv, NEW p \in Procs, files.lock = p, files'.lock = p, durable'.lock = p,
         \A q \in Procs : q # p => proc'[q] = proc[q], Custody(p)'
  PROVE  CustodyInv'
<1>1. p # Free
  BY LifecycleAssumption
<1>2. ASSUME NEW q \in Procs PROVE Custody(q)'
  <2>1. CASE q # p
    BY <2>1, OneMutates DEF Custody, Mutating
  <2>2. QED
    BY <2>1
<1>3. QED
  BY <1>1, <1>2 DEF CustodyInv

(* Every step, failing or not, keeps the custody.                          *)
LEMMA CustodyStep ==
  ASSUME Shaped, CustodyInv, [Next]_vars
  PROVE  CustodyInv'
<1>1. CASE PowerLoss
  <2>1. files' = durable' /\ \A q \in Procs : proc'[q] = IdleProc
    BY <1>1 DEF PowerLoss, Persist
  <2>2. files'.lock = Free => Whole(files')
    <3>1. files'.lock \in {files.lock, durable.lock}
          /\ files'.lifecycle \in {files.lifecycle, durable.lifecycle}
          /\ files'.anchor \in {files.anchor, durable.anchor}
      BY <1>1 DEF PowerLoss
    <3>2. QED
      BY <3>1 DEF CustodyInv, SameContents, Whole
  <2>3. QED
    BY <2>1, <2>2 DEF CustodyInv, Custody, SameContents, IdleProc, Mutating
<1>2. ASSUME NEW p \in Procs, Mutate(p) PROVE CustodyInv'
  <2>1. CASE \E a \in Anchors : CreateLock(p, a)
    <3>1. files.lock = Free /\ SameContents /\ Whole(files)
      BY <2>1 DEF CreateLock, CustodyInv
    <3>2. files'.lock = p /\ files'.lifecycle = files.lifecycle /\ files'.anchor = files.anchor
          /\ durable' = durable
      BY <2>1 DEF CreateLock, Shaped
    <3>3. proc'[p].pc = "locking" /\ \A q \in Procs : q # p => proc'[q] = proc[q]
      BY <2>1 DEF CreateLock, Shaped, IdleProc
    <3>4. (SameContents /\ Whole(files))'
      BY <3>1, <3>2 DEF SameContents, Whole
    <3>5. ASSUME NEW q \in Procs PROVE Custody(q)'
      <4>1. CASE q = p
        BY <3>2, <3>3, <3>4, <4>1 DEF Custody, Mutating
      <4>2. CASE q # p
        <5>1. proc'[q].pc \notin Mutating \cup {"locking"}
          BY <3>1, <3>3, <4>2, LifecycleAssumption DEF CustodyInv, Custody
        <5>2. QED
          BY <5>1 DEF Custody, Mutating
      <4>3. QED
        BY <4>1, <4>2
    <3>6. QED
      BY <3>4, <3>5 DEF CustodyInv
  <2>2. CASE \E a \in Anchors : LockExists(p, a)
    <3>1. \A q \in Procs : proc'[q] = proc[q] \/ proc'[q].pc = "done"
      BY <2>2 DEF LockExists, Shaped, IdleProc
    <3>2. QED
      BY <2>2, <3>1, QuietStep DEF LockExists, Mutating
  <2>3. CASE \E a \in Anchors : LockFails(p, a)
    <3>1. files.lock = Free /\ SameContents /\ Whole(files)
      BY <2>3 DEF LockFails, CustodyInv
    <3>2. files'.lifecycle = files.lifecycle /\ files'.anchor = files.anchor /\ durable' = durable
      BY <2>3 DEF LockFails
    <3>3. \A q \in Procs : proc'[q] = proc[q] \/ proc'[q].pc = "done"
      BY <2>3 DEF LockFails, Shaped, IdleProc
    <3>4. (SameContents /\ Whole(files))'
      BY <3>1, <3>2 DEF SameContents, Whole
    <3>5. \A q \in Procs : proc[q].pc \notin Mutating \cup {"locking"}
      BY <3>1, LifecycleAssumption DEF CustodyInv, Custody
    <3>6. \A q \in Procs : proc'[q].pc \notin Mutating \cup {"locking"}
      BY <3>3, <3>5 DEF Mutating
    <3>7. QED
      BY <3>4, <3>6 DEF CustodyInv, Custody, Mutating
  <2>4. CASE SyncLock(p)
    <3>1. files' = files /\ durable' = files /\ files.lock = p /\ Whole(files)
      BY <2>4 DEF SyncLock, Persist, CustodyInv, Custody
    <3>2. proc'[p].pc = "examine" /\ \A q \in Procs : q # p => proc'[q] = proc[q]
      BY <2>4, GotoShape DEF SyncLock
    <3>3. Custody(p)'
      BY <3>1, <3>2 DEF Custody, SameContents, Whole
    <3>4. QED
      BY <3>1, <3>2, <3>3, OwnerStep
  <2>5. CASE Examine(p)
    <3>1. /\ files' = files /\ durable' = durable /\ files.lock = p /\ durable.lock = p
          /\ SameContents /\ Whole(files)
      BY <2>5 DEF Examine, CustodyInv, Custody, Mutating
    <3>2. CASE Ends(p, "RECOVERY_REQUIRED")
      <4>1. \A q \in Procs : proc'[q] = proc[q] \/ proc'[q].pc = "done"
        BY <3>2, EndsShape
      <4>2. QED
        BY <3>1, <4>1, QuietStep DEF Mutating
    <3>3. CASE ~Ends(p, "RECOVERY_REQUIRED")
      <4>1. proc'[p].pc \in {"replace", "unlink"} /\ \A q \in Procs : q # p => proc'[q] = proc[q]
        BY <2>5, <3>3, GotoShape DEF Examine, Shaped, IdleProc
      <4>2. Custody(p)'
        BY <3>1, <4>1 DEF Custody, SameContents, Whole
      <4>3. QED
        BY <3>1, <4>1, <4>2, OwnerStep
    <3>4. QED
      BY <3>2, <3>3
  <2>6. CASE Replace(p)
    <3>1. files.lock = p /\ durable.lock = p
      BY <2>6 DEF Replace, CustodyInv, Custody, Mutating
    <3>2. files'.lock = p /\ durable' = durable
      BY <2>6, <3>1 DEF Replace, Replacement
    <3>3. proc'[p].pc = "sync" /\ \A q \in Procs : q # p => proc'[q] = proc[q]
      BY <2>6 DEF Replace, Shaped, IdleProc
    <3>4. Custody(p)'
      BY <3>1, <3>2, <3>3 DEF Custody
    <3>5. QED
      BY <3>1, <3>2, <3>3, <3>4, OwnerStep
  <2>7. CASE SyncReplaced(p)
    <3>1. files' = files /\ durable' = files /\ files.lock = p
      BY <2>7 DEF SyncReplaced, Persist, CustodyInv, Custody, Mutating
    <3>2. proc'[p].pc \in {"confirm", "replace"} /\ \A q \in Procs : q # p => proc'[q] = proc[q]
      BY <2>7 DEF SyncReplaced, Shaped, IdleProc
    <3>3. Custody(p)'
      BY <3>1, <3>2 DEF Custody, SameContents
    <3>4. QED
      BY <3>1, <3>2, <3>3, OwnerStep
  <2>8. CASE Confirm(p)
    <3>1. files' = files /\ durable' = durable /\ files.lock = p /\ durable.lock = p /\ SameContents
      BY <2>8 DEF Confirm, CustodyInv, Custody, Mutating
    <3>2. CASE Ends(p, "OUTCOME_UNKNOWN")
      <4>1. \A q \in Procs : proc'[q] = proc[q] \/ proc'[q].pc = "done"
        BY <3>2, EndsShape
      <4>2. QED
        BY <3>1, <4>1, QuietStep DEF Mutating
    <3>3. CASE ~Ends(p, "OUTCOME_UNKNOWN")
      <4>1. Whole(files)
        BY <2>8, <3>3 DEF Confirm, Whole
      <4>2. PICK outcome : proc' = [proc EXCEPT ![p].pc = "unlink", ![p].answer = outcome]
        BY <2>8, <3>3 DEF Confirm
      <4>3. proc'[p].pc = "unlink" /\ \A q \in Procs : q # p => proc'[q] = proc[q]
        BY <4>2 DEF Shaped, IdleProc
      <4>4. Custody(p)'
        BY <3>1, <4>1, <4>3 DEF Custody, SameContents, Whole
      <4>5. QED
        BY <3>1, <4>3, <4>4, OwnerStep
    <3>4. QED
      BY <3>2, <3>3
  <2>9. CASE Unlink(p)
    <3>1. files.lock = p /\ SameContents /\ Whole(files)
      BY <2>9 DEF Unlink, CustodyInv, Custody
    <3>2. files'.lifecycle = files.lifecycle /\ files'.anchor = files.anchor /\ durable' = durable
      BY <2>9 DEF Unlink
    <3>3. proc'[p].pc = "sync-unlink" /\ \A q \in Procs : q # p => proc'[q] = proc[q]
      BY <2>9, GotoShape DEF Unlink
    <3>4. (SameContents /\ Whole(files))'
      BY <3>1, <3>2 DEF SameContents, Whole
    <3>5. \A q \in Procs : proc'[q].pc \notin Mutating \cup {"locking"}
      BY <3>1, <3>3, OneMutates DEF Mutating
    <3>6. QED
      BY <3>4, <3>5 DEF CustodyInv, Custody, Mutating
  <2>10. CASE SyncUnlink(p)
    <3>1. files' = files /\ durable' = files
      BY <2>10 DEF SyncUnlink, Persist
    <3>2. proc'[p].pc = "released" /\ \A q \in Procs : q # p => proc'[q] = proc[q]
      BY <2>10, GotoShape DEF SyncUnlink
    <3>3. files.lock = Free => Whole(files)
      BY DEF CustodyInv
    <3>4. SameContents'
      BY <3>1 DEF SameContents
    <3>5. ASSUME NEW q \in Procs PROVE Custody(q)'
      <4>1. CASE q = p
        BY <3>2, <4>1 DEF Custody, Mutating
      <4>2. CASE q # p
        <5>1. Custody(q) /\ proc'[q] = proc[q]
          BY <3>2, <4>2 DEF CustodyInv
        <5>2. QED
          BY <3>1, <3>4, <5>1 DEF Custody, Whole, Mutating
      <4>3. QED
        BY <4>1, <4>2
    <3>6. QED
      BY <3>1, <3>3, <3>4, <3>5 DEF CustodyInv, Whole
  <2>11. CASE CheckReleased(p)
    <3>1. \A q \in Procs : proc'[q] = proc[q] \/ proc'[q].pc \in {"done", "look"}
      BY <2>11, EndsShape, GotoShape DEF CheckReleased
    <3>2. QED
      BY <2>11, <3>1, QuietStep DEF CheckReleased, Mutating
  <2>12. CASE \E a \in Anchors : ParentUntrusted(p, a)
    <3>1. \A q \in Procs : proc'[q] = proc[q] \/ proc'[q].pc = "done"
      BY <2>12 DEF ParentUntrusted, Shaped, IdleProc
    <3>2. QED
      BY <2>12, <3>1, QuietStep DEF ParentUntrusted, Mutating
  <2>13. CASE Unbuildable(p)
    <3>1. \A q \in Procs : proc'[q] = proc[q] \/ proc'[q].pc = "done"
      BY <2>13, EndsShape DEF Unbuildable
    <3>2. QED
      BY <2>13, <3>1, QuietStep DEF Unbuildable, Mutating
  <2>14. QED
    BY <1>2, <2>1, <2>2, <2>3, <2>4, <2>5, <2>6, <2>7, <2>8, <2>9, <2>10, <2>11, <2>12, <2>13 DEF Mutate
<1>3. ASSUME NEW p \in Procs, Observe(p) PROVE CustodyInv'
  <2> DEFINE Elsewhere == {"look", "first", "anchor", "second", "look-again", "done"}
  <2>1. UNCHANGED <<files, durable>>
    BY <1>3 DEF Observe, StartObserving, LookForLock, ReadFirst, ReadAnchor, ReadSecond, LookAgain,
       Disturbed
  <2>2. \A q \in Procs : proc'[q] = proc[q] \/ proc'[q].pc \in Elsewhere
    <3>1. CASE \E op \in {"observe", "reconcile"} : StartObserving(p, op)
      BY <3>1 DEF StartObserving, Shaped, IdleProc
    <3>2. CASE LookForLock(p)
      BY <3>2, EndsShape, GotoShape DEF LookForLock
    <3>3. CASE ReadFirst(p)
      BY <3>3 DEF ReadFirst, Shaped, IdleProc
    <3>4. CASE ReadAnchor(p)
      BY <3>4 DEF ReadAnchor, Shaped, IdleProc
    <3>5. CASE ReadSecond(p)
      BY <3>5, EndsShape, GotoShape DEF ReadSecond
    <3>6. CASE LookAgain(p)
      BY <3>6, EndsShape DEF LookAgain
    <3>7. CASE Disturbed(p)
      BY <3>7, EndsShape DEF Disturbed
    <3>8. QED
      BY <1>3, <3>1, <3>2, <3>3, <3>4, <3>5, <3>6, <3>7 DEF Observe
  <2>3. QED
    BY <2>1, <2>2, QuietStep DEF Mutating
<1>4. ASSUME NEW p \in Procs, Return(p) \/ CallFails(p) \/ Crash(p) PROVE CustodyInv'
  <2>1. UNCHANGED <<files, durable>>
    BY <1>4 DEF Return, CallFails, Crash
  <2>2. \A q \in Procs : proc'[q] = proc[q] \/ proc'[q].pc \in {"idle", "done"}
    <3>1. CASE Return(p)
      BY <3>1 DEF Return, Shaped, IdleProc
    <3>2. CASE CallFails(p)
      BY <3>2, EndsShape DEF CallFails
    <3>3. CASE Crash(p)
      BY <3>3 DEF Crash, Shaped, IdleProc
    <3>4. QED
      BY <1>4, <3>1, <3>2, <3>3
  <2>3. QED
    BY <2>1, <2>2, QuietStep DEF Mutating
<1>5. CASE UNCHANGED vars
  BY <1>5, QuietStep DEF vars
<1>6. QED
  BY <1>1, <1>2, <1>3, <1>4, <1>5 DEF Next

(* Nothing to keep at first: nothing is installed, and nobody mutates.     *)
LEMMA InitCustody == Init => CustodyInv
BY LifecycleAssumption DEF Init, Empty, Shaped, IdleProc, NoRecord, Record, CustodyInv, Custody, Mutating, SameContents, Whole, Uninstalled

(* applyS37ProductHostAnchorMutationV03: whatever fails, wherever there is *)
(* no transition lock, either nothing is installed or the lifecycle is     *)
(* STABLE about the anchor there, on the disk too.                         *)
THEOREM CustodyIsWhole == LifecycleSpec => []UnlockedIsWhole
<1>1. Init => Shaped /\ CustodyInv
  BY InitShaped, InitCustody
<1>2. Shaped /\ CustodyInv /\ [Next]_vars => Shaped' /\ CustodyInv'
  BY ShapedStep, CustodyStep
<1>3. CustodyInv => UnlockedIsWhole
  BY DEF CustodyInv, UnlockedIsWhole, SameContents, Whole, Coherent, Uninstalled
<1>4. QED
  BY <1>1, <1>2, <1>3, PTL DEF LifecycleSpec

-----------------------------------------------------------------------------
(* The chain and the files: f is what the processes see of the files, d    *)
(* what is durable of them, k the anchors that were ever durably STABLE.   *)

Top(k) == IF Len(k) = 0 THEN Absent ELSE k[Len(k)]
TopRecord(k) == IF Len(k) = 0 THEN NoRecord ELSE Record("STABLE", Top(k))

Linear(k) ==
  \A i \in 1 .. Len(k) : Generation[k[i]] = i /\ (i > 1 => Predecessor[k[i]] = k[i - 1])

Follows(a, n, k) == Generation[a] = n + 1 /\ (n > 0 => Predecessor[a] = k[n])
InChain(a, k) == a \in Anchors /\ Generation[a] <= Len(k) /\ k[Generation[a]] = a

At(f, lifecycle, anchor) == f.lifecycle = lifecycle /\ f.anchor = anchor
Preparing(a) == Record("PREPARING", a)

(* Where they can be between two anchors, in the order in which a mutation *)
(* gets there.                                                             *)
Settled(f, d, k) == At(f, TopRecord(k), Top(k)) /\ At(d, TopRecord(k), Top(k))
Announced(a, f, d, k) == At(f, Preparing(a), Top(k)) /\ At(d, TopRecord(k), Top(k))
Prepared(a, f, d, k) == At(f, Preparing(a), Top(k)) /\ At(d, Preparing(a), Top(k))
Swapped(a, f, d, k) == At(f, Preparing(a), a) /\ At(d, Preparing(a), Top(k))
Installed(a, f, d) == At(f, Preparing(a), a) /\ At(d, Preparing(a), a)
Concluded(a, f, d) == At(f, Record("STABLE", a), a) /\ At(d, Preparing(a), a)

Halfway(a, f, d, k) ==
  \/ Announced(a, f, d, k) \/ Prepared(a, f, d, k) \/ Swapped(a, f, d, k)
  \/ Installed(a, f, d) \/ Concluded(a, f, d)

FilesInv(f, d, k) ==
  Settled(f, d, k) \/ \E a \in Anchors : Follows(a, Len(k), k) /\ Halfway(a, f, d, k)

(* What a mutation has achieved so far.                                    *)
Achieved(c, f, d, k) ==
  LET a == c.anchor IN
  /\ c.op = "mutate" => a \in Anchors
  /\ c.pc \in Mutating \cup {"locking"} => c.op = "mutate"
  /\ c.pc \in {"locking", "examine"} => c.stage = "PREPARING"
  /\ c.pc \in {"replace", "sync"} => c.stage \in {"PREPARING", "anchor", "STABLE"}
  /\ c.pc = "replace" =>
       /\ Follows(a, Len(k), k)
       /\ c.stage = "PREPARING" => Settled(f, d, k)
       /\ c.stage = "anchor" => Prepared(a, f, d, k)
       /\ c.stage = "STABLE" => Installed(a, f, d)
  /\ c.pc = "sync" /\ c.stage = "PREPARING" =>
       Follows(a, Len(k), k) /\ (Announced(a, f, d, k) \/ Prepared(a, f, d, k))
  /\ c.pc = "sync" /\ c.stage = "anchor" =>
       Follows(a, Len(k), k) /\ (Swapped(a, f, d, k) \/ Installed(a, f, d))
  /\ c.pc = "sync" /\ c.stage = "STABLE" =>
       (Follows(a, Len(k), k) /\ Concluded(a, f, d)) \/ (Settled(f, d, k) /\ InChain(a, k))
  /\ c.pc = "confirm" => InChain(a, k)

(* What a process has learnt: what its answer rests on, and the lifecycle  *)
(* record it has read.                                                     *)
Read(c, f, d, k) ==
  /\ c.first = NoRecord => c.base = 0
  /\ c.first.status = "STABLE" =>
       LET a == c.first.anchor IN
       a \in Anchors /\ Generation[a] >= c.base /\ (InChain(a, k) \/ Concluded(a, f, d))

Learnt(c, f, d, k) ==
  /\ c.base \in 0 .. Len(k)
  /\ c.answer \in {"INSTALLED", "TRANSITIONED"} => InChain(c.anchor, k)
  /\ c.answer \in {"STABLE", "UNINSTALLED"} => c.pc = "done"
  /\ c.pc \in {"anchor", "second", "look-again"} => Read(c, f, d, k)
  /\ c.answer = "STABLE" => InChain(c.seen, k) /\ Generation[c.seen] >= c.base
  /\ c.answer = "UNINSTALLED" => c.base = 0

(* ChainIsLinear is not inductive: an anchor becomes durably STABLE at any *)
(* sync of the directory, another process's included, so what the files    *)
(* hold must extend the chain from the moment it is written.               *)
ChainInv ==
  /\ chain \in Seq(Anchors) /\ Linear(chain)
  /\ FilesInv(files, durable, chain)
  /\ \A p \in Procs : /\ Achieved(proc[p], files, durable, chain)
                      /\ Learnt(proc[p], files, durable, chain)

-----------------------------------------------------------------------------
LEMMA RecordFields ==
  /\ NoRecord.status = "absent"
  /\ \A a : /\ Preparing(a).status = "PREPARING" /\ Preparing(a).anchor = a
            /\ Record("STABLE", a).status = "STABLE" /\ Record("STABLE", a).anchor = a
BY DEF NoRecord, Preparing, Record

LEMMA TopFacts ==
  ASSUME NEW k \in Seq(Anchors), Linear(k)
  PROVE  /\ Len(k) \in Nat
         /\ Len(k) = 0 => Top(k) = Absent /\ TopRecord(k) = NoRecord
         /\ Len(k) # 0 => /\ Top(k) = k[Len(k)] /\ Top(k) \in Anchors /\ Top(k) # Absent
                          /\ Generation[Top(k)] = Len(k) /\ InChain(Top(k), k)
                          /\ TopRecord(k) = Record("STABLE", Top(k))
BY LifecycleAssumption DEF Linear, Top, TopRecord, InChain

(* The chain grows at its end only.                                        *)
Grown(k, l) == Len(k) <= Len(l) /\ \A i \in 1 .. Len(k) : l[i] = k[i]

LEMMA AppendGrows ==
  ASSUME NEW k \in Seq(Anchors), Linear(k), NEW a \in Anchors, Follows(a, Len(k), k),
         NEW l, l = Append(k, a)
  PROVE  /\ l \in Seq(Anchors) /\ Linear(l) /\ Grown(k, l)
         /\ InChain(a, l) /\ Top(l) = a /\ TopRecord(l) = Record("STABLE", a)
<1>1. l \in Seq(Anchors) /\ Len(l) = Len(k) + 1 /\ Len(k) \in Nat
  OBVIOUS
<1>2. l[Len(k) + 1] = a /\ \A i \in 1 .. Len(k) : l[i] = k[i]
  OBVIOUS
<1>3. Linear(l)
  BY <1>1, <1>2 DEF Linear, Follows
<1>4. Grown(k, l)
  BY <1>1, <1>2 DEF Grown
<1>5. InChain(a, l)
  BY <1>1, <1>2 DEF InChain, Follows
<1>6. Top(l) = a /\ TopRecord(l) = Record("STABLE", a)
  BY <1>1, <1>2 DEF Top, TopRecord
<1> QED BY <1>1, <1>3, <1>4, <1>5, <1>6

LEMMA GrownKeeps ==
  ASSUME NEW k \in Seq(Anchors), NEW l \in Seq(Anchors), Grown(k, l)
  PROVE  \A a : InChain(a, k) => InChain(a, l)
<1>1. Len(k) \in Nat /\ Len(l) \in Nat /\ \A a \in Anchors : Generation[a] \in Nat \ {0}
  BY LifecycleAssumption
<1> QED BY <1>1 DEF InChain, Grown

(* Only one anchor can be half-way, and it follows the chain.              *)
LEMMA ConcludedFollows ==
  ASSUME NEW f, NEW d, NEW k, FilesInv(f, d, k), NEW a, Concluded(a, f, d)
  PROVE  a \in Anchors /\ Follows(a, Len(k), k)
<1>1. d.lifecycle = Preparing(a) /\ f.lifecycle = Record("STABLE", a)
  BY DEF Concluded, At
<1>2. f.lifecycle # d.lifecycle
  BY <1>1, RecordFields
<1>3. \A b : f.lifecycle # Preparing(b)
  BY <1>1, RecordFields
<1>4. ~Settled(f, d, k)
  BY <1>2 DEF Settled, At
<1>5. PICK b \in Anchors : Follows(b, Len(k), k) /\ Halfway(b, f, d, k)
  BY <1>4 DEF FilesInv
<1>6. Concluded(b, f, d)
  BY <1>3, <1>5 DEF Halfway, Announced, Prepared, Swapped, Installed, At
<1>7. f.anchor = b /\ f.anchor = a
  BY <1>6 DEF Concluded, At
<1> QED BY <1>5, <1>7

(* Where nothing is half-way, the files are about the end of the chain.    *)
LEMMA WholeIsSettled ==
  ASSUME NEW f, NEW d, NEW k, FilesInv(f, d, k),
         f.lifecycle = d.lifecycle, f.anchor = d.anchor, Whole(f)
  PROVE  Settled(f, d, k)
<1>1. f.lifecycle.status \in {"absent", "STABLE"}
  BY RecordFields DEF Whole, Uninstalled, Coherent
<1>2. \A b : f.lifecycle # Preparing(b)
  BY <1>1, RecordFields
<1>3. \A b : ~Halfway(b, f, d, k)
  BY <1>2 DEF Halfway, Announced, Prepared, Swapped, Installed, Concluded, At
<1> QED BY <1>3 DEF FilesInv

(* A sync of the directory makes durable what the files hold, and thereby  *)
(* the anchor they are STABLE about the end of the chain.                  *)
Synced(f, k) ==
  IF f.lifecycle.status = "STABLE" /\ (\A i \in 1 .. Len(k) : k[i] # f.lifecycle.anchor)
  THEN Append(k, f.lifecycle.anchor) ELSE k

LEMMA SyncFiles ==
  ASSUME NEW f, NEW d, NEW k \in Seq(Anchors), Linear(k), FilesInv(f, d, k), NEW l, l = Synced(f, k)
  PROVE  /\ l \in Seq(Anchors) /\ Linear(l) /\ Grown(k, l) /\ FilesInv(f, f, l)
         /\ Settled(f, d, k) => l = k /\ Settled(f, f, k)
         /\ \A a : /\ Announced(a, f, d, k) \/ Prepared(a, f, d, k) => l = k /\ Prepared(a, f, f, k)
                   /\ Swapped(a, f, d, k) \/ Installed(a, f, d) => l = k /\ Installed(a, f, f)
                   /\ Concluded(a, f, d) => InChain(a, l) /\ Settled(f, f, l)
<1>1. Grown(k, k)
  BY DEF Grown
<1>2. Settled(f, d, k) => l = k /\ Settled(f, f, k)
  <2> SUFFICES ASSUME Settled(f, d, k) PROVE l = k /\ Settled(f, f, k)
    OBVIOUS
  <2>1. At(f, TopRecord(k), Top(k))
    BY DEF Settled
  <2>2. CASE Len(k) = 0
    <3>1. f.lifecycle.status # "STABLE"
      BY <2>1, <2>2, TopFacts, RecordFields DEF At
    <3> QED BY <2>1, <3>1 DEF Synced, Settled
  <2>3. CASE Len(k) # 0
    <3>1. f.lifecycle.anchor = k[Len(k)] /\ Len(k) \in 1 .. Len(k)
      BY <2>1, <2>3, TopFacts, RecordFields DEF At
    <3> QED BY <2>1, <3>1 DEF Synced, Settled
  <2> QED BY <2>2, <2>3
<1>3. ASSUME NEW a, f.lifecycle = Preparing(a)
      PROVE  l = k
  BY <1>3, RecordFields DEF Synced
<1>4. \A a : Announced(a, f, d, k) \/ Prepared(a, f, d, k) => l = k /\ Prepared(a, f, f, k)
  BY <1>3 DEF Announced, Prepared, At
<1>5. \A a : Swapped(a, f, d, k) \/ Installed(a, f, d) => l = k /\ Installed(a, f, f)
  BY <1>3 DEF Swapped, Installed, At
<1>6. ASSUME NEW a, Concluded(a, f, d)
      PROVE  /\ l \in Seq(Anchors) /\ Linear(l) /\ Grown(k, l)
             /\ InChain(a, l) /\ Settled(f, f, l)
  <2>1. a \in Anchors /\ Follows(a, Len(k), k)
    BY <1>6, ConcludedFollows
  <2>2. f.lifecycle = Record("STABLE", a) /\ f.anchor = a
    BY <1>6 DEF Concluded, At
  <2>3. f.lifecycle.status = "STABLE" /\ f.lifecycle.anchor = a
    BY <2>2, RecordFields
  <2>4. \A i \in 1 .. Len(k) : k[i] # a
    BY <2>1 DEF Linear, Follows
  <2>5. l = Append(k, a)
    BY <2>3, <2>4 DEF Synced
  <2>6. /\ l \in Seq(Anchors) /\ Linear(l) /\ Grown(k, l)
        /\ InChain(a, l) /\ Top(l) = a /\ TopRecord(l) = Record("STABLE", a)
    BY <2>1, <2>5, AppendGrows
  <2> QED BY <2>2, <2>6 DEF Settled, At
<1>7. l \in Seq(Anchors) /\ Linear(l) /\ Grown(k, l) /\ FilesInv(f, f, l)
  <2>1. CASE Settled(f, d, k)
    BY <1>1, <1>2, <2>1 DEF FilesInv
  <2>2. CASE \E a \in Anchors : Follows(a, Len(k), k) /\ Halfway(a, f, d, k)
    <3>1. PICK a \in Anchors : Follows(a, Len(k), k) /\ Halfway(a, f, d, k)
      BY <2>2
    <3>2. CASE Announced(a, f, d, k) \/ Prepared(a, f, d, k)
      BY <1>1, <1>4, <3>1, <3>2 DEF FilesInv, Halfway
    <3>3. CASE Swapped(a, f, d, k) \/ Installed(a, f, d)
      BY <1>1, <1>5, <3>1, <3>3 DEF FilesInv, Halfway
    <3>4. CASE Concluded(a, f, d)
      BY <1>6, <3>4 DEF FilesInv
    <3> QED BY <3>1, <3>2, <3>3, <3>4 DEF Halfway
  <2> QED BY <2>1, <2>2 DEF FilesInv
<1> QED BY <1>2, <1>4, <1>5, <1>6, <1>7

-----------------------------------------------------------------------------
(* What the processes know survives the steps of the others.               *)

(* As long as the files hold the same, whatever becomes of the lock.       *)
LEMMA SameFiles ==
  ASSUME NEW f, NEW d, NEW k, NEW g, NEW e,
         f.lifecycle = g.lifecycle, f.anchor = g.anchor, d.lifecycle = e.lifecycle, d.anchor = e.anchor
  PROVE  /\ FilesInv(f, d, k) => FilesInv(g, e, k)
         /\ \A c : Achieved(c, f, d, k) => Achieved(c, g, e, k)
         /\ \A c : Learnt(c, f, d, k) => Learnt(c, g, e, k)
<1>1. /\ Settled(f, d, k) <=> Settled(g, e, k)
      /\ \A a : /\ Announced(a, f, d, k) <=> Announced(a, g, e, k)
                /\ Prepared(a, f, d, k) <=> Prepared(a, g, e, k)
                /\ Swapped(a, f, d, k) <=> Swapped(a, g, e, k)
                /\ Installed(a, f, d) <=> Installed(a, g, e)
                /\ Concluded(a, f, d) <=> Concluded(a, g, e)
  BY DEF Settled, Announced, Prepared, Swapped, Installed, Concluded, At
<1>2. FilesInv(f, d, k) => FilesInv(g, e, k)
  BY <1>1 DEF FilesInv, Halfway
<1>3. \A c : Achieved(c, f, d, k) => Achieved(c, g, e, k)
  BY <1>1 DEF Achieved
<1>4. \A c : Learnt(c, f, d, k) => Learnt(c, g, e, k)
  BY <1>1 DEF Learnt, Read
<1> QED BY <1>2, <1>3, <1>4

LEMMA LearntGrown ==
  ASSUME NEW f, NEW d, NEW k \in Seq(Anchors), NEW g, NEW e, NEW l \in Seq(Anchors), Grown(k, l),
         \A a : Concluded(a, f, d) => Concluded(a, g, e) \/ InChain(a, l),
         NEW c, Learnt(c, f, d, k)
  PROVE  Learnt(c, g, e, l)
<1>1. Len(k) \in Nat /\ Len(l) \in Nat /\ Len(k) <= Len(l) /\ c.base \in 0 .. Len(k)
  BY DEF Grown, Learnt
<1>2. \A a : InChain(a, k) => InChain(a, l)
  BY GrownKeeps
<1>3. Read(c, f, d, k) => Read(c, g, e, l)
  BY <1>2 DEF Read
<1> QED BY <1>1, <1>2, <1>3 DEF Learnt

LEMMA SyncAchieved ==
  ASSUME NEW f, NEW d, NEW k \in Seq(Anchors), Linear(k), FilesInv(f, d, k), NEW l, l = Synced(f, k),
         NEW c, Achieved(c, f, d, k)
  PROVE  Achieved(c, f, f, l)
<1> DEFINE a == c.anchor
<1>1. /\ Settled(f, d, k) => l = k /\ Settled(f, f, k)
      /\ Announced(a, f, d, k) \/ Prepared(a, f, d, k) => l = k /\ Prepared(a, f, f, k)
      /\ Swapped(a, f, d, k) \/ Installed(a, f, d) => l = k /\ Installed(a, f, f)
      /\ Concluded(a, f, d) => InChain(a, l) /\ Settled(f, f, l)
      /\ Grown(k, l) /\ l \in Seq(Anchors)
  BY SyncFiles
<1>2. InChain(a, k) => InChain(a, l)
  BY <1>1, GrownKeeps
<1> QED BY <1>1, <1>2 DEF Achieved

(* The processes as they were, the files and the chain as they are now.    *)
Carried ==
  /\ chain' \in Seq(Anchors) /\ Linear(chain')
  /\ FilesInv(files', durable', chain')
  /\ \A q \in Procs : /\ Achieved(proc[q], files', durable', chain')
                      /\ Learnt(proc[q], files', durable', chain')

LEMMA SteadyCarries ==
  ASSUME ChainInv, chain' = chain, durable' = durable,
         files'.lifecycle = files.lifecycle, files'.anchor = files.anchor
  PROVE  Carried
BY SameFiles DEF ChainInv, Carried

LEMMA SyncCarries ==
  ASSUME ChainInv, files' = files, Persist(files)
  PROVE  Carried /\ chain' = Synced(files, chain) /\ durable' = files
<1>1. durable' = files /\ chain' = Synced(files, chain)
  BY DEF Persist, Synced
<1>2. /\ chain \in Seq(Anchors) /\ Linear(chain) /\ FilesInv(files, durable, chain)
      /\ chain' \in Seq(Anchors) /\ Linear(chain') /\ Grown(chain, chain')
      /\ FilesInv(files, files, chain')
      /\ \A a : Concluded(a, files, durable) => InChain(a, chain')
  BY <1>1, SyncFiles DEF ChainInv
<1>3. \A q \in Procs : Achieved(proc[q], files, files, chain')
  BY <1>1, <1>2, SyncAchieved DEF ChainInv
<1>4. \A q \in Procs : Learnt(proc[q], files, files, chain')
  BY <1>2, LearntGrown DEF ChainInv
<1> QED BY <1>1, <1>2, <1>3, <1>4 DEF Carried

LEMMA CarriedStep ==
  ASSUME Carried, NEW p \in Procs, \A q \in Procs : q # p => proc'[q] = proc[q],
         Achieved(proc'[p], files', durable', chain'), Learnt(proc'[p], files', durable', chain')
  PROVE  ChainInv'
BY DEF Carried, ChainInv

-----------------------------------------------------------------------------
(* What the process that moves claims at its next step.                    *)

(* The same call, at another step of it.                                   *)
SameCall(b, c) == b.op = c.op /\ b.anchor = c.anchor /\ b.base = c.base

(* Steps at which a process claims nothing but the answer it has prepared. *)
Plain == {"sync-unlink", "released", "look", "first", "done"}

LEMMA PlainClaims ==
  ASSUME NEW c, NEW b, NEW f, NEW d, NEW k, Achieved(c, f, d, k), Learnt(c, f, d, k),
         SameCall(b, c), b.answer = c.answer, c.pc # "done", b.pc \in Plain
  PROVE  Achieved(b, f, d, k) /\ Learnt(b, f, d, k)
BY DEF SameCall, Plain, Achieved, Learnt, Mutating

Blank == {"none", "OUTCOME_UNKNOWN", "RECOVERY_REQUIRED", "ENFORCEMENT_UNAVAILABLE",
          "HOLD_PRECONDITION", "HOLD_CONCURRENT_TRANSITION"}

LEMMA BlankClaims ==
  ASSUME NEW c, NEW b, NEW f, NEW d, NEW k, Achieved(c, f, d, k), Learnt(c, f, d, k),
         SameCall(b, c), b.answer \in Blank, b.pc \in Plain
  PROVE  Achieved(b, f, d, k) /\ Learnt(b, f, d, k)
BY DEF SameCall, Plain, Blank, Achieved, Learnt, Mutating

(* A call that begins.                                                     *)
LEMMA FirstClaims ==
  ASSUME NEW b, NEW f, NEW d, NEW k \in Seq(Anchors), b.answer \in Blank, b.stage = "PREPARING",
         b.pc \in Plain \cup {"idle", "locking"}, b.base \in 0 .. Len(k),
         b.pc = "locking" => b.op = "mutate", b.op = "mutate" => b.anchor \in Anchors
  PROVE  Achieved(b, f, d, k) /\ Learnt(b, f, d, k)
BY DEF Plain, Blank, Achieved, Learnt, Mutating

LEMMA IdleClaims ==
  ASSUME NEW f, NEW d, NEW k \in Seq(Anchors)
  PROVE  Achieved(IdleProc, f, d, k) /\ Learnt(IdleProc, f, d, k)
<1>1. /\ IdleProc.answer = "none" /\ IdleProc.stage = "PREPARING" /\ IdleProc.pc = "idle"
      /\ IdleProc.base = 0 /\ IdleProc.op = "none" /\ Len(k) \in Nat
  BY DEF IdleProc
<1> QED BY <1>1, FirstClaims DEF Blank

(* A step by the rules of Goto or Ends, field by field.                    *)
LEMMA GotoFields ==
  ASSUME Shaped, NEW p \in Procs, NEW pc, Goto(p, pc)
  PROVE  /\ \A q \in Procs : q # p => proc'[q] = proc[q]
         /\ SameCall(proc'[p], proc[p]) /\ proc'[p].pc = pc /\ proc'[p].answer = proc[p].answer
         /\ proc'[p].stage = proc[p].stage /\ proc'[p].first = proc[p].first /\ proc'[p].seen = proc[p].seen
         /\ proc'[p].wrote = proc[p].wrote
<1>1. proc' = [proc EXCEPT ![p] = [proc[p] EXCEPT !.pc = pc]]
  BY DEF Goto, Shaped
<1> QED BY <1>1 DEF Shaped, IdleProc, SameCall

LEMMA EndsFields ==
  ASSUME Shaped, NEW p \in Procs, NEW answer, Ends(p, answer)
  PROVE  /\ \A q \in Procs : q # p => proc'[q] = proc[q]
         /\ SameCall(proc'[p], proc[p]) /\ proc'[p].pc = "done" /\ proc'[p].answer = answer
         /\ proc'[p].seen = proc[p].seen /\ proc'[p].wrote = proc[p].wrote
<1>1. proc' = [proc EXCEPT ![p] = [proc[p] EXCEPT !.pc = "done", !.answer = answer,
                                                 !.stage = "PREPARING", !.first = NoRecord]]
  BY DEF Ends, Shaped
<1> QED BY <1>1 DEF Shaped, IdleProc, SameCall

LEMMA PlainGoto ==
  ASSUME Shaped, Carried, NEW p \in Procs, NEW pc \in Plain, Goto(p, pc), proc[p].pc # "done"
  PROVE  ChainInv'
<1>1. /\ \A q \in Procs : q # p => proc'[q] = proc[q]
      /\ SameCall(proc'[p], proc[p]) /\ proc'[p].pc = pc /\ proc'[p].answer = proc[p].answer
  BY GotoFields
<1>2. /\ Achieved(proc[p], files', durable', chain') /\ Learnt(proc[p], files', durable', chain')
  BY DEF Carried
<1>3. /\ Achieved(proc'[p], files', durable', chain') /\ Learnt(proc'[p], files', durable', chain')
  BY <1>1, <1>2, PlainClaims
<1> QED BY <1>1, <1>3, CarriedStep

LEMMA BlankEnds ==
  ASSUME Shaped, Carried, NEW p \in Procs, NEW answer \in Blank, Ends(p, answer)
  PROVE  ChainInv'
<1>1. /\ \A q \in Procs : q # p => proc'[q] = proc[q]
      /\ SameCall(proc'[p], proc[p]) /\ proc'[p].pc = "done" /\ proc'[p].answer \in Blank
  BY EndsFields
<1>2. /\ Achieved(proc[p], files', durable', chain') /\ Learnt(proc[p], files', durable', chain')
  BY DEF Carried
<1>3. /\ Achieved(proc'[p], files', durable', chain') /\ Learnt(proc'[p], files', durable', chain')
  BY <1>1, <1>2, BlankClaims DEF Plain
<1> QED BY <1>1, <1>3, CarriedStep


-----------------------------------------------------------------------------
(* What a mutation compares its anchor with is the end of the chain.       *)
LEMMA SucceedsFollows ==
  ASSUME NEW f, NEW d, NEW k \in Seq(Anchors), Linear(k), Settled(f, d, k), NEW a \in Anchors
  PROVE  Succeeds(a, f) <=> Follows(a, Len(k), k)
<1>1. f.anchor = Top(k)
  BY DEF Settled, At
<1>2. Generation[a] \in Nat \ {0} /\ (Generation[a] = 1 <=> Predecessor[a] = Absent) /\ Len(k) \in Nat
  BY LifecycleAssumption DEF Authorized
<1>3. CASE Len(k) = 0
  <2>1. f.anchor = Absent
    BY <1>1, <1>3, TopFacts
  <2> QED BY <1>2, <1>3, <2>1 DEF Succeeds, Follows
<1>4. CASE Len(k) # 0
  <2>1. f.anchor = k[Len(k)] /\ f.anchor # Absent /\ Generation[f.anchor] = Len(k)
    BY <1>1, <1>4, TopFacts
  <2> QED BY <1>2, <1>4, <2>1 DEF Succeeds, Follows
<1> QED BY <1>3, <1>4

(* A power loss leaves of each file what it holds or what is durable of    *)
(* it: one of the places where a mutation can be.                          *)
LEMMA MixFiles ==
  ASSUME NEW f, NEW d, NEW k, FilesInv(f, d, k), NEW g,
         g.lifecycle \in {f.lifecycle, d.lifecycle}, g.anchor \in {f.anchor, d.anchor}
  PROVE  FilesInv(g, d, k)
<1>1. CASE Settled(f, d, k)
  <2>1. Settled(g, d, k)
    BY <1>1 DEF Settled, At
  <2> QED BY <2>1 DEF FilesInv
<1>2. ASSUME NEW a \in Anchors, Follows(a, Len(k), k), Halfway(a, f, d, k)
      PROVE  FilesInv(g, d, k)
  <2>1. CASE Announced(a, f, d, k)
    <3>1. Announced(a, g, d, k) \/ Settled(g, d, k)
      BY <2>1 DEF Announced, Settled, At
    <3> QED BY <1>2, <3>1 DEF FilesInv, Halfway
  <2>2. CASE Prepared(a, f, d, k)
    <3>1. Prepared(a, g, d, k)
      BY <2>2 DEF Prepared, At
    <3> QED BY <1>2, <3>1 DEF FilesInv, Halfway
  <2>3. CASE Swapped(a, f, d, k)
    <3>1. Swapped(a, g, d, k) \/ Prepared(a, g, d, k)
      BY <2>3 DEF Swapped, Prepared, At
    <3> QED BY <1>2, <3>1 DEF FilesInv, Halfway
  <2>4. CASE Installed(a, f, d)
    <3>1. Installed(a, g, d)
      BY <2>4 DEF Installed, At
    <3> QED BY <1>2, <3>1 DEF FilesInv, Halfway
  <2>5. CASE Concluded(a, f, d)
    <3>1. Concluded(a, g, d) \/ Installed(a, g, d)
      BY <2>5 DEF Concluded, Installed, At
    <3> QED BY <1>2, <3>1 DEF FilesInv, Halfway
  <2> QED BY <1>2, <2>1, <2>2, <2>3, <2>4, <2>5 DEF Halfway
<1> QED BY <1>1, <1>2 DEF FilesInv

(* Each replacement takes the mutation one place further.                  *)
LEMMA ReplacedFiles ==
  ASSUME Shaped, NEW c, NEW k, c.stage \in {"PREPARING", "anchor", "STABLE"}, c.pc = "replace",
         c.op = "mutate", Achieved(c, files, durable, k), files' = Replacement(files, c.stage, c.anchor)
  PROVE  /\ c.anchor \in Anchors /\ Follows(c.anchor, Len(k), k)
         /\ Halfway(c.anchor, files', durable, k)
         /\ c.stage = "PREPARING" => Announced(c.anchor, files', durable, k)
         /\ c.stage = "anchor" => Swapped(c.anchor, files', durable, k)
         /\ c.stage = "STABLE" => Concluded(c.anchor, files', durable)
         /\ \A a : ~Concluded(a, files, durable)
<1> DEFINE a == c.anchor
<1>1. DOMAIN files = {"lock", "lifecycle", "anchor"}
  BY DEF Shaped
<1>2. a \in Anchors /\ Follows(a, Len(k), k)
  BY DEF Achieved
<1>3. CASE c.stage = "PREPARING"
  <2>1. Settled(files, durable, k)
    BY <1>3 DEF Achieved
  <2>2. At(files', Preparing(a), Top(k)) /\ At(durable, TopRecord(k), Top(k))
    BY <1>1, <1>3, <2>1 DEF Replacement, Preparing, Settled, At
  <2>3. \A b : ~Concluded(b, files, durable)
    BY <2>1, RecordFields DEF Concluded, Settled, At
  <2> QED BY <1>2, <1>3, <2>2, <2>3 DEF Announced, Halfway
<1>4. CASE c.stage = "anchor"
  <2>1. Prepared(a, files, durable, k)
    BY <1>4 DEF Achieved
  <2>2. At(files', Preparing(a), a) /\ At(durable, Preparing(a), Top(k))
    BY <1>1, <1>4, <2>1 DEF Replacement, Prepared, At
  <2>3. \A b : ~Concluded(b, files, durable)
    BY <2>1, RecordFields DEF Concluded, Prepared, At
  <2> QED BY <1>2, <1>4, <2>2, <2>3 DEF Swapped, Halfway
<1>5. CASE c.stage = "STABLE"
  <2>1. Installed(a, files, durable)
    BY <1>5 DEF Achieved
  <2>2. At(files', Record("STABLE", a), a) /\ At(durable, Preparing(a), a)
    BY <1>1, <1>5, <2>1 DEF Replacement, Installed, At
  <2>3. \A b : ~Concluded(b, files, durable)
    BY <2>1, RecordFields DEF Concluded, Installed, At
  <2> QED BY <1>2, <1>5, <2>2, <2>3 DEF Concluded, Halfway
<1> QED BY <1>3, <1>4, <1>5

-----------------------------------------------------------------------------
(* The steps of a mutation.                                                *)

LEMMA NoStepCarries ==
  ASSUME ChainInv, UNCHANGED <<files, durable, chain>>
  PROVE  Carried
BY SteadyCarries

(* A call that begins, with the lock or without.                           *)
LEMMA BeginStep ==
  ASSUME Carried, chain' = chain, NEW p \in Procs, \A q \in Procs : q # p => proc'[q] = proc[q],
         proc'[p].answer \in Blank, proc'[p].stage = "PREPARING", proc'[p].base = Len(chain),
         proc'[p].pc \in {"locking", "look", "done"},
         proc'[p].op = "mutate" => proc'[p].anchor \in Anchors,
         proc'[p].pc = "locking" => proc'[p].op = "mutate"
  PROVE  ChainInv'
<1>1. chain' \in Seq(Anchors) /\ proc'[p].base \in 0 .. Len(chain')
  BY DEF Carried
<1>2. proc'[p].pc \in Plain \cup {"idle", "locking"}
  BY DEF Plain
<1>3. Achieved(proc'[p], files', durable', chain') /\ Learnt(proc'[p], files', durable', chain')
  BY <1>1, <1>2, FirstClaims
<1> QED BY <1>3, CarriedStep

LEMMA BeginSteps ==
  ASSUME Shaped, ChainInv, NEW p \in Procs,
         \/ \E a \in Anchors : ParentUntrusted(p, a) \/ CreateLock(p, a) \/ LockExists(p, a) \/ LockFails(p, a)
         \/ \E op \in {"observe", "reconcile"} : StartObserving(p, op)
  PROVE  ChainInv'
<1>1. ASSUME NEW a \in Anchors, CreateLock(p, a) PROVE ChainInv'
  <2>1. Carried /\ chain' = chain
    <3>1. /\ files'.lifecycle = files.lifecycle /\ files'.anchor = files.anchor
          /\ durable' = durable /\ chain' = chain
      BY <1>1 DEF CreateLock, Shaped
    <3> QED BY <3>1, SteadyCarries
  <2>2. /\ \A q \in Procs : q # p => proc'[q] = proc[q]
        /\ proc'[p] = [IdleProc EXCEPT !.pc = "locking", !.op = "mutate", !.anchor = a, !.base = Len(chain)]
    BY <1>1 DEF CreateLock, Shaped
  <2>3. /\ proc'[p].answer = "none" /\ proc'[p].stage = "PREPARING" /\ proc'[p].base = Len(chain)
        /\ proc'[p].pc = "locking" /\ proc'[p].op = "mutate" /\ proc'[p].anchor = a
    BY <2>2 DEF IdleProc
  <2> QED BY <2>1, <2>2, <2>3, BeginStep DEF Blank
<1>2. ASSUME NEW a \in Anchors, LockExists(p, a) PROVE ChainInv'
  <2>1. Carried /\ chain' = chain
    BY <1>2, NoStepCarries DEF LockExists
  <2>2. /\ \A q \in Procs : q # p => proc'[q] = proc[q]
        /\ proc'[p] = [IdleProc EXCEPT !.pc = "done", !.op = "mutate", !.anchor = a, !.base = Len(chain),
                                       !.answer = "HOLD_CONCURRENT_TRANSITION"]
    BY <1>2 DEF LockExists, Shaped
  <2>3. /\ proc'[p].answer = "HOLD_CONCURRENT_TRANSITION" /\ proc'[p].stage = "PREPARING"
        /\ proc'[p].base = Len(chain) /\ proc'[p].pc = "done" /\ proc'[p].anchor = a
    BY <2>2 DEF IdleProc
  <2> QED BY <2>1, <2>2, <2>3, BeginStep DEF Blank
<1>3. ASSUME NEW a \in Anchors, LockFails(p, a) PROVE ChainInv'
  <2>1. Carried /\ chain' = chain
    <3>1. /\ files'.lifecycle = files.lifecycle /\ files'.anchor = files.anchor
          /\ durable' = durable /\ chain' = chain
      BY <1>3 DEF LockFails, Shaped
    <3> QED BY <3>1, SteadyCarries
  <2>2. /\ \A q \in Procs : q # p => proc'[q] = proc[q]
        /\ proc'[p] = [IdleProc EXCEPT !.pc = "done", !.op = "mutate", !.anchor = a, !.base = Len(chain),
                                       !.answer = "OUTCOME_UNKNOWN"]
    BY <1>3 DEF LockFails, Shaped
  <2>3. /\ proc'[p].answer = "OUTCOME_UNKNOWN" /\ proc'[p].stage = "PREPARING"
        /\ proc'[p].base = Len(chain) /\ proc'[p].pc = "done" /\ proc'[p].anchor = a
    BY <2>2 DEF IdleProc
  <2> QED BY <2>1, <2>2, <2>3, BeginStep DEF Blank
<1>4. ASSUME NEW op \in {"observe", "reconcile"}, StartObserving(p, op) PROVE ChainInv'
  <2>1. Carried /\ chain' = chain
    BY <1>4, NoStepCarries DEF StartObserving
  <2>2. /\ \A q \in Procs : q # p => proc'[q] = proc[q]
        /\ proc'[p] = [IdleProc EXCEPT !.pc = "look", !.op = op, !.base = Len(chain)]
    BY <1>4 DEF StartObserving, Shaped
  <2>3. /\ proc'[p].answer = "none" /\ proc'[p].stage = "PREPARING" /\ proc'[p].base = Len(chain)
        /\ proc'[p].pc = "look" /\ proc'[p].op # "mutate"
    BY <2>2 DEF IdleProc
  <2> QED BY <2>1, <2>2, <2>3, BeginStep DEF Blank
<1>5. ASSUME NEW a \in Anchors, ParentUntrusted(p, a) PROVE ChainInv'
  <2>1. Carried /\ chain' = chain
    BY <1>5, NoStepCarries DEF ParentUntrusted
  <2>2. /\ \A q \in Procs : q # p => proc'[q] = proc[q]
        /\ proc'[p] = [IdleProc EXCEPT !.pc = "done", !.op = "mutate", !.anchor = a, !.base = Len(chain),
                                       !.answer = "HOLD_PRECONDITION"]
    BY <1>5 DEF ParentUntrusted, Shaped
  <2>3. /\ proc'[p].answer = "HOLD_PRECONDITION" /\ proc'[p].stage = "PREPARING"
        /\ proc'[p].base = Len(chain) /\ proc'[p].pc = "done" /\ proc'[p].anchor = a
    BY <2>2 DEF IdleProc
  <2> QED BY <2>1, <2>2, <2>3, BeginStep DEF Blank
<1> QED BY <1>1, <1>2, <1>3, <1>4, <1>5

LEMMA SyncLockChain ==
  ASSUME Shaped, ChainInv, NEW p \in Procs, SyncLock(p)
  PROVE  ChainInv'
<1>1. Carried
  BY SyncCarries DEF SyncLock
<1>2. /\ \A q \in Procs : q # p => proc'[q] = proc[q]
      /\ SameCall(proc'[p], proc[p]) /\ proc'[p].pc = "examine" /\ proc'[p].answer = proc[p].answer
      /\ proc'[p].stage = proc[p].stage /\ proc[p].pc = "locking"
  BY GotoFields DEF SyncLock
<1>3. Achieved(proc[p], files', durable', chain') /\ Learnt(proc[p], files', durable', chain')
  BY <1>1 DEF Carried
<1>4. Achieved(proc'[p], files', durable', chain')
  BY <1>2, <1>3 DEF Achieved, SameCall, Mutating
<1>5. Learnt(proc'[p], files', durable', chain')
  BY <1>2, <1>3 DEF Learnt, SameCall
<1> QED BY <1>1, <1>2, <1>4, <1>5, CarriedStep

(* The comparison is with the end of the chain: under its own lock, and    *)
(* with nothing half-way, that is what the files hold.                     *)
LEMMA ExamineChain ==
  ASSUME Shaped, CustodyInv, ChainInv, NEW p \in Procs, Examine(p)
  PROVE  ChainInv'
<1> DEFINE a == proc[p].anchor
<1>1. Carried /\ UNCHANGED <<files, durable, chain>> /\ proc[p].pc = "examine"
  BY NoStepCarries DEF Examine
<1>2. SameContents /\ Whole(files)
  BY <1>1 DEF CustodyInv, Custody
<1>3. Settled(files, durable, chain)
  BY <1>2, WholeIsSettled DEF ChainInv, SameContents
<1>4. Achieved(proc[p], files, durable, chain) /\ Learnt(proc[p], files, durable, chain)
  BY DEF ChainInv
<1>5. proc[p].op = "mutate" /\ a \in Anchors /\ proc[p].stage = "PREPARING"
  BY <1>1, <1>4 DEF Achieved, Mutating
<1>6. Succeeds(a, files) <=> Follows(a, Len(chain), chain)
  BY <1>3, <1>5, SucceedsFollows DEF ChainInv
<1>7. CASE Ends(p, "RECOVERY_REQUIRED")
  BY <1>1, <1>7, BlankEnds DEF Blank
<1>8. CASE Succeeds(a, files) /\ Goto(p, "replace")
  <2>1. /\ \A q \in Procs : q # p => proc'[q] = proc[q]
        /\ SameCall(proc'[p], proc[p]) /\ proc'[p].pc = "replace" /\ proc'[p].answer = proc[p].answer
        /\ proc'[p].stage = proc[p].stage
    BY <1>8, GotoFields
  <2>2. Achieved(proc'[p], files, durable, chain)
    BY <1>3, <1>5, <1>6, <1>8, <2>1 DEF Achieved, SameCall, Mutating
  <2>3. Learnt(proc'[p], files, durable, chain)
    BY <1>1, <1>4, <2>1 DEF Learnt, SameCall
  <2> QED BY <1>1, <2>1, <2>2, <2>3, CarriedStep
<1>9. CASE /\ ~Succeeds(a, files)
           /\ proc' = [proc EXCEPT ![p].pc = "unlink", ![p].answer = "HOLD_PRECONDITION"]
  <2>1. /\ \A q \in Procs : q # p => proc'[q] = proc[q]
        /\ proc'[p] = [proc[p] EXCEPT !.pc = "unlink", !.answer = "HOLD_PRECONDITION"]
    BY <1>9 DEF Shaped
  <2>2. /\ SameCall(proc'[p], proc[p]) /\ proc'[p].pc = "unlink" /\ proc'[p].answer = "HOLD_PRECONDITION"
    BY <2>1 DEF Shaped, IdleProc, SameCall
  <2>3. Achieved(proc'[p], files, durable, chain)
    BY <1>5, <2>2 DEF Achieved, SameCall, Mutating
  <2>4. Learnt(proc'[p], files, durable, chain)
    BY <1>4, <2>2 DEF Learnt, SameCall
  <2> QED BY <1>1, <2>1, <2>3, <2>4, CarriedStep
<1> QED BY <1>7, <1>8, <1>9 DEF Examine

(* Only one process mutates: nobody else relies on what it replaces.       *)
LEMMA ReplaceChain ==
  ASSUME Shaped, CustodyInv, ChainInv, NEW p \in Procs, Replace(p)
  PROVE  ChainInv'
<1> DEFINE c == proc[p]
<1>1. /\ durable' = durable /\ chain' = chain /\ c.pc = "replace"
      /\ files' = Replacement(files, c.stage, c.anchor)
  BY DEF Replace
<1>2. /\ \A q \in Procs : q # p => proc'[q] = proc[q]
      /\ SameCall(proc'[p], c) /\ proc'[p].pc = "sync" /\ proc'[p].answer = c.answer
      /\ proc'[p].stage = c.stage
  BY DEF Replace, Shaped, IdleProc, SameCall
<1>3. Achieved(c, files, durable, chain) /\ Learnt(c, files, durable, chain) /\ chain \in Seq(Anchors)
  BY DEF ChainInv
<1>4. c.stage \in {"PREPARING", "anchor", "STABLE"} /\ c.op = "mutate"
  BY <1>1, <1>3 DEF Achieved, Mutating
<1>5. /\ c.anchor \in Anchors /\ Follows(c.anchor, Len(chain), chain)
      /\ Halfway(c.anchor, files', durable, chain)
      /\ c.stage = "PREPARING" => Announced(c.anchor, files', durable, chain)
      /\ c.stage = "anchor" => Swapped(c.anchor, files', durable, chain)
      /\ c.stage = "STABLE" => Concluded(c.anchor, files', durable)
      /\ \A a : ~Concluded(a, files, durable)
  BY <1>1, <1>3, <1>4, ReplacedFiles
<1>6. FilesInv(files', durable, chain)
  BY <1>5 DEF FilesInv
<1>7. Grown(chain, chain)
  BY DEF Grown
<1>8. \A q \in Procs : Learnt(proc[q], files', durable, chain)
  BY <1>3, <1>5, <1>7, LearntGrown DEF ChainInv
<1>9. Learnt(proc'[p], files', durable, chain)
  BY <1>1, <1>2, <1>8 DEF Learnt, SameCall
<1>10. Achieved(proc'[p], files', durable, chain)
  BY <1>2, <1>4, <1>5 DEF Achieved, SameCall
<1>11. files.lock = p
  BY <1>1 DEF CustodyInv, Custody, Mutating
<1>12. ASSUME NEW q \in Procs, q # p PROVE Achieved(proc'[q], files', durable, chain)
  <2>1. proc[q].pc \notin Mutating \cup {"locking"}
    BY <1>11, <1>12, OneMutates
  <2>2. Achieved(proc[q], files, durable, chain) /\ proc'[q] = proc[q]
    BY <1>2, <1>12 DEF ChainInv
  <2> QED BY <2>1, <2>2 DEF Achieved, Mutating
<1>13. \A q \in Procs : Learnt(proc'[q], files', durable, chain)
  BY <1>2, <1>8, <1>9
<1>14. \A q \in Procs : Achieved(proc'[q], files', durable, chain)
  BY <1>10, <1>12
<1> QED BY <1>1, <1>6, <1>13, <1>14 DEF ChainInv

LEMMA SyncReplacedChain ==
  ASSUME Shaped, ChainInv, NEW p \in Procs, SyncReplaced(p)
  PROVE  ChainInv'
<1> DEFINE c == proc[p]
           b == proc'[p]
           next == [PREPARING |-> "anchor", anchor |-> "STABLE", STABLE |-> "STABLE"]
<1>1. Carried /\ chain' = Synced(files, chain) /\ durable' = files /\ files' = files /\ c.pc = "sync"
  BY SyncCarries DEF SyncReplaced
<1>2. /\ \A q \in Procs : q # p => proc'[q] = proc[q]
      /\ b = [c EXCEPT !.pc = IF c.stage = "STABLE" THEN "confirm" ELSE "replace", !.stage = next[c.stage]]
  BY DEF SyncReplaced, Shaped
<1>3. /\ SameCall(b, c) /\ b.answer = c.answer /\ b.stage = next[c.stage]
      /\ b.pc = IF c.stage = "STABLE" THEN "confirm" ELSE "replace"
  BY <1>2 DEF Shaped, IdleProc, SameCall
<1>4. /\ Achieved(c, files, durable, chain) /\ Learnt(c, files', durable', chain')
      /\ Achieved(c, files, files, chain')
      /\ chain \in Seq(Anchors) /\ Linear(chain) /\ FilesInv(files, durable, chain)
  BY <1>1 DEF ChainInv, Carried
<1>5. c.stage \in {"PREPARING", "anchor", "STABLE"} /\ c.op = "mutate"
  BY <1>1, <1>4 DEF Achieved, Mutating
<1>6. Learnt(b, files', durable', chain')
  BY <1>1, <1>3, <1>4 DEF Learnt, SameCall
<1>7. CASE c.stage = "PREPARING"
  <2>1. Follows(c.anchor, Len(chain), chain) /\ chain' = chain /\ Prepared(c.anchor, files, files, chain)
    BY <1>1, <1>4, <1>7, SyncFiles DEF Achieved
  <2>2. b.stage = "anchor" /\ b.pc = "replace"
    BY <1>3, <1>7
  <2>3. Achieved(b, files, files, chain')
    BY <1>3, <1>4, <1>5, <2>1, <2>2 DEF Achieved, SameCall
  <2> QED BY <1>1, <1>2, <1>6, <2>3, CarriedStep
<1>8. CASE c.stage = "anchor"
  <2>1. Follows(c.anchor, Len(chain), chain) /\ chain' = chain /\ Installed(c.anchor, files, files)
    BY <1>1, <1>4, <1>8, SyncFiles DEF Achieved
  <2>2. b.stage = "STABLE" /\ b.pc = "replace"
    BY <1>3, <1>8
  <2>3. Achieved(b, files, files, chain')
    BY <1>3, <1>4, <1>5, <2>1, <2>2 DEF Achieved, SameCall
  <2> QED BY <1>1, <1>2, <1>6, <2>3, CarriedStep
<1>9. CASE c.stage = "STABLE"
  <2>1. b.pc = "confirm"
    BY <1>3, <1>9
  <2>2. InChain(c.anchor, chain')
    <3>1. CASE Concluded(c.anchor, files, durable)
      BY <1>1, <1>4, <3>1, SyncFiles
    <3>2. CASE Settled(files, durable, chain) /\ InChain(c.anchor, chain)
      BY <1>1, <1>4, <3>2, SyncFiles
    <3> QED BY <1>1, <1>4, <1>9, <3>1, <3>2 DEF Achieved
  <2>3. Achieved(b, files, files, chain')
    BY <1>3, <1>4, <1>5, <2>1, <2>2 DEF Achieved, SameCall
  <2> QED BY <1>1, <1>2, <1>6, <2>3, CarriedStep
<1> QED BY <1>5, <1>7, <1>8, <1>9

LEMMA ConfirmChain ==
  ASSUME Shaped, ChainInv, NEW p \in Procs, Confirm(p)
  PROVE  ChainInv'
<1> DEFINE c == proc[p]
           outcome == IF Generation[c.anchor] = 1 THEN "INSTALLED" ELSE "TRANSITIONED"
<1>1. Carried /\ UNCHANGED <<files, durable, chain>> /\ c.pc = "confirm"
  BY NoStepCarries DEF Confirm
<1>2. Achieved(c, files, durable, chain) /\ Learnt(c, files, durable, chain)
  BY DEF ChainInv
<1>3. InChain(c.anchor, chain) /\ c.op = "mutate" /\ c.anchor \in Anchors
  BY <1>1, <1>2 DEF Achieved, Mutating
<1>4. CASE Ends(p, "OUTCOME_UNKNOWN")
  BY <1>1, <1>4, BlankEnds DEF Blank
<1>5. CASE proc' = [proc EXCEPT ![p].pc = "unlink", ![p].answer = outcome]
  <2>1. /\ \A q \in Procs : q # p => proc'[q] = proc[q]
        /\ proc'[p] = [c EXCEPT !.pc = "unlink", !.answer = outcome]
    BY <1>5 DEF Shaped
  <2>2. SameCall(proc'[p], c) /\ proc'[p].pc = "unlink" /\ proc'[p].answer = outcome
    BY <2>1 DEF Shaped, IdleProc, SameCall
  <2>3. Achieved(proc'[p], files, durable, chain)
    BY <1>3, <2>2 DEF Achieved, SameCall
  <2>4. Learnt(proc'[p], files, durable, chain)
    BY <1>2, <1>3, <2>2 DEF Learnt, SameCall
  <2> QED BY <1>1, <2>1, <2>3, <2>4, CarriedStep
<1> QED BY <1>4, <1>5 DEF Confirm

(* The lock is given up, and the answer with it.                           *)
LEMMA ReleaseChain ==
  ASSUME Shaped, ChainInv, NEW p \in Procs, Unlink(p) \/ SyncUnlink(p) \/ CheckReleased(p)
  PROVE  ChainInv'
<1>1. CASE Unlink(p)
  <2>1. Goto(p, "sync-unlink") /\ proc[p].pc = "unlink"
    BY <1>1 DEF Unlink
  <2>2. /\ files'.lifecycle = files.lifecycle /\ files'.anchor = files.anchor
        /\ durable' = durable /\ chain' = chain
    BY <1>1 DEF Unlink, Shaped
  <2>3. Carried
    BY <2>2, SteadyCarries
  <2> QED BY <2>1, <2>3, PlainGoto DEF Plain
<1>2. CASE SyncUnlink(p)
  <2>1. Goto(p, "released") /\ proc[p].pc = "sync-unlink" /\ Carried
    BY <1>2, SyncCarries DEF SyncUnlink
  <2> QED BY <2>1, PlainGoto DEF Plain
<1>3. CASE CheckReleased(p)
  <2>1. Carried /\ UNCHANGED <<files, durable, chain>> /\ proc[p].pc = "released"
    BY <1>3, NoStepCarries DEF CheckReleased
  <2>2. CASE Ends(p, "OUTCOME_UNKNOWN")
    BY <2>1, <2>2, BlankEnds DEF Blank
  <2>3. CASE proc[p].answer = "HOLD_PRECONDITION" /\ Ends(p, "HOLD_PRECONDITION")
    <3>1. /\ \A q \in Procs : q # p => proc'[q] = proc[q]
          /\ SameCall(proc'[p], proc[p]) /\ proc'[p].pc = "done" /\ proc'[p].answer = proc[p].answer
      BY <2>3, EndsFields
    <3>2. Achieved(proc[p], files', durable', chain') /\ Learnt(proc[p], files', durable', chain')
      BY <2>1 DEF Carried
    <3>3. Achieved(proc'[p], files', durable', chain') /\ Learnt(proc'[p], files', durable', chain')
      BY <2>1, <3>1, <3>2, PlainClaims DEF Plain
    <3> QED BY <2>1, <3>1, <3>3, CarriedStep
  <2>4. CASE Goto(p, "look")
    BY <2>1, <2>4, PlainGoto DEF Plain
  <2> QED BY <1>3, <2>2, <2>3, <2>4 DEF CheckReleased
<1> QED BY <1>1, <1>2, <1>3

-----------------------------------------------------------------------------
(* The steps of an observation.                                            *)

(* What the lifecycle says is durable, or will be at the next sync; and it *)
(* says no less than the chain does.                                       *)
LEMMA ReadFacts ==
  ASSUME NEW f, NEW d, NEW k \in Seq(Anchors), Linear(k), FilesInv(f, d, k)
  PROVE  /\ f.lifecycle = NoRecord => Len(k) = 0
         /\ f.lifecycle.status = "STABLE" =>
              LET a == f.lifecycle.anchor IN
              a \in Anchors /\ Generation[a] >= Len(k) /\ (InChain(a, k) \/ Concluded(a, f, d))
<1>1. CASE Settled(f, d, k)
  <2>1. f.lifecycle = TopRecord(k) /\ Len(k) \in Nat
    BY <1>1 DEF Settled, At
  <2>2. CASE Len(k) = 0
    <3>1. f.lifecycle.status # "STABLE"
      BY <2>1, <2>2, TopFacts, RecordFields
    <3> QED BY <2>2, <3>1
  <2>3. CASE Len(k) # 0
    <3>1. /\ Top(k) \in Anchors /\ Generation[Top(k)] = Len(k) /\ InChain(Top(k), k)
          /\ f.lifecycle = Record("STABLE", Top(k))
      BY <2>1, <2>3, TopFacts
    <3>2. f.lifecycle # NoRecord /\ f.lifecycle.anchor = Top(k)
      BY <3>1, RecordFields
    <3> QED BY <2>1, <3>1, <3>2
  <2> QED BY <2>2, <2>3
<1>2. ASSUME NEW b \in Anchors, Follows(b, Len(k), k), Halfway(b, f, d, k)
      PROVE  /\ f.lifecycle # NoRecord
             /\ f.lifecycle.status = "STABLE" =>
                  LET a == f.lifecycle.anchor IN
                  a \in Anchors /\ Generation[a] >= Len(k) /\ Concluded(a, f, d)
  <2>1. CASE f.lifecycle = Preparing(b)
    BY <2>1, RecordFields
  <2>2. CASE Concluded(b, f, d)
    <3>1. f.lifecycle = Record("STABLE", b)
      BY <2>2 DEF Concluded, At
    <3>2. f.lifecycle # NoRecord /\ f.lifecycle.anchor = b
      BY <3>1, RecordFields
    <3>3. Generation[b] = Len(k) + 1 /\ Len(k) \in Nat
      BY <1>2 DEF Follows
    <3> QED BY <2>2, <3>2, <3>3
  <2> QED BY <1>2, <2>1, <2>2 DEF Halfway, Announced, Prepared, Swapped, Installed, At
<1> QED BY <1>1, <1>2 DEF FilesInv

LEMMA UnobservedIsBlank == \A p : Unobserved(p) \in Blank
BY DEF Unobserved, Blank

(* While it reads, a process claims what it has read.                      *)
LEMMA ReadingClaims ==
  ASSUME NEW c, NEW b, NEW f, NEW d, NEW k, Achieved(c, f, d, k), Learnt(c, f, d, k),
         SameCall(b, c), b.answer = c.answer, c.pc # "done", b.pc \in {"anchor", "second", "look-again"},
         Read(b, f, d, k)
  PROVE  Achieved(b, f, d, k) /\ Learnt(b, f, d, k)
BY DEF SameCall, Achieved, Learnt, Mutating

LEMMA ReadingChain ==
  ASSUME Shaped, ChainInv, NEW p \in Procs, ReadFirst(p) \/ ReadAnchor(p) \/ ReadSecond(p)
  PROVE  ChainInv'
<1>1. Carried /\ UNCHANGED <<files, durable, chain>>
  BY NoStepCarries DEF ReadFirst, ReadAnchor, ReadSecond
<1>2. /\ Achieved(proc[p], files, durable, chain) /\ Learnt(proc[p], files, durable, chain)
      /\ chain \in Seq(Anchors) /\ Linear(chain) /\ FilesInv(files, durable, chain)
  BY DEF ChainInv
<1>3. CASE ReadFirst(p)
  <2>1. /\ \A q \in Procs : q # p => proc'[q] = proc[q]
        /\ proc'[p] = [proc[p] EXCEPT !.pc = "anchor", !.first = files.lifecycle]
    BY <1>3 DEF ReadFirst, Shaped
  <2>2. /\ SameCall(proc'[p], proc[p]) /\ proc'[p].answer = proc[p].answer /\ proc'[p].pc = "anchor"
        /\ proc'[p].first = files.lifecycle
    BY <2>1 DEF Shaped, IdleProc, SameCall
  <2>3. proc[p].pc # "done" /\ proc'[p].base = proc[p].base
    BY <1>3, <2>2 DEF ReadFirst, SameCall
  <2>4. proc[p].base \in 0 .. Len(chain) /\ Len(chain) \in Nat
    BY <1>2 DEF Learnt
  <2>5. Read(proc'[p], files, durable, chain)
    <3>1. files.lifecycle = NoRecord => proc[p].base = 0
      BY <1>2, <2>4, ReadFacts
    <3>2. ASSUME files.lifecycle.status = "STABLE"
          PROVE  LET a == files.lifecycle.anchor IN
                 a \in Anchors /\ Generation[a] >= proc[p].base
                 /\ (InChain(a, chain) \/ Concluded(a, files, durable))
      <4> DEFINE a == files.lifecycle.anchor
      <4>1. a \in Anchors /\ Generation[a] >= Len(chain) /\ (InChain(a, chain) \/ Concluded(a, files, durable))
        BY <1>2, <3>2, ReadFacts
      <4>2. Generation[a] \in Nat
        BY <4>1, LifecycleAssumption
      <4> QED BY <2>4, <4>1, <4>2
    <3> QED BY <2>2, <2>3, <3>1, <3>2 DEF Read
  <2>6. Achieved(proc'[p], files, durable, chain) /\ Learnt(proc'[p], files, durable, chain)
    BY <1>2, <2>2, <2>3, <2>5, ReadingClaims
  <2> QED BY <1>1, <2>1, <2>6, CarriedStep
<1>4. CASE ReadAnchor(p)
  <2>1. /\ \A q \in Procs : q # p => proc'[q] = proc[q]
        /\ proc'[p] = [proc[p] EXCEPT !.pc = "second", !.seen = files.anchor]
    BY <1>4 DEF ReadAnchor, Shaped
  <2>2. /\ SameCall(proc'[p], proc[p]) /\ proc'[p].answer = proc[p].answer /\ proc'[p].pc = "second"
        /\ proc'[p].first = proc[p].first /\ proc[p].pc = "anchor"
    BY <1>4, <2>1 DEF Shaped, IdleProc, SameCall, ReadAnchor
  <2>3. Read(proc'[p], files, durable, chain)
    BY <1>2, <2>2 DEF Learnt, Read, SameCall
  <2>4. Achieved(proc'[p], files, durable, chain) /\ Learnt(proc'[p], files, durable, chain)
    BY <1>2, <2>2, <2>3, ReadingClaims
  <2> QED BY <1>1, <2>1, <2>4, CarriedStep
<1>5. CASE ReadSecond(p) /\ Goto(p, "look-again")
  <2>1. /\ \A q \in Procs : q # p => proc'[q] = proc[q]
        /\ SameCall(proc'[p], proc[p]) /\ proc'[p].pc = "look-again" /\ proc'[p].answer = proc[p].answer
        /\ proc'[p].first = proc[p].first /\ proc[p].pc = "second"
    BY <1>5, GotoFields DEF ReadSecond
  <2>2. Read(proc'[p], files, durable, chain)
    BY <1>2, <2>1 DEF Learnt, Read, SameCall
  <2>3. Achieved(proc'[p], files, durable, chain) /\ Learnt(proc'[p], files, durable, chain)
    BY <1>2, <2>1, <2>2, ReadingClaims
  <2> QED BY <1>1, <2>1, <2>3, CarriedStep
<1>6. CASE ReadSecond(p) /\ Ends(p, Unobserved(p))
  BY <1>1, <1>6, UnobservedIsBlank, BlankEnds
<1> QED BY <1>3, <1>4, <1>5, <1>6 DEF ReadSecond

(* What was read is in the chain once the lock is absent: then the disk    *)
(* holds what the processes see.                                           *)
LEMMA LookAgainChain ==
  ASSUME Shaped, CustodyInv, ChainInv, NEW p \in Procs, LookAgain(p)
  PROVE  ChainInv'
<1> DEFINE c == proc[p]
           b == proc'[p]
           answer == IF files.lock = Free THEN Observed(p) ELSE Unobserved(p)
<1>1. Carried /\ UNCHANGED <<files, durable, chain>> /\ c.pc = "look-again" /\ Ends(p, answer)
  BY NoStepCarries DEF LookAgain
<1>2. /\ \A q \in Procs : q # p => proc'[q] = proc[q]
      /\ SameCall(b, c) /\ b.pc = "done" /\ b.answer = answer /\ b.seen = c.seen
  BY <1>1, EndsFields
<1>3. Achieved(c, files, durable, chain) /\ Learnt(c, files, durable, chain) /\ Read(c, files, durable, chain)
  BY <1>1 DEF ChainInv, Learnt
<1>4. CASE answer \in Blank
  BY <1>1, <1>4, BlankEnds
<1>5. CASE answer = c.answer
  <2>1. Achieved(b, files, durable, chain) /\ Learnt(b, files, durable, chain)
    BY <1>1, <1>2, <1>3, <1>5, PlainClaims DEF Plain
  <2> QED BY <1>1, <1>2, <2>1, CarriedStep
<1>6. Achieved(b, files, durable, chain)
  BY <1>2, <1>3 DEF Achieved, SameCall, Mutating
<1>7. CASE answer = "UNINSTALLED" /\ Uninstalled(c.first, c.seen, c.first)
  <2>1. b.base = 0 /\ b.base = c.base
    BY <1>2, <1>3, <1>7 DEF Uninstalled, Read, SameCall
  <2>2. Learnt(b, files, durable, chain)
    BY <1>2, <1>3, <1>7, <2>1 DEF Learnt
  <2> QED BY <1>1, <1>2, <1>6, <2>2, CarriedStep
<1>8. CASE answer = "STABLE" /\ Coherent(c.first, c.seen, c.first) /\ files.lock = Free
  <2>1. c.first.status = "STABLE" /\ c.first.anchor = c.seen
    BY <1>8, RecordFields DEF Coherent
  <2>2. Generation[c.seen] >= c.base /\ (InChain(c.seen, chain) \/ Concluded(c.seen, files, durable))
    BY <1>3, <2>1 DEF Read
  <2>3. ~Concluded(c.seen, files, durable)
    <3>1. files.lifecycle = durable.lifecycle
      BY <1>8 DEF CustodyInv, SameContents
    <3> QED BY <3>1, RecordFields DEF Concluded, At
  <2>4. Learnt(b, files, durable, chain)
    BY <1>2, <1>3, <1>8, <2>2, <2>3 DEF Learnt, SameCall
  <2> QED BY <1>1, <1>2, <1>6, <2>4, CarriedStep
<1> QED BY <1>4, <1>5, <1>7, <1>8, UnobservedIsBlank DEF Observed, Blank

-----------------------------------------------------------------------------
(* Each name is found as it was or as it was when last synced, and that is *)
(* synced: the chain is as long as before, or longer by one.               *)
LEMMA PowerLossChain ==
  ASSUME ChainInv, PowerLoss
  PROVE  ChainInv'
<1>1. PICK lock \in {files.lock, durable.lock}, lifecycle \in {files.lifecycle, durable.lifecycle},
           anchor \in {files.anchor, durable.anchor} :
        /\ files' = [lock |-> lock, lifecycle |-> lifecycle, anchor |-> anchor]
        /\ Persist(files')
  BY DEF PowerLoss
<1>2. FilesInv(files', durable, chain)
  BY <1>1, MixFiles DEF ChainInv
<1>3. durable' = files' /\ chain' = Synced(files', chain)
  BY <1>1 DEF Persist, Synced
<1>4. chain' \in Seq(Anchors) /\ Linear(chain') /\ FilesInv(files', durable', chain')
  BY <1>2, <1>3, SyncFiles DEF ChainInv
<1>5. \A q \in Procs : proc'[q] = IdleProc
  BY DEF PowerLoss
<1> QED BY <1>4, <1>5, IdleClaims DEF ChainInv

(* The calls of a process that ends one.                                   *)
LEMMA EndingChain ==
  ASSUME Shaped, ChainInv, NEW p \in Procs, Return(p) \/ CallFails(p) \/ Crash(p)
  PROVE  ChainInv'
<1>1. Carried /\ UNCHANGED <<files, durable, chain>>
  BY NoStepCarries DEF Return, CallFails, Crash
<1>2. CASE Return(p) \/ Crash(p)
  <2>1. proc'[p] = IdleProc /\ \A q \in Procs : q # p => proc'[q] = proc[q]
    BY <1>2 DEF Return, Crash, Shaped
  <2>2. Achieved(proc'[p], files', durable', chain') /\ Learnt(proc'[p], files', durable', chain')
    BY <1>1, <2>1, IdleClaims DEF Carried
  <2> QED BY <1>1, <2>1, <2>2, CarriedStep
<1>3. CASE CallFails(p)
  <2>1. PICK answer \in Blank : Ends(p, answer)
    BY <1>3, UnobservedIsBlank DEF CallFails, Blank
  <2> QED BY <1>1, <2>1, BlankEnds
<1> QED BY <1>2, <1>3

LEMMA ChainStep ==
  ASSUME Shaped, CustodyInv, ChainInv, [Next]_vars
  PROVE  ChainInv'
<1>1. CASE PowerLoss
  BY <1>1, PowerLossChain
<1>2. ASSUME NEW p \in Procs, Mutate(p) PROVE ChainInv'
  <2>1. CASE Unbuildable(p)
    <3>1. Carried /\ Ends(p, "HOLD_PRECONDITION")
      BY <2>1, NoStepCarries DEF Unbuildable
    <3> QED BY <3>1, BlankEnds DEF Blank
  <2> QED BY <1>2, <2>1, BeginSteps, SyncLockChain, ExamineChain, ReplaceChain, SyncReplacedChain,
             ConfirmChain, ReleaseChain DEF Mutate
<1>3. ASSUME NEW p \in Procs, Observe(p) PROVE ChainInv'
  <2>1. CASE LookForLock(p)
    <3>1. Carried /\ proc[p].pc = "look" /\ (Goto(p, "first") \/ Ends(p, Unobserved(p)))
      BY <2>1, NoStepCarries DEF LookForLock
    <3>2. CASE Goto(p, "first")
      BY <3>1, <3>2, PlainGoto DEF Plain
    <3>3. CASE Ends(p, Unobserved(p))
      BY <3>1, <3>3, UnobservedIsBlank, BlankEnds
    <3> QED BY <3>1, <3>2, <3>3
  <2>2. CASE Disturbed(p)
    <3>1. Carried /\ Ends(p, Unobserved(p))
      BY <2>2, NoStepCarries DEF Disturbed
    <3> QED BY <3>1, UnobservedIsBlank, BlankEnds
  <2> QED BY <1>3, <2>1, <2>2, BeginSteps, ReadingChain, LookAgainChain DEF Observe
<1>4. ASSUME NEW p \in Procs, Return(p) \/ CallFails(p) \/ Crash(p) PROVE ChainInv'
  BY <1>4, EndingChain
<1>5. CASE UNCHANGED vars
  <2>1. Carried /\ proc' = proc
    BY <1>5, NoStepCarries DEF vars
  <2> QED BY <2>1 DEF Carried, ChainInv
<1> QED BY <1>1, <1>2, <1>3, <1>4, <1>5 DEF Next

(* Nothing is installed at first, and nothing learnt.                      *)
LEMMA InitChain == Init => ChainInv
<1> SUFFICES ASSUME Init PROVE ChainInv
  OBVIOUS
<1>1. chain = <<>> /\ chain \in Seq(Anchors) /\ Len(chain) = 0
  BY DEF Init
<1>2. files.lifecycle = NoRecord /\ files.anchor = Absent /\ durable = files
  BY DEF Init, Empty
<1>3. Linear(chain)
  BY <1>1 DEF Linear
<1>4. FilesInv(files, durable, chain)
  BY <1>1, <1>2 DEF FilesInv, Settled, At, Top, TopRecord
<1>5. \A p \in Procs : proc[p] = IdleProc
  BY DEF Init
<1> QED BY <1>1, <1>3, <1>4, <1>5, IdleClaims DEF ChainInv

LEMMA ChainIsKept == LifecycleSpec => [](Shaped /\ CustodyInv /\ ChainInv)
<1>1. Init => Shaped /\ CustodyInv /\ ChainInv
  BY InitShaped, InitCustody, InitChain
<1>2. Shaped /\ CustodyInv /\ ChainInv /\ [Next]_vars => Shaped' /\ CustodyInv' /\ ChainInv'
  BY ShapedStep, CustodyStep, ChainStep
<1>3. QED
  BY <1>1, <1>2, PTL DEF LifecycleSpec

(* applyS37ProductHostAnchorMutationV03 compares the anchor on the disk    *)
(* with the predecessor under the transition lock: the anchors that were   *)
(* ever durably STABLE form one chain, whatever processes race, fail or    *)
(* lose power.                                                             *)
THEOREM StableAnchorsFormAChain == LifecycleSpec => []ChainIsLinear
<1>1. ChainInv => ChainIsLinear
  BY DEF ChainInv, Linear, ChainIsLinear
<1>2. QED
  BY <1>1, ChainIsKept, PTL

-----------------------------------------------------------------------------
(* Refusals.                                                               *)

(* A mutation answers nothing before it replaces the first file, and       *)
(* refuses only from steps it does not come back to afterwards.            *)
Modest(c) ==
  /\ c.pc \in {"idle", "locking", "examine"} => ~c.wrote
  /\ c.pc \in {"locking", "examine", "replace", "sync", "confirm"} => c.answer = "none"
  /\ c.pc = "replace" /\ c.stage = "PREPARING" => ~c.wrote
  /\ c.op = "mutate" /\ c.answer \in Refusals => ~c.wrote

ModestInv == \A p \in Procs : Modest(proc[p])

(* A call that ends in a refusal has written nothing.                      *)
LEMMA ModestEnds ==
  ASSUME Shaped, ModestInv, NEW p \in Procs, NEW answer, Ends(p, answer),
         proc[p].op = "mutate" /\ answer \in Refusals => ~proc[p].wrote
  PROVE  ModestInv'
BY EndsFields DEF ModestInv, Modest, SameCall

(* The steps that carry the answer along, or do not have one yet.          *)
LEMMA ModestGoto ==
  ASSUME Shaped, ModestInv, NEW p \in Procs, NEW pc, Goto(p, pc),
         pc \in Plain \cup {"look-again"} \/ (pc \in {"examine", "replace"} /\ proc[p].pc \in {"locking", "examine"})
  PROVE  ModestInv'
BY GotoFields DEF ModestInv, Modest, SameCall, Plain

LEMMA ModestMutate ==
  ASSUME Shaped, ChainInv, ModestInv, NEW p \in Procs, Mutate(p)
  PROVE  ModestInv'
<1>1. ASSUME NEW a \in Anchors,
             ParentUntrusted(p, a) \/ CreateLock(p, a) \/ LockExists(p, a) \/ LockFails(p, a)
      PROVE  ModestInv'
  <2>1. ~proc'[p].wrote /\ proc'[p].pc \in {"locking", "done"} /\ (proc'[p].pc = "locking" => proc'[p].answer = "none")
    <3>1. CASE CreateLock(p, a)
      BY <3>1 DEF CreateLock, Shaped, IdleProc
    <3>2. CASE ParentUntrusted(p, a)
      BY <3>2 DEF ParentUntrusted, Shaped, IdleProc
    <3>3. CASE LockExists(p, a)
      BY <3>3 DEF LockExists, Shaped, IdleProc
    <3>4. CASE LockFails(p, a)
      BY <3>4 DEF LockFails, Shaped, IdleProc
    <3> QED BY <1>1, <3>1, <3>2, <3>3, <3>4
  <2>2. \A q \in Procs : q # p => proc'[q] = proc[q]
    BY <1>1 DEF ParentUntrusted, CreateLock, LockExists, LockFails, Shaped
  <2> QED BY <2>1, <2>2 DEF ModestInv, Modest
<1>2. CASE SyncLock(p)
  BY <1>2, ModestGoto DEF SyncLock
<1>3. CASE Examine(p)
  <2>1. proc[p].pc = "examine" /\ ~proc[p].wrote
    BY <1>3 DEF Examine, ModestInv, Modest
  <2>2. CASE Ends(p, "RECOVERY_REQUIRED")
    BY <2>1, <2>2, ModestEnds
  <2>3. CASE Goto(p, "replace")
    BY <2>1, <2>3, ModestGoto
  <2>4. CASE proc' = [proc EXCEPT ![p].pc = "unlink", ![p].answer = "HOLD_PRECONDITION"]
    <3>1. /\ \A q \in Procs : q # p => proc'[q] = proc[q]
          /\ proc'[p].pc = "unlink" /\ proc'[p].wrote = proc[p].wrote
      BY <2>4 DEF Shaped, IdleProc
    <3> QED BY <2>1, <3>1 DEF ModestInv, Modest
  <2> QED BY <1>3, <2>2, <2>3, <2>4 DEF Examine
<1>4. CASE Unbuildable(p)
  <2>1. Ends(p, "HOLD_PRECONDITION") /\ ~proc[p].wrote
    BY <1>4 DEF Unbuildable, ModestInv, Modest
  <2> QED BY <2>1, ModestEnds
<1>5. CASE Replace(p)
  <2>1. /\ \A q \in Procs : q # p => proc'[q] = proc[q]
        /\ proc'[p].pc = "sync" /\ proc'[p].answer = proc[p].answer
    BY <1>5 DEF Replace, Shaped, IdleProc
  <2>2. proc'[p].answer = "none"
    BY <1>5, <2>1 DEF Replace, ModestInv, Modest
  <2> QED BY <2>1, <2>2 DEF ModestInv, Modest, Refusals
<1>6. CASE SyncReplaced(p)
  <2> DEFINE next == [PREPARING |-> "anchor", anchor |-> "STABLE", STABLE |-> "STABLE"]
  <2>1. proc[p].pc = "sync" /\ proc[p].stage \in {"PREPARING", "anchor", "STABLE"} /\ proc[p].answer = "none"
    BY <1>6 DEF SyncReplaced, ChainInv, Achieved, ModestInv, Modest
  <2>2. /\ \A q \in Procs : q # p => proc'[q] = proc[q]
        /\ proc'[p].pc \in {"confirm", "replace"} /\ proc'[p].answer = proc[p].answer
        /\ proc'[p].stage = next[proc[p].stage]
    BY <1>6 DEF SyncReplaced, Shaped, IdleProc
  <2>3. proc'[p].stage # "PREPARING"
    BY <2>1, <2>2
  <2> QED BY <2>1, <2>2, <2>3 DEF ModestInv, Modest, Refusals
<1>7. CASE Confirm(p)
  <2>1. CASE Ends(p, "OUTCOME_UNKNOWN")
    BY <2>1, ModestEnds DEF Refusals
  <2>2. CASE ~Ends(p, "OUTCOME_UNKNOWN")
    <3>1. PICK outcome \in {"INSTALLED", "TRANSITIONED"} :
            proc' = [proc EXCEPT ![p].pc = "unlink", ![p].answer = outcome]
      BY <1>7, <2>2 DEF Confirm
    <3>2. /\ \A q \in Procs : q # p => proc'[q] = proc[q]
          /\ proc'[p].pc = "unlink" /\ proc'[p].answer = outcome
      BY <3>1 DEF Shaped, IdleProc
    <3> QED BY <3>2 DEF ModestInv, Modest, Refusals
  <2> QED BY <2>1, <2>2
<1>8. CASE Unlink(p)
  BY <1>8, ModestGoto DEF Unlink, Plain
<1>9. CASE SyncUnlink(p)
  BY <1>9, ModestGoto DEF SyncUnlink, Plain
<1>10. CASE CheckReleased(p)
  <2>1. CASE Ends(p, "OUTCOME_UNKNOWN")
    BY <2>1, ModestEnds DEF Refusals
  <2>2. CASE proc[p].answer = "HOLD_PRECONDITION" /\ Ends(p, "HOLD_PRECONDITION")
    <3>1. proc[p].op = "mutate" => ~proc[p].wrote
      BY <2>2 DEF ModestInv, Modest, Refusals
    <3> QED BY <2>2, <3>1, ModestEnds
  <2>3. CASE Goto(p, "look")
    BY <2>3, ModestGoto DEF Plain
  <2> QED BY <1>10, <2>1, <2>2, <2>3 DEF CheckReleased
<1> QED BY <1>1, <1>2, <1>3, <1>4, <1>5, <1>6, <1>7, <1>8, <1>9, <1>10 DEF Mutate

LEMMA ModestObserve ==
  ASSUME Shaped, ModestInv, NEW p \in Procs, Observe(p)
  PROVE  ModestInv'
<1>1. proc[p].op = "mutate" => Unobserved(p) \notin Refusals
  BY DEF Unobserved, Refusals
<1>2. CASE \E op \in {"observe", "reconcile"} : StartObserving(p, op)
  <2>1. \A q \in Procs : q # p => proc'[q] = proc[q]
    BY <1>2 DEF StartObserving, Shaped
  <2>2. proc'[p].pc = "look" /\ ~proc'[p].wrote
    BY <1>2 DEF StartObserving, Shaped, IdleProc
  <2> QED BY <2>1, <2>2 DEF ModestInv, Modest
<1>3. CASE LookForLock(p)
  BY <1>1, <1>3, ModestEnds, ModestGoto DEF LookForLock, Plain
<1>4. CASE ReadFirst(p) \/ ReadAnchor(p)
  <2>1. /\ \A q \in Procs : q # p => proc'[q] = proc[q]
        /\ proc'[p].pc \in {"anchor", "second"} /\ proc'[p].wrote = proc[p].wrote
        /\ proc'[p].answer = proc[p].answer /\ proc'[p].op = proc[p].op
    BY <1>4 DEF ReadFirst, ReadAnchor, Shaped, IdleProc
  <2> QED BY <2>1 DEF ModestInv, Modest
<1>5. CASE ReadSecond(p)
  BY <1>1, <1>5, ModestEnds, ModestGoto DEF ReadSecond
<1>6. CASE LookAgain(p)
  <2> DEFINE answer == IF files.lock = Free THEN Observed(p) ELSE Unobserved(p)
  <2>1. proc[p].op = "mutate" => answer \notin Refusals \/ answer = proc[p].answer
    BY <1>1 DEF Observed, Refusals
  <2>2. proc[p].op = "mutate" /\ answer \in Refusals => ~proc[p].wrote
    BY <2>1 DEF ModestInv, Modest
  <2>3. Ends(p, answer)
    BY <1>6 DEF LookAgain
  <2> HIDE DEF answer
  <2> QED BY <2>2, <2>3, ModestEnds
<1>7. CASE Disturbed(p)
  BY <1>1, <1>7, ModestEnds DEF Disturbed
<1> QED BY <1>2, <1>3, <1>4, <1>5, <1>6, <1>7 DEF Observe

LEMMA IdleIsModest == Modest(IdleProc)
BY DEF Modest, IdleProc, Refusals

LEMMA ModestStep ==
  ASSUME Shaped, ChainInv, ModestInv, [Next]_vars
  PROVE  ModestInv'
<1>1. ASSUME NEW p \in Procs, CallFails(p) PROVE ModestInv'
  <2>1. CASE proc[p].pc = "examine"
    <3>1. ~proc[p].wrote /\ Ends(p, "RECOVERY_REQUIRED")
      BY <1>1, <2>1 DEF CallFails, ModestInv, Modest
    <3> QED BY <3>1, ModestEnds
  <2>2. CASE proc[p].pc # "examine"
    <3>1. Ends(p, "OUTCOME_UNKNOWN")
      BY <1>1, <2>2 DEF CallFails
    <3> QED BY <3>1, ModestEnds DEF Refusals
  <2> QED BY <2>1, <2>2
<1>2. Modest(IdleProc)
  BY IdleIsModest
<1>3. ASSUME NEW p \in Procs, Return(p) \/ Crash(p) PROVE ModestInv'
  <2>1. proc'[p] = IdleProc /\ \A q \in Procs : q # p => proc'[q] = proc[q]
    BY <1>3 DEF Return, Crash, Shaped
  <2> QED BY <1>2, <2>1 DEF ModestInv, Modest
<1>4. CASE PowerLoss
  <2>1. \A p \in Procs : proc'[p] = IdleProc
    BY <1>4 DEF PowerLoss
  <2> QED BY <1>2, <2>1 DEF ModestInv, Modest
<1>5. CASE UNCHANGED vars
  BY <1>5 DEF vars, ModestInv, Modest
<1> QED BY <1>1, <1>3, <1>4, <1>5, ModestMutate, ModestObserve DEF Next

(* The outcomes of applyS37ProductHostAnchorMutationV03: one that reports  *)
(* success is in the chain for good; one that reports a refusal, with a    *)
(* comparison or without, has replaced no file.                            *)
THEOREM MutationsTellTheTruth == LifecycleSpec => []OutcomesTruthful
<1>1. Init => Shaped /\ CustodyInv /\ ChainInv /\ ModestInv
  <2>1. Init => ModestInv
    BY IdleIsModest DEF Init, ModestInv
  <2> QED BY <2>1, InitShaped, InitCustody, InitChain
<1>2. /\ Shaped /\ CustodyInv /\ ChainInv /\ ModestInv /\ [Next]_vars
      => Shaped' /\ CustodyInv' /\ ChainInv' /\ ModestInv'
  BY ShapedStep, CustodyStep, ChainStep, ModestStep
<1>3. ChainInv /\ ModestInv => OutcomesTruthful
  <2> SUFFICES ASSUME ChainInv, ModestInv, NEW p \in Procs
               PROVE  /\ proc[p].answer \in {"INSTALLED", "TRANSITIONED"} =>
                           /\ Generation[proc[p].anchor] <= Len(chain)
                           /\ chain[Generation[proc[p].anchor]] = proc[p].anchor
                      /\ proc[p].op = "mutate" /\ proc[p].answer \in Refusals => ~proc[p].wrote
    BY DEF OutcomesTruthful
  <2>1. Learnt(proc[p], files, durable, chain)
    BY DEF ChainInv
  <2> QED BY <2>1 DEF Learnt, InChain, ModestInv, Modest
<1> QED BY <1>1, <1>2, <1>3, PTL DEF LifecycleSpec

(* observeS37ProductHostCustodyV03 and reconciliation: with the lock absent *)
(* before and after, what is read is no temporary state of a mutation, is  *)
(* durable, and is no older than the observation.                          *)
THEOREM ObservationsAreCurrent == LifecycleSpec => []ObservationsCurrent
<1>1. ChainInv => ObservationsCurrent
  <2> SUFFICES ASSUME ChainInv, NEW p \in Procs
               PROVE  /\ proc[p].answer = "STABLE" =>
                           /\ Generation[proc[p].seen] \in proc[p].base .. Len(chain)
                           /\ chain[Generation[proc[p].seen]] = proc[p].seen
                      /\ proc[p].answer = "UNINSTALLED" => proc[p].base = 0
    BY DEF ObservationsCurrent
  <2>1. Learnt(proc[p], files, durable, chain) /\ Len(chain) \in Nat
    BY DEF ChainInv
  <2>2. proc[p].base \in Nat
    BY <2>1 DEF Learnt
  <2>3. \A a \in Anchors : Generation[a] \in Nat
    BY LifecycleAssumption
  <2> QED BY <2>1, <2>2, <2>3 DEF Learnt, InChain
<1>2. QED
  BY <1>1, ChainIsKept, PTL
=============================================================================

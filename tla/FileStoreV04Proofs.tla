------------------------- MODULE FileStoreV04Proofs -------------------------
(***************************************************************************)
(* For any processes, batches, files, failing calls, crashes and power     *)
(* losses, and whatever becomes of the locks, of those that somebody       *)
(* deletes and of those that a close unlinks beside a commit: the variables *)
(* keep their types, answers are durable, what is written is synced in     *)
(* order, files that are named stay, and the store implements DurableLog.  *)
(* When nobody deletes the lock of a live session, at most one is open.    *)
(***************************************************************************)
EXTENDS FileStoreV04, TLAPS

(* A commit function is running on behalf of a batch.                      *)
CommitHasBatch == \A p \in Procs : pc[p] \in Committing => current[p] \in Batches

TypeInv == TypeOK /\ CommitHasBatch

-----------------------------------------------------------------------------
(* The file that persistBeforeCommit creates next is a file of the store,  *)
(* and so is the last one it has created.                                  *)
LEMMA NextFileType ==
  ASSUME TypeInv, NEW p \in Procs, pc[p] = "persist",
         Len(owned[p]) < Len(ToPersist(current[p]))
  PROVE  NextFile(p) \in Files
<1>1. current[p] \in Batches
  BY DEF TypeInv, CommitHasBatch, Committing
<1>2. ToPersist(current[p]) \in Seq(Files)
  BY <1>1, StoreAssumption DEF ToPersist, Files
<1>3. Len(owned[p]) \in Nat
  BY DEF TypeInv, TypeOK
<1>. QED
  BY <1>2, <1>3 DEF NextFile

LEMMA LastOwnedType ==
  ASSUME TypeOK, NEW p \in Procs, owned[p] # <<>>
  PROVE  Last(owned[p]) \in Files /\ Front(owned[p]) \in Seq(Files)
<1>1. owned[p] \in Seq(Files) /\ Len(owned[p]) \in Nat \ {0}
  BY DEF TypeOK
<1>. QED
  BY <1>1 DEF Last, Front

(* Syncing the run directory makes entries durable and invents nothing.    *)
LEMMA RootSyncedType ==
  ASSUME TypeOK
  PROVE  RootSynced \in Directory
BY DEF TypeOK, RootSynced, Directory

(* What a power loss leaves is a ledger again.                             *)
LEMMA LedgerAfterLossType ==
  ASSUME TypeOK
  PROVE  LedgerAfterLoss \subseteq Seq(Entries)
<1>1. disk.ledger \in Seq(Entries) /\ stable.ledger \in Seq(Entries)
  BY DEF TypeOK, Directory
<1>2. ASSUME NEW n \in Len(stable.ledger)..Len(disk.ledger)
      PROVE  SubSeq(disk.ledger, 1, n) \in Seq(Entries)
  BY <1>1
<1>3. Torn \in Entries
  BY DEF Entries
<1>4. ASSUME NEW l \in Seq(Entries) PROVE Append(l, Torn) \in Seq(Entries)
  BY <1>3
<1>. QED
  BY <1>2, <1>4 DEF LedgerAfterLoss

(* The run directory stays one when a file or an entry of it is replaced.  *)
LEMMA SetLock ==
  ASSUME NEW dir \in Directory, NEW k \in Procs \cup {NoLock}
  PROVE  [dir EXCEPT !.lock = k] \in Directory
BY DEF Directory

LEMMA SetLedger ==
  ASSUME NEW dir \in Directory, NEW l \in Seq(Entries)
  PROVE  [dir EXCEPT !.ledger = l] \in Directory
BY DEF Directory

LEMMA SetFile ==
  ASSUME NEW dir \in Directory, NEW f \in Files, NEW c \in {"absent", "partial", "whole"}
  PROVE  [dir EXCEPT !.files[f] = c] \in Directory
BY DEF Directory

LEMMA SetManifest ==
  ASSUME NEW dir \in Directory, NEW l \in Seq(Entries), NEW f \in Files
  PROVE  [dir EXCEPT !.manifest = l, !.files[f] = "absent"] \in Directory
BY DEF Directory

(* A commit can only append what it was asked to append.                   *)
LEMMA AppendType ==
  ASSUME TypeInv, NEW p \in Procs, current[p] \in Batches
  PROVE  /\ Append(disk.ledger, current[p]) \in Seq(Entries)
         /\ Append(disk.ledger, Torn) \in Seq(Entries)
         /\ NextLedger(p) \in Seq(Entries)
<1>1. current[p] \in Entries /\ Torn \in Entries
  BY DEF Entries
<1>2. disk.ledger \in Seq(Entries) /\ captured[p] \in Seq(Entries)
  BY DEF TypeInv, TypeOK, Directory
<1>. QED
  BY <1>1, <1>2 DEF NextLedger

(* An answered commit leaves its process without a batch.                  *)
LEMMA AnswerType ==
  ASSUME TypeInv, NEW p \in Procs, NEW answer \in Outcomes, Answer(p, answer)
  PROVE  /\ pc' \in [Procs -> Places]
         /\ outcome' \in [Batches -> Outcomes]
         /\ current' \in [Procs -> Batches \cup {NoBatch}]
         /\ owned' \in [Procs -> Seq(Files)]
         /\ CommitHasBatch'
<1>. USE DEF TypeInv, TypeOK, Answer, Goto
<1>1. pc' \in [Procs -> Places] /\ pc' = [pc EXCEPT ![p] = "ready"]
  BY DEF Places
<1>2. owned' \in [Procs -> Seq(Files)]
  OBVIOUS
<1>3. outcome' \in [Batches -> Outcomes]
  OBVIOUS
<1>4. current' \in [Procs -> Batches \cup {NoBatch}] /\ current' = [current EXCEPT ![p] = NoBatch]
  OBVIOUS
<1>5. CommitHasBatch'
  BY <1>1, <1>4 DEF CommitHasBatch, Committing
<1>. QED
  BY <1>1, <1>2, <1>3, <1>4, <1>5

(* unknown() answers, and poisons the store.                               *)
LEMMA GiveUpType ==
  ASSUME TypeInv, NEW p \in Procs, GiveUp(p)
  PROVE  /\ pc' \in [Procs -> Places]
         /\ captured' = captured
         /\ poisoned' \in [Procs -> BOOLEAN]
         /\ outcome' \in [Batches -> Outcomes]
         /\ current' \in [Procs -> Batches \cup {NoBatch}]
         /\ owned' \in [Procs -> Seq(Files)]
         /\ CommitHasBatch'
<1>1. "OUTCOME_UNKNOWN" \in Outcomes
  BY DEF Outcomes
<1>. QED
  BY <1>1, AnswerType DEF GiveUp, TypeInv, TypeOK

-----------------------------------------------------------------------------
(* Every step of the store, its callers and the environment keeps the      *)
(* variables in their types and gives every running commit its batch.      *)
LEMMA TypeStep ==
  ASSUME TypeInv, [Next]_vars
  PROVE  TypeInv'
<1>. USE DEF TypeInv, TypeOK, CommitHasBatch, Places, Sessions,
         Committing, Goto, Turn, Fault, MayCrash, commitVars
<1>1. ASSUME NEW p \in Procs, CaptureManifest(p) PROVE TypeInv'
  BY <1>1 DEF CaptureManifest
<1>2. ASSUME NEW p \in Procs, CaptureRefused(p) PROVE TypeInv'
  BY <1>2 DEF CaptureRefused
<1>3. ASSUME NEW p \in Procs, SyncLock(p) PROVE TypeInv'
  BY <1>3, RootSyncedType DEF SyncLock
<1>5. ASSUME NEW p \in Procs, PersistCreate(p) PROVE TypeInv'
  <2>1. NextFile(p) \in Files
    BY <1>5, NextFileType DEF PersistCreate, Creating
  <2>2. disk' \in Directory
    BY <1>5, <2>1, SetFile DEF PersistCreate
  <2>3. owned' \in [Procs -> Seq(Files)]
    BY <1>5, <2>1 DEF PersistCreate
  <2>. QED
    BY <1>5, <2>2, <2>3 DEF PersistCreate
<1>6. ASSUME NEW p \in Procs, PersistWrite(p) PROVE TypeInv'
  <2>1. Last(owned[p]) \in Files
    <3>1. owned[p] # <<>>
      BY <1>6 DEF PersistWrite, OwnedIsWhole
    <3>. QED
      BY <3>1, LastOwnedType
  <2>2. disk' \in Directory /\ stable' \in Directory
    BY <1>6, <2>1, SetFile DEF PersistWrite
  <2>. QED
    BY <1>6, <2>2 DEF PersistWrite
<1>7. ASSUME NEW p \in Procs, PersistCreateFails(p) PROVE TypeInv'
  <2>1. NextFile(p) \in Files
    BY <1>7, NextFileType DEF PersistCreateFails, Creating
  <2>2. disk' \in Directory
    BY <1>7, <2>1, SetFile DEF PersistCreateFails
  <2>3. faults' \in Nat /\ pc' = [pc EXCEPT ![p] = "cleanup"]
    BY <1>7 DEF PersistCreateFails
  <2>4. UNCHANGED <<stable, session, captured, poisoned, current, owned, outcome, crashes>> /\ pc[p] = "persist"
    BY <1>7 DEF PersistCreateFails, Creating
  <2>. QED
    BY <2>2, <2>3, <2>4
<1>8. ASSUME NEW p \in Procs, Revalidate(p) PROVE TypeInv'
  BY <1>8 DEF Revalidate
<1>9. ASSUME NEW p \in Procs, RevalidateFails(p) PROVE TypeInv'
  BY <1>9 DEF RevalidateFails
<1>10. ASSUME NEW p \in Procs, CleanupFile(p) PROVE TypeInv'
  <2>1. Last(owned[p]) \in Files /\ Front(owned[p]) \in Seq(Files)
    BY <1>10, LastOwnedType DEF CleanupFile
  <2>2. disk' \in Directory /\ stable' \in Directory
    BY <1>10, <2>1, SetFile DEF CleanupFile
  <2>. QED
    BY <1>10, <2>1, <2>2 DEF CleanupFile
<1>11. ASSUME NEW p \in Procs, CleanupEnds(p) PROVE TypeInv'
  <2>1. CASE pc[p] = "cleanup" /\ Answer(p, "NOT_COMMITTED") /\ UNCHANGED <<captured, poisoned>>
    <3>1. "NOT_COMMITTED" \in Outcomes
      BY DEF Outcomes
    <3>. QED
      BY <1>11, <2>1, <3>1, AnswerType DEF CleanupEnds
  <2>2. CASE pc[p] = "dirty" /\ GiveUp(p)
    BY <1>11, <2>2, GiveUpType DEF CleanupEnds
  <2>. QED
    BY <1>11, <2>1, <2>2 DEF CleanupEnds
<1>12. ASSUME NEW p \in Procs, AppendBatch(p) PROVE TypeInv'
  <2>1. disk' \in Directory
    BY <1>12, AppendType, SetLedger DEF AppendBatch
  <2>. QED
    BY <1>12, <2>1 DEF AppendBatch
<1>13. ASSUME NEW p \in Procs, SyncLedger(p) PROVE TypeInv'
  <2>1. stable' \in Directory /\ UNCHANGED <<disk, session, faults, crashes>>
    BY <1>13, SetLedger DEF SyncLedger, Directory
  <2>2. CASE GiveUp(p)
    BY <2>1, <2>2, GiveUpType
  <2>3. CASE Goto(p, "publish") /\ UNCHANGED commitVars /\ pc[p] = "sync"
    BY <2>1, <2>3
  <2>. QED
    BY <1>13, <2>2, <2>3 DEF SyncLedger
<1>14. ASSUME NEW p \in Procs, WriteTemp(p) PROVE TypeInv'
  <2>1. current[p] \in Files
    BY <1>14 DEF WriteTemp, Files
  <2>2. disk' \in Directory
    BY <1>14, <2>1, SetFile DEF WriteTemp
  <2>. QED
    BY <1>14, <2>2 DEF WriteTemp
<1>15. ASSUME NEW p \in Procs, Publish(p) PROVE TypeInv'
  <2>1. current[p] \in Batches
    BY <1>15 DEF Publish
  <2>2. disk' \in Directory
    BY <1>15, <2>1, AppendType, SetManifest DEF Publish, Files
  <2>. QED
    BY <1>15, <2>2 DEF Publish
<1>16. ASSUME NEW p \in Procs, SyncRoot(p) PROVE TypeInv'
  BY <1>16, RootSyncedType DEF SyncRoot
<1>17. ASSUME NEW p \in Procs, Confirm(p) PROVE TypeInv'
  <2>1. NextLedger(p) \in Seq(Entries)
    BY <1>17, AppendType DEF Confirm
  <2>2. "COMMITTED" \in Outcomes
    BY DEF Outcomes
  <2>. QED
    BY <1>17, <2>1, <2>2, AnswerType DEF Confirm
<1>18. ASSUME NEW p \in Procs, Unconfirmed(p) PROVE TypeInv'
  BY <1>18, GiveUpType DEF Unconfirmed
<1>19. ASSUME NEW p \in Procs, Close(p) PROVE TypeInv'
  BY <1>19 DEF Close
<1>20. ASSUME NEW p \in Procs, Unlink(p) PROVE TypeInv'
  BY <1>20, SetLock DEF Unlink
<1>21. ASSUME NEW p \in Procs, SyncUnlink(p) PROVE TypeInv'
  BY <1>21, RootSyncedType DEF SyncUnlink
<1>22. ASSUME NEW p \in Procs, OpenFails(p) PROVE TypeInv'
  <2>1. disk' \in Directory
    <3>1. disk.lock \in Procs \cup {NoLock}
      BY DEF Directory
    <3>2. [disk EXCEPT !.lock = IF LockIsOwn(p) THEN NoLock ELSE @] \in Directory
      BY <3>1, SetLock
    <3>. QED
      BY <1>22, <3>2 DEF OpenFails
  <2>. QED
    BY <1>22, <2>1 DEF OpenFails
<1>23. ASSUME NEW p \in Procs, PersistWriteFails(p) PROVE TypeInv'
  BY <1>23 DEF PersistWriteFails
<1>24. ASSUME NEW p \in Procs, CleanupFileFails(p) PROVE TypeInv'
  <2>1. Last(owned[p]) \in Files /\ Front(owned[p]) \in Seq(Files)
    BY <1>24, LastOwnedType DEF CleanupFileFails
  <2>2. disk' \in Directory
    BY <1>24, <2>1, SetFile DEF CleanupFileFails
  <2>. QED
    BY <1>24, <2>1, <2>2 DEF CleanupFileFails
<1>25. ASSUME NEW p \in Procs, AppendOpenFails(p) PROVE TypeInv'
  <2>1. CASE Answer(p, "NOT_COMMITTED") /\ UNCHANGED <<captured, poisoned>>
    <3>1. "NOT_COMMITTED" \in Outcomes
      BY DEF Outcomes
    <3>. QED
      BY <1>25, <2>1, <3>1, AnswerType DEF AppendOpenFails
  <2>2. CASE Goto(p, "cleanup") /\ UNCHANGED commitVars
    BY <1>25, <2>2 DEF AppendOpenFails
  <2>. QED
    BY <1>25, <2>1, <2>2 DEF AppendOpenFails
<1>26. ASSUME NEW p \in Procs, AppendFails(p) PROVE TypeInv'
  <2>1. Append(disk.ledger, current[p]) \in Seq(Entries) /\ Append(disk.ledger, Torn) \in Seq(Entries)
    BY <1>26, AppendType DEF AppendFails
  <2>2. disk' \in Directory
    BY <1>26, <2>1, SetLedger, ZenonT(60) DEF AppendFails
  <2>. QED
    BY <1>26, <2>2, GiveUpType DEF AppendFails
<1>27. ASSUME NEW p \in Procs, WriteTempFails(p) PROVE TypeInv'
  <2>1. current[p] \in Files
    BY <1>27 DEF WriteTempFails, Files
  <2>2. disk' \in Directory
    BY <1>27, <2>1, SetFile DEF WriteTempFails
  <2>. QED
    BY <1>27, <2>2, GiveUpType DEF WriteTempFails
<1>28. ASSUME NEW p \in Procs, FailsAfterAppend(p) PROVE TypeInv'
  BY <1>28, GiveUpType DEF FailsAfterAppend
<1>29. ASSUME NEW p \in Procs, CloseFails(p) PROVE TypeInv'
  BY <1>29 DEF CloseFails
<1>30. ASSUME NEW p \in Procs, CaptureLedger(p) PROVE TypeInv'
  BY <1>30 DEF CaptureLedger, Directory
<1>31. ASSUME NEW p \in Procs, Forget(p) PROVE TypeInv'
  BY <1>31 DEF Forget
<1>32. ASSUME NEW p \in Procs, CreateLock(p) PROVE TypeInv'
  BY <1>32, SetLock DEF CreateLock, Opening
<1>33. ASSUME NEW p \in Procs, NEW b \in Batches, Admit(p, b) PROVE TypeInv'
  BY <1>33 DEF Admit, Request, Outcomes
<1>34. ASSUME NEW p \in Procs, NEW b \in Batches, Refuse(p, b) PROVE TypeInv'
  BY <1>34 DEF Refuse, Request, Outcomes
<1>35. ASSUME NEW p \in Procs, Crash(p) PROVE TypeInv'
  BY <1>35 DEF Crash, Unanswered, Outcomes
<1>36. CASE PowerLoss
  <2>1. disk' \in Directory /\ stable' \in Directory
    BY <1>36, LedgerAfterLossType DEF PowerLoss, Directory
  <2>. QED
    BY <1>36, <2>1 DEF PowerLoss, Unanswered, Outcomes
<1>37. CASE OperatorRemovesLock
  BY <1>37, SetLock DEF OperatorRemovesLock
<1>38. CASE UNCHANGED vars
  BY <1>38 DEF vars
<1>. QED
  BY <1>1, <1>2, <1>3, <1>5, <1>6, <1>7, <1>8, <1>9, <1>10, <1>11, <1>12, <1>13, <1>14, <1>15, <1>16, <1>17, <1>18, <1>19, <1>20, <1>21, <1>22, <1>23, <1>24, <1>25, <1>26, <1>27, <1>28, <1>29, <1>30, <1>31, <1>32, <1>33, <1>34, <1>35, <1>36, <1>37, <1>38 DEF Next, Proceed, CallFails, CallerActs

(* The inductive invariant behind both theorems.                           *)
LEMMA TypeAlways == Spec => []TypeInv
<1>1. Init => TypeInv
  BY StoreAssumption DEF Init, TypeInv, TypeOK, CommitHasBatch, EmptyDirectory, Directory, Places,
     Sessions, Committing, Outcomes
<1>. QED
  BY <1>1, TypeStep, PTL DEF Spec

(* The variables keep their types, for every value of the constants.       *)
THEOREM TypeCorrect == Spec => []TypeOK
<1>1. TypeInv => TypeOK
  BY DEF TypeInv
<1>. QED
  BY <1>1, TypeAlways, PTL

-----------------------------------------------------------------------------
(* A step that neither opens a session nor touches the lock file.          *)
KeepsLock ==
  /\ disk'.lock = disk.lock
  /\ \A q \in Procs : InSession(q)' => InSession(q)

LEMMA CommitKeepsLock ==
  ASSUME TypeInv, NEW p \in Procs,
         \/ CaptureManifest(p) \/ CaptureRefused(p) \/ CaptureLedger(p) \/ Forget(p)
         \/ PersistCreate(p) \/ PersistWrite(p) \/ PersistCreateFails(p)
         \/ PersistWriteFails(p) \/ Revalidate(p) \/ RevalidateFails(p)
         \/ CleanupFile(p) \/ CleanupEnds(p) \/ CleanupFileFails(p)
         \/ AppendBatch(p) \/ AppendOpenFails(p) \/ AppendFails(p)
         \/ SyncLedger(p) \/ WriteTemp(p) \/ WriteTempFails(p) \/ Publish(p)
         \/ SyncRoot(p) \/ Confirm(p) \/ Unconfirmed(p) \/ FailsAfterAppend(p)
         \/ \E b \in Batches : Admit(p, b) \/ Refuse(p, b)
  PROVE  KeepsLock
<1>. USE DEF KeepsLock, TypeInv, TypeOK, Directory, InSession
<1>1. CASE CaptureManifest(p)
  BY <1>1 DEF CaptureManifest
<1>2. CASE CaptureRefused(p)
  BY <1>2 DEF CaptureRefused
<1>3. CASE PersistCreate(p)
  BY <1>3 DEF PersistCreate
<1>4. CASE PersistWrite(p)
  BY <1>4 DEF PersistWrite
<1>5. CASE PersistCreateFails(p)
  BY <1>5 DEF PersistCreateFails
<1>6. CASE Revalidate(p)
  BY <1>6 DEF Revalidate
<1>7. CASE RevalidateFails(p)
  BY <1>7 DEF RevalidateFails
<1>8. CASE CleanupFile(p)
  BY <1>8 DEF CleanupFile
<1>9. CASE CleanupEnds(p)
  BY <1>9 DEF CleanupEnds
<1>10. CASE AppendBatch(p)
  BY <1>10 DEF AppendBatch
<1>11. CASE SyncLedger(p)
  BY <1>11 DEF SyncLedger
<1>12. CASE WriteTemp(p)
  BY <1>12 DEF WriteTemp
<1>13. CASE Publish(p)
  BY <1>13 DEF Publish
<1>14. CASE SyncRoot(p)
  BY <1>14 DEF SyncRoot
<1>15. CASE Confirm(p)
  BY <1>15 DEF Confirm
<1>16. CASE Unconfirmed(p)
  BY <1>16 DEF Unconfirmed
<1>17. CASE PersistWriteFails(p)
  BY <1>17 DEF PersistWriteFails
<1>18. CASE CleanupFileFails(p)
  BY <1>18 DEF CleanupFileFails
<1>19. CASE AppendOpenFails(p)
  BY <1>19 DEF AppendOpenFails
<1>20. CASE AppendFails(p)
  BY <1>20 DEF AppendFails
<1>21. CASE WriteTempFails(p)
  BY <1>21 DEF WriteTempFails
<1>22. CASE FailsAfterAppend(p)
  BY <1>22 DEF FailsAfterAppend
<1>23. CASE CaptureLedger(p)
  BY <1>23 DEF CaptureLedger
<1>24. CASE Forget(p)
  BY <1>24 DEF Forget
<1>25. ASSUME NEW b \in Batches, Admit(p, b) PROVE KeepsLock
  BY <1>25 DEF Admit
<1>26. ASSUME NEW b \in Batches, Refuse(p, b) PROVE KeepsLock
  BY <1>26 DEF Refuse
<1>. QED
  BY <1>1, <1>2, <1>3, <1>4, <1>5, <1>6, <1>7, <1>8, <1>9, <1>10, <1>11, <1>12, <1>13, <1>14, <1>15, <1>16, <1>17, <1>18, <1>19, <1>20, <1>21, <1>22, <1>23, <1>24, <1>25, <1>26

(* The lock file belongs to the session: a process that finds it there     *)
(* does not open one, a session removes only its own, and the operator     *)
(* leaves a live one alone.                                                *)
LEMMA ExclusionStep ==
  ASSUME ~OperatorErrs, TypeInv, LockExclusion, [Next]_vars
  PROVE  LockExclusion'
<1>. USE DEF LockExclusion, InSession
<1>1. ASSUME KeepsLock PROVE LockExclusion'
  BY <1>1 DEF KeepsLock
<1>2. ASSUME NEW p \in Procs, CreateLock(p) PROVE LockExclusion'
  <2>1. \A q \in Procs : ~InSession(q)
    BY <1>2, StoreAssumption DEF CreateLock
  <2>. QED
    BY <1>2, <2>1 DEF CreateLock, Turn, TypeInv, TypeOK, Directory
<1>3. ASSUME NEW p \in Procs, OpenFails(p) \/ Unlink(p) PROVE LockExclusion'
  <2>1. \A q \in Procs \ {p} : ~InSession(q)'
    <3>1. InSession(p) /\ disk.lock = p
      BY <1>3 DEF OpenFails, Unlink
    <3>. QED
      BY <1>3, <3>1 DEF OpenFails, Unlink, Turn, TypeInv, TypeOK
  <2>2. ~InSession(p)'
    BY <1>3 DEF OpenFails, Unlink, Turn, TypeInv, TypeOK
  <2>. QED
    BY <2>1, <2>2
<1>4. ASSUME NEW p \in Procs, SyncLock(p) \/ Close(p) \/ SyncUnlink(p) \/ CloseFails(p) PROVE KeepsLock
  <2>1. disk' = disk
    BY <1>4 DEF SyncLock, Close, SyncUnlink, CloseFails
  <2>2. /\ session'[p] \in {"open", "unlinking"} => session[p] \in {"locking", "open"}
        /\ session'[p] \in {"none", "open", "unlinking"} /\ \A q \in Procs \ {p} : session'[q] = session[q]
    BY <1>4 DEF SyncLock, Close, SyncUnlink, CloseFails, MayClose, Turn, TypeInv, TypeOK
  <2>. QED
    BY <2>1, <2>2 DEF KeepsLock
<1>5. ASSUME NEW p \in Procs, Crash(p) PROVE LockExclusion'
  BY <1>5 DEF Crash, Turn, TypeInv, TypeOK
<1>6. CASE PowerLoss
  BY <1>6 DEF PowerLoss
<1>7. CASE OperatorRemovesLock
  BY <1>7 DEF OperatorRemovesLock
<1>8. CASE UNCHANGED vars
  BY <1>8 DEF vars
<1>. QED
  BY <1>1, <1>2, <1>3, <1>4, <1>5, <1>6, <1>7, <1>8, CommitKeepsLock
     DEF Next, Proceed, CallFails, CallerActs

(* For all constants, un-awaited commits or not: at most one session is    *)
(* between opening and unlinking the lock file (O_EXCL l.1178, the         *)
(* identity compared before the unlink l.1976-1981).                       *)
THEOREM OneSession == ASSUME ~OperatorErrs PROVE Spec => []LockExclusion
<1>1. Init => LockExclusion
  BY DEF Init, LockExclusion, InSession
<1>2. TypeInv /\ LockExclusion /\ [Next]_vars => LockExclusion'
  BY ExclusionStep
<1>. QED
  BY <1>1, <1>2, TypeAlways, PTL DEF Spec

-----------------------------------------------------------------------------
(* What is written and in which order.  Nothing below asks who has the     *)
(* lock: a commit compares the store with its capture only when it is      *)
(* admitted, and what holds of it then holds beside any other commit.      *)

(* One sequence is the beginning of another.                               *)
Begins(s, t) == Len(s) <= Len(t) /\ \A i \in 1 .. Len(s) : s[i] = t[i]

(* What is synced of the ledger is a part of it, what the manifests        *)
(* describe is a part of what is synced, and they describe whole events.   *)
LogsInv ==
  /\ Begins(stable.ledger, disk.ledger)
  /\ Begins(disk.manifest, stable.ledger) /\ Begins(stable.manifest, stable.ledger)
  /\ Begins(stable.manifest, disk.manifest)
  /\ Torn \notin ToSet(disk.manifest) \cup ToSet(stable.manifest)

(* The files that the ledger names are there, and synced.                  *)
FilesInv ==
  \A f \in ArtifactsIn(disk.ledger) : disk.files[f] = "whole" /\ stable.files[f] = "whole"

(* No byte of a batch is in the ledger or in the manifest.                 *)
Unwritten(b) ==
  \A dir \in {disk, stable} : b \notin ToSet(dir.ledger) /\ b \notin ToSet(dir.manifest)

BeforeAppend == {"persist", "cleanup", "dirty", "append"}
Appended     == {"publish", "rootsync", "confirm"}

(* The files a commit has created are those that it needs, in order; they  *)
(* are there, synced when they are whole, and no event names them yet.     *)
Owns(p, f) == \E i \in 1 .. Len(owned[p]) : owned[p][i] = f

Created(p) ==
  /\ Len(owned[p]) <= Len(ToPersist(current[p]))
  /\ \A i \in 1 .. Len(owned[p]) :
       /\ owned[p][i] = ToPersist(current[p])[i]
       /\ disk.files[owned[p][i]] # "absent"
       /\ disk.files[owned[p][i]] = "whole" => stable.files[owned[p][i]] = "whole"
       /\ owned[p][i] \notin ArtifactsIn(disk.ledger)
       /\ \A j \in 1 .. Len(owned[p]) : owned[p][i] = owned[p][j] => i = j

(* The files that a batch names are its own, complete and synced.          *)
Recorded(p) ==
  \A f \in ToSet(ArtifactsOf[current[p]]) :
    Owns(p, f) /\ disk.files[f] = "whole" /\ stable.files[f] = "whole"

(* What a process has done at each place of a commit, and what it can rely *)
(* on though others commit beside it: the manifest has not shrunk behind   *)
(* its capture, and its own batch is where it has put it.                  *)
At(p) ==
  /\ pc[p] \in Committing => outcome[current[p]] = "pending" /\ Begins(captured[p], disk.manifest)
  /\ pc[p] \notin Committing => current[p] = NoBatch /\ owned[p] = <<>>
  /\ pc[p] \in BeforeAppend => Unwritten(current[p]) /\ Created(p)
  /\ pc[p] = "append" => Recorded(p)
  /\ pc[p] \in {"sync", "publish"} => current[p] \notin ToSet(disk.manifest)
  /\ pc[p] \in Appended => Begins(NextLedger(p), stable.ledger)
  /\ pc[p] \in {"rootsync", "confirm"} => Begins(NextLedger(p), disk.manifest)
  /\ pc[p] = "confirm" => Begins(NextLedger(p), stable.manifest)

(* Two commits are of two batches, and create different files.             *)
Apart ==
  \A p, q \in Procs :
    /\ pc[p] \in Committing /\ pc[q] \in Committing /\ p # q => current[p] # current[q]
    /\ pc[p] \in BeforeAppend /\ pc[q] \in BeforeAppend /\ p # q =>
         \A f \in Files : ~(Owns(p, f) /\ Owns(q, f))

StoreInv ==
  /\ TypeInv
  /\ LogsInv /\ OutcomesAreDurable /\ FilesInv
  /\ Apart /\ \A p \in Procs : At(p)

-----------------------------------------------------------------------------
(* Sequences                                                               *)

(* The beginning of a sequence holds some of its elements.                 *)
LEMMA BeginsHolds ==
  ASSUME NEW S, NEW s \in Seq(S), NEW t \in Seq(S), Begins(s, t)
  PROVE  ToSet(s) \subseteq ToSet(t) /\ IsPrefix(s, t)
<1>1. ToSet(s) \subseteq ToSet(t)
  BY DEF Begins, ToSet
<1>2. SubSeq(s, 1, Len(s)) = SubSeq(t, 1, Len(s))
  BY DEF Begins
<1> QED BY <1>1, <1>2 DEF Begins, IsPrefix

(* The beginning of a beginning is one.                                    *)
LEMMA BeginsTrans ==
  ASSUME NEW S, NEW s \in Seq(S), NEW t \in Seq(S), NEW u \in Seq(S), Begins(s, t), Begins(t, u)
  PROVE  Begins(s, u)
BY DEF Begins

(* It stays one when the sequence grows.                                   *)
LEMMA BeginsAppend ==
  ASSUME NEW S, NEW s \in Seq(S), NEW t \in Seq(S), NEW e \in S, Begins(s, t)
  PROVE  Begins(s, Append(t, e))
BY DEF Begins

(* A sequence begins with itself.                                          *)
LEMMA BeginsItself ==
  ASSUME NEW S, NEW s \in Seq(S)
  PROVE  Begins(s, s)
BY DEF Begins

(* An appended element is added to the elements.                           *)
LEMMA AppendHolds ==
  ASSUME NEW S, NEW s \in Seq(S), NEW e \in S
  PROVE  ToSet(Append(s, e)) = ToSet(s) \cup {e}
<1>1. /\ DOMAIN Append(s, e) = 1 .. Len(s) + 1 /\ DOMAIN s = 1 .. Len(s)
      /\ Append(s, e)[Len(s) + 1] = e /\ \A i \in 1 .. Len(s) : Append(s, e)[i] = s[i]
  OBVIOUS
<1>2. ASSUME NEW x \in ToSet(Append(s, e)) PROVE x \in ToSet(s) \cup {e}
  BY <1>1, <1>2 DEF ToSet
<1>3. ASSUME NEW x \in ToSet(s) \cup {e} PROVE x \in ToSet(Append(s, e))
  <2>1. CASE x = e
    <3>1. Len(s) + 1 \in DOMAIN Append(s, e)
      BY <1>1
    <3> QED BY <1>1, <2>1, <3>1 DEF ToSet
  <2>2. CASE x \in ToSet(s)
    BY <1>1, <2>2 DEF ToSet
  <2> QED BY <1>3, <2>1, <2>2
<1> QED BY <1>2, <1>3

(* A ledger names the files of its batches, and nothing that is torn.      *)
LEMMA NamesOf ==
  ASSUME NEW l \in Seq(Entries), NEW f
  PROVE  f \in ArtifactsIn(l) <=> \E b \in Batches : b \in ToSet(l) /\ f \in ToSet(ArtifactsOf[b])
<1>1. ToSet(l) \subseteq Entries
  BY DEF ToSet
<1>2. ToSet(l) \ {Torn} = ToSet(l) \cap Batches
  BY <1>1, StoreAssumption DEF Entries
<1> QED BY <1>2 DEF ArtifactsIn

(* The files that a ledger names are summary and revocation files.         *)
LEMMA NamesAreArtifacts ==
  ASSUME NEW l \in Seq(Entries), NEW f \in ArtifactsIn(l)
  PROVE  f \in Artifacts /\ f \notin Batches
<1>1. PICK b \in Batches : f \in ToSet(ArtifactsOf[b])
  BY NamesOf
<1>2. ArtifactsOf[b] \in Seq(Artifacts)
  BY StoreAssumption
<1> QED BY <1>1, <1>2, StoreAssumption DEF ToSet

-----------------------------------------------------------------------------
(* Directories                                                             *)

(* The parts of the two directories have their types.                      *)
LEMMA Parts ==
  ASSUME TypeOK, NEW dir \in {disk, stable}
  PROVE  /\ dir \in Directory
         /\ dir.ledger \in Seq(Entries) /\ dir.manifest \in Seq(Entries)
         /\ dir.files \in [Files -> {"absent", "partial", "whole"}]
BY DEF TypeOK, Directory

(* What the sync of the run directory makes durable.                       *)
LEMMA RootSyncedParts ==
  ASSUME TypeOK
  PROVE  /\ RootSynced.ledger = stable.ledger /\ RootSynced.manifest = disk.manifest
         /\ \A f \in Files : RootSynced.files[f] = IF f \in Batches THEN disk.files[f] ELSE stable.files[f]
<1>1. /\ RootSynced.ledger = stable.ledger /\ RootSynced.manifest = disk.manifest
      /\ RootSynced.files = [f \in Files |-> IF f \in Batches THEN disk.files[f] ELSE stable.files[f]]
  BY DEF RootSynced, TypeOK, Directory
<1> QED BY <1>1

(* A power loss keeps what was synced, and adds nothing but a torn tail.   *)
LEMMA LossKeeps ==
  ASSUME TypeOK, Begins(stable.ledger, disk.ledger), NEW l \in LedgerAfterLoss
  PROVE  /\ l \in Seq(Entries) /\ Begins(stable.ledger, l)
         /\ ToSet(l) \subseteq ToSet(disk.ledger) \cup {Torn}
<1> DEFINE Kept == {SubSeq(disk.ledger, 1, n) : n \in Len(stable.ledger) .. Len(disk.ledger)}
<1>1. disk.ledger \in Seq(Entries) /\ stable.ledger \in Seq(Entries)
  BY Parts
<1>2. ASSUME NEW k \in Kept
      PROVE  k \in Seq(Entries) /\ Begins(stable.ledger, k) /\ ToSet(k) \subseteq ToSet(disk.ledger)
  <2>1. PICK n \in Len(stable.ledger) .. Len(disk.ledger) : k = SubSeq(disk.ledger, 1, n)
    OBVIOUS
  <2>2. k \in Seq(Entries) /\ Len(k) = n /\ \A i \in 1 .. n : k[i] = disk.ledger[i]
    BY <1>1, <2>1
  <2>3. Begins(stable.ledger, k) /\ Begins(k, disk.ledger)
    BY <1>1, <2>2 DEF Begins
  <2> QED BY <1>1, <2>2, <2>3, BeginsHolds
<1>3. Torn \in Entries
  BY DEF Entries
<1>4. l \in Kept \/ \E k \in Kept : l = Append(k, Torn)
  BY DEF LedgerAfterLoss
<1>5. ASSUME NEW k \in Kept, l = Append(k, Torn)
      PROVE  /\ l \in Seq(Entries) /\ Begins(stable.ledger, l)
             /\ ToSet(l) \subseteq ToSet(disk.ledger) \cup {Torn}
  BY <1>1, <1>2, <1>3, <1>5, BeginsAppend, AppendHolds
<1> HIDE DEF Kept
<1> QED BY <1>2, <1>4, <1>5
-----------------------------------------------------------------------------
(* What a step leaves alone                                                *)

(* The ledger and the manifest, as they are seen and as they are synced.   *)
LogsStay ==
  /\ disk'.ledger = disk.ledger /\ stable'.ledger = stable.ledger
  /\ disk'.manifest = disk.manifest /\ stable'.manifest = stable.manifest

(* A manifest and what is synced are only added to.                        *)
LogsGrow ==
  /\ Begins(disk.manifest, disk'.manifest)
  /\ Begins(stable.ledger, stable'.ledger) /\ Begins(stable.manifest, stable'.manifest)

(* A file that nobody touched; a sync of the directory may have been.      *)
Kept(f) ==
  /\ disk'.files[f] = disk.files[f]
  /\ stable'.files[f] = stable.files[f] \/ stable'.files[f] = disk.files[f]

(* Nobody is newly told COMMITTED, and NOT_COMMITTED only of a batch that  *)
(* left nothing.                                                           *)
AnswersStay ==
  \A b \in Batches :
    \/ outcome'[b] = outcome[b]
    \/ outcome'[b] \in {"pending", "no_answer", "OUTCOME_UNKNOWN"}
    \/ outcome'[b] = "NOT_COMMITTED" /\ Unwritten(b)

(* A process that is where it was, with what it had.                       *)
Quiet(q) ==
  /\ pc'[q] = pc[q] /\ current'[q] = current[q] /\ owned'[q] = owned[q] /\ captured'[q] = captured[q]
  /\ current[q] \in Batches => outcome'[current[q]] = outcome[current[q]]

(* The other processes are where they were.                                *)
OthersStay(p) == \A q \in Procs \ {p} : Quiet(q)

(* A commit writes its own batch only, and files that are its own or new.  *)
WritesOwn(p) ==
  /\ \/ disk'.ledger = disk.ledger
     \/ pc[p] = "append" /\ \E e \in {Torn, current[p]} : disk'.ledger = Append(disk.ledger, e)
  /\ stable'.ledger \in {stable.ledger, disk.ledger}
  /\ \/ disk'.manifest = disk.manifest
     \/ pc[p] \in Committing /\ ToSet(disk'.manifest) \subseteq ToSet(disk.manifest) \cup {current[p]}
  /\ stable'.manifest \in {stable.manifest, disk.manifest}
  /\ \A f \in Files : \/ Kept(f) \/ disk.files[f] = "absent"
                      \/ pc[p] \in Committing /\ f = current[p]
                      \/ pc[p] \in BeforeAppend /\ Owns(p, f)

(* A commit goes on with its batch and its files and those that are new,   *)
(* or starts with a batch that nobody has issued.                          *)
GoesOn(p) ==
  /\ pc'[p] \in Committing => \/ pc[p] \in Committing /\ current'[p] = current[p]
                              \/ outcome[current'[p]] = "unissued"
  /\ pc'[p] \in BeforeAppend =>
       \A i \in 1 .. Len(owned'[p]) : \/ disk.files[owned'[p][i]] = "absent"
                                      \/ pc[p] \in BeforeAppend /\ Owns(p, owned'[p][i])

(* Logs that nobody wrote and answers of no weight are still in order.     *)
LEMMA LogsKept ==
  ASSUME StoreInv, LogsStay, AnswersStay
  PROVE  LogsInv' /\ OutcomesAreDurable' /\ LogsGrow
<1>1. LogsInv'
  BY DEF StoreInv, LogsStay, LogsInv, Begins
<1>2. ASSUME NEW b \in Batches, NEW dir \in {disk, stable}
      PROVE  /\ outcome[b] = "COMMITTED" => b \in ToSet(dir.ledger) /\ b \in ToSet(dir.manifest)
             /\ outcome[b] \in {"unissued", "NOT_COMMITTED"} =>
                  b \notin ToSet(dir.ledger) /\ b \notin ToSet(dir.manifest)
  BY DEF StoreInv, OutcomesAreDurable
<1>3. ASSUME NEW b \in Batches, NEW old \in {disk, stable}, NEW new,
             new.ledger = old.ledger, new.manifest = old.manifest
      PROVE  /\ outcome'[b] = "COMMITTED" => b \in ToSet(new.ledger) /\ b \in ToSet(new.manifest)
             /\ outcome'[b] \in {"unissued", "NOT_COMMITTED"} =>
                  b \notin ToSet(new.ledger) /\ b \notin ToSet(new.manifest)
  <2>1. CASE outcome'[b] = outcome[b]
    BY <1>2, <1>3, <2>1
  <2>2. CASE outcome'[b] \in {"pending", "no_answer", "OUTCOME_UNKNOWN"}
    BY <2>2
  <2>3. CASE outcome'[b] = "NOT_COMMITTED" /\ Unwritten(b)
    BY <1>3, <2>3 DEF Unwritten
  <2> QED BY <2>1, <2>2, <2>3 DEF AnswersStay
<1>4. OutcomesAreDurable'
  BY <1>3 DEF OutcomesAreDurable, LogsStay
<1>5. LogsGrow
  <2>1. disk.manifest \in Seq(Entries) /\ stable.ledger \in Seq(Entries) /\ stable.manifest \in Seq(Entries)
    BY Parts DEF StoreInv, TypeInv
  <2> QED BY <2>1, BeginsItself DEF LogsStay, LogsGrow
<1> QED BY <1>1, <1>4, <1>5

(* Files the ledger names that were not touched are still there.           *)
LEMMA FilesKept ==
  ASSUME StoreInv, disk'.ledger = disk.ledger, \A f \in ArtifactsIn(disk.ledger) : Kept(f)
  PROVE  FilesInv'
<1>1. ArtifactsIn(disk.ledger)' = ArtifactsIn(disk.ledger)
  BY DEF ArtifactsIn
<1> QED BY <1>1 DEF StoreInv, FilesInv, Kept

(* The files that the ledger names are files of the store, no manifests.   *)
LEMMA Named ==
  ASSUME TypeOK, NEW f \in ArtifactsIn(disk.ledger)
  PROVE  f \in Files /\ f \notin Batches
BY Parts, NamesAreArtifacts DEF Files

(* A process in a commit has a batch, that nobody else has.                *)
LEMMA Committer ==
  ASSUME StoreInv, NEW p \in Procs, pc[p] \in Committing
  PROVE  /\ current[p] \in Batches /\ outcome[current[p]] = "pending" /\ At(p)
         /\ ToPersist(current[p]) \in Seq(Files) /\ current[p] \in Files
         /\ captured[p] \in Seq(Entries) /\ owned[p] \in Seq(Files) /\ NextLedger(p) \in Seq(Entries)
         /\ Begins(captured[p], disk.manifest)
<1>1. /\ current[p] \in Batches /\ outcome[current[p]] = "pending" /\ At(p)
      /\ captured[p] \in Seq(Entries) /\ owned[p] \in Seq(Files) /\ Begins(captured[p], disk.manifest)
  BY DEF StoreInv, TypeInv, TypeOK, CommitHasBatch, At
<1>2. ToPersist(current[p]) \in Seq(Files) /\ current[p] \in Files
  BY <1>1, StoreAssumption DEF ToPersist, Files
<1>3. NextLedger(p) \in Seq(Entries)
  BY <1>1 DEF NextLedger, Entries
<1> QED BY <1>1, <1>2, <1>3

(* What a commit has created is for its own batch.                         *)
LEMMA OwnedIsNeeded ==
  ASSUME StoreInv, NEW p \in Procs, pc[p] \in BeforeAppend, NEW f, Owns(p, f)
  PROVE  /\ f \in Files /\ (f = current[p] \/ f \in Artifacts) /\ disk.files[f] # "absent"
         /\ f \notin ArtifactsIn(disk.ledger)
<1>1. pc[p] \in Committing
  BY DEF BeforeAppend, Committing
<1>2. /\ current[p] \in Batches /\ Created(p) /\ ToPersist(current[p]) \in Seq(Files)
      /\ ArtifactsOf[current[p]] \in Seq(Artifacts) /\ owned[p] \in Seq(Files)
  BY <1>1, Committer, StoreAssumption DEF At
<1>3. PICK i \in 1 .. Len(owned[p]) : owned[p][i] = f
  BY DEF Owns
<1>4. /\ f \in Files /\ f = ToPersist(current[p])[i] /\ i \in 1 .. Len(ToPersist(current[p]))
      /\ disk.files[f] # "absent" /\ f \notin ArtifactsIn(disk.ledger)
  BY <1>2, <1>3 DEF Created
<1>5. f = current[p] \/ f \in Artifacts
  BY <1>2, <1>4 DEF ToPersist
<1> QED BY <1>4, <1>5

(* A process that has no commit under way needs nothing more.              *)
LEMMA RestingAt ==
  ASSUME NEW p, pc'[p] \notin Committing, current'[p] = NoBatch, owned'[p] = <<>>
  PROVE  At(p)'
BY DEF At, Committing, BeforeAppend, Appended

-----------------------------------------------------------------------------
(* Commits beside each other                                               *)

(* A commit whose batch and files are left alone can still rely on them.   *)
LEMMA SparedAt ==
  ASSUME StoreInv, TypeInv', LogsGrow, NEW q \in Procs, Quiet(q),
         pc[q] \in BeforeAppend => Unwritten(current[q])',
         pc[q] \in {"sync", "publish"} => current[q] \notin ToSet(disk'.manifest),
         pc[q] \in BeforeAppend =>
           \A f \in Files : Owns(q, f) => Kept(f) /\ f \notin ArtifactsIn(disk'.ledger)
  PROVE  At(q)'
<1>1. CASE pc[q] \notin Committing
  <2>1. current[q] = NoBatch /\ owned[q] = <<>>
    BY <1>1 DEF StoreInv, At
  <2> QED BY <1>1, <2>1, RestingAt DEF Quiet
<1>2. CASE pc[q] \in Committing
  <2>0. /\ At(q) /\ current[q] \in Batches /\ outcome[current[q]] = "pending" /\ TypeOK /\ owned[q] \in Seq(Files)
        /\ captured[q] \in Seq(Entries) /\ NextLedger(q) \in Seq(Entries) /\ Begins(captured[q], disk.manifest)
    BY <1>2, Committer DEF StoreInv, TypeInv
  <2>1. /\ disk.manifest \in Seq(Entries) /\ stable.ledger \in Seq(Entries) /\ stable.manifest \in Seq(Entries)
        /\ disk'.manifest \in Seq(Entries) /\ stable'.ledger \in Seq(Entries) /\ stable'.manifest \in Seq(Entries)
    BY <2>0, Parts DEF TypeInv, TypeOK, Directory
  <2>2. NextLedger(q)' = NextLedger(q) /\ ArtifactsIn(disk.ledger)' = ArtifactsIn(disk'.ledger)
    BY DEF NextLedger, Quiet, ArtifactsIn
  <2>3. ASSUME NEW s \in Seq(Entries)
        PROVE  /\ Begins(s, disk.manifest) => Begins(s, disk'.manifest)
               /\ Begins(s, stable.ledger) => Begins(s, stable'.ledger)
               /\ Begins(s, stable.manifest) => Begins(s, stable'.manifest)
    BY <2>1, <2>3, BeginsTrans DEF LogsGrow
  <2>4. pc[q] \in Committing => outcome'[current'[q]] = "pending" /\ Begins(captured'[q], disk'.manifest)
    BY <2>0, <2>3 DEF Quiet
  <2>5. pc[q] \in BeforeAppend => Created(q)'
    <3> SUFFICES ASSUME pc[q] \in BeforeAppend PROVE Created(q)'
      OBVIOUS
    <3>1. Created(q)
      BY <2>0 DEF At
    <3>2. ASSUME NEW i \in 1 .. Len(owned[q])
          PROVE  Kept(owned[q][i]) /\ owned[q][i] \notin ArtifactsIn(disk'.ledger)
      <4>1. owned[q][i] \in Files /\ Owns(q, owned[q][i])
        BY <2>0 DEF Owns
      <4> QED BY <4>1
    <3>3. ASSUME NEW i \in 1 .. Len(owned[q])
          PROVE  /\ disk'.files[owned[q][i]] # "absent"
                 /\ disk'.files[owned[q][i]] = "whole" => stable'.files[owned[q][i]] = "whole"
      BY <3>1, <3>2 DEF Created, Kept
    <3> QED BY <2>2, <3>1, <3>2, <3>3 DEF Created, Quiet, ToPersist
  <2>6. pc[q] = "append" => Recorded(q)'
    <3> SUFFICES ASSUME pc[q] = "append", NEW f \in ToSet(ArtifactsOf[current[q]])
                 PROVE  Owns(q, f) /\ disk'.files[f] = "whole" /\ stable'.files[f] = "whole"
      BY DEF Recorded, Quiet, Owns
    <3>1. Owns(q, f) /\ disk.files[f] = "whole" /\ stable.files[f] = "whole"
      BY <2>0 DEF At, Recorded
    <3>2. pc[q] \in BeforeAppend
      BY DEF BeforeAppend
    <3>3. Kept(f)
      BY <3>1, <3>2, OwnedIsNeeded
    <3> QED BY <3>1, <3>3 DEF Kept
  <2>7. pc[q] \in Appended => Begins(NextLedger(q)', stable'.ledger)
    BY <2>0, <2>2, <2>3 DEF At
  <2>8. pc[q] \in {"rootsync", "confirm"} => Begins(NextLedger(q)', disk'.manifest)
    BY <2>0, <2>2, <2>3 DEF At
  <2>9. pc[q] = "confirm" => Begins(NextLedger(q)', stable'.manifest)
    BY <2>0, <2>2, <2>3 DEF At
  <2>10. pc'[q] = pc[q] /\ current'[q] = current[q]
    BY DEF Quiet
  <2> QED BY <1>2, <2>4, <2>5, <2>6, <2>7, <2>8, <2>9, <2>10 DEF At
<1> QED BY <1>1, <1>2

(* What a commit writes is no concern of another one.                      *)
LEMMA OthersAt ==
  ASSUME StoreInv, TypeInv', LogsGrow, NEW p \in Procs, WritesOwn(p), OthersStay(p)
  PROVE  \A q \in Procs \ {p} : At(q)'
<1> SUFFICES ASSUME NEW q \in Procs \ {p} PROVE At(q)'
  OBVIOUS
<1>0. /\ Quiet(q) /\ TypeOK /\ (pc[q] \in Committing => current[q] \in Batches /\ At(q))
      /\ disk.ledger \in Seq(Entries) /\ disk'.ledger \in Seq(Entries)
  BY Committer, Parts DEF OthersStay, StoreInv, TypeInv, TypeOK, Directory
<1>1. BeforeAppend \subseteq Committing /\ {"sync", "publish"} \subseteq Committing /\ "append" \in BeforeAppend
  BY DEF BeforeAppend, Committing
<1>2. pc[q] \in Committing /\ pc[p] \in Committing => current[q] # current[p]
  BY DEF StoreInv, Apart
<1>3. disk'.ledger = disk.ledger \/ (pc[p] = "append" /\ \E e \in {Torn, current[p]} : disk'.ledger = Append(disk.ledger, e))
  BY DEF WritesOwn
<1>4. pc[p] = "append" => current[p] \in Batches /\ Recorded(p)
  BY <1>1, Committer DEF At
<1>5. ASSUME pc[q] \in Committing, current[q] \notin ToSet(disk.ledger) PROVE current[q] \notin ToSet(disk'.ledger)
  <2>1. CASE disk'.ledger = disk.ledger
    BY <1>5, <2>1
  <2>2. CASE pc[p] = "append" /\ \E e \in {Torn, current[p]} : disk'.ledger = Append(disk.ledger, e)
    <3>1. PICK e \in {Torn, current[p]} : disk'.ledger = Append(disk.ledger, e)
      BY <2>2
    <3>2. e \in Entries /\ e # current[q]
      BY <1>0, <1>1, <1>2, <1>4, <1>5, <2>2, StoreAssumption DEF Entries
    <3> QED BY <1>0, <1>5, <3>1, <3>2, AppendHolds
  <2> QED BY <1>3, <2>1, <2>2
<1>6. ASSUME pc[q] \in Committing, current[q] \notin ToSet(disk.manifest) PROVE current[q] \notin ToSet(disk'.manifest)
  BY <1>2, <1>6 DEF WritesOwn
<1>7. pc[q] \in BeforeAppend => Unwritten(current[q])'
  <2>1. SUFFICES ASSUME pc[q] \in BeforeAppend PROVE Unwritten(current[q])'
    OBVIOUS
  <2>2. Unwritten(current[q])
    BY <1>0, <1>1, <2>1 DEF At
  <2>3. /\ current[q] \notin ToSet(disk'.ledger) /\ current[q] \notin ToSet(disk'.manifest)
        /\ current[q] \notin ToSet(stable'.ledger) /\ current[q] \notin ToSet(stable'.manifest)
    BY <1>1, <1>5, <1>6, <2>1, <2>2 DEF Unwritten, WritesOwn
  <2> QED BY <1>0, <2>3 DEF Unwritten, Quiet
<1>8. pc[q] \in {"sync", "publish"} => current[q] \notin ToSet(disk'.manifest)
  BY <1>0, <1>1, <1>6 DEF At
<1>9. ASSUME pc[q] \in BeforeAppend, NEW f \in Files, Owns(q, f)
      PROVE  Kept(f) /\ f \notin ArtifactsIn(disk'.ledger)
  <2>1. f \in Files /\ (f = current[q] \/ f \in Artifacts) /\ disk.files[f] # "absent" /\ f \notin ArtifactsIn(disk.ledger)
    BY <1>9, OwnedIsNeeded
  <2>2. pc[p] \in BeforeAppend => ~Owns(p, f)
    BY <1>9 DEF StoreInv, Apart
  <2>3. pc[p] \in Committing => f # current[p]
    BY <1>0, <1>1, <1>2, <1>9, <2>1, Committer, StoreAssumption
  <2>4. Kept(f)
    BY <2>1, <2>2, <2>3 DEF WritesOwn
  <2>5. f \notin ArtifactsIn(disk'.ledger)
    <3>1. SUFFICES ASSUME NEW b \in Batches, b \in ToSet(disk'.ledger), f \in ToSet(ArtifactsOf[b]) PROVE FALSE
      BY <1>0, NamesOf
    <3>2. b \notin ToSet(disk.ledger)
      BY <1>0, <2>1, <3>1, NamesOf
    <3>3. pc[p] = "append" /\ b = current[p]
      <4>1. pc[p] = "append" /\ \E e \in {Torn, current[p]} : disk'.ledger = Append(disk.ledger, e)
        BY <1>3, <3>1, <3>2
      <4>2. PICK e \in {Torn, current[p]} : disk'.ledger = Append(disk.ledger, e)
        BY <4>1
      <4>3. e \in Entries
        BY <1>4, <4>1 DEF Entries
      <4>4. b = e
        BY <1>0, <3>1, <3>2, <4>2, <4>3, AppendHolds
      <4> QED BY <4>1, <4>4, StoreAssumption
    <3>4. Owns(p, f)
      BY <1>4, <3>1, <3>3 DEF Recorded
    <3> QED BY <1>1, <2>2, <3>3, <3>4
  <2> QED BY <2>4, <2>5
<1> QED BY <1>0, <1>7, <1>8, <1>9, SparedAt

(* Commits stay apart.                                                     *)
LEMMA ApartKept ==
  ASSUME StoreInv, TypeInv', NEW p \in Procs, OthersStay(p), GoesOn(p)
  PROVE  Apart'
<1>1. ASSUME NEW q \in Procs PROVE pc[q] \in Committing => outcome[current[q]] = "pending"
  BY <1>1 DEF StoreInv, At
<1>2. ASSUME NEW q \in Procs, NEW r \in Procs, pc'[q] \in Committing, pc'[r] \in Committing, q # r
      PROVE  current'[q] # current'[r]
  <2>1. ASSUME NEW s \in Procs \ {p}, pc'[s] \in Committing, pc'[p] \in Committing PROVE current'[s] # current'[p]
    BY <1>1, <2>1 DEF StoreInv, Apart, OthersStay, Quiet, GoesOn
  <2>2. CASE q # p /\ r # p
    BY <1>2, <2>2 DEF StoreInv, Apart, OthersStay, Quiet
  <2> QED BY <1>2, <2>1, <2>2
<1>3. ASSUME NEW q \in Procs, NEW r \in Procs, pc'[q] \in BeforeAppend, pc'[r] \in BeforeAppend, q # r,
             NEW f \in Files, Owns(q, f)', Owns(r, f)'
      PROVE  FALSE
  <2>1. ASSUME NEW s \in Procs \ {p}, pc'[s] \in BeforeAppend, Owns(s, f)'
        PROVE  pc[s] \in BeforeAppend /\ Owns(s, f) /\ disk.files[f] # "absent"
    <3>1. pc[s] \in BeforeAppend /\ Owns(s, f)
      BY <2>1 DEF OthersStay, Quiet, Owns
    <3> QED BY <3>1, OwnedIsNeeded
  <2>2. ASSUME NEW s \in Procs \ {p}, pc'[s] \in BeforeAppend, Owns(s, f)', pc'[p] \in BeforeAppend, Owns(p, f)'
        PROVE  FALSE
    <3>1. PICK i \in 1 .. Len(owned'[p]) : owned'[p][i] = f
      BY <2>2 DEF Owns
    <3>2. disk.files[f] = "absent" \/ (pc[p] \in BeforeAppend /\ Owns(p, f))
      BY <2>2, <3>1 DEF GoesOn
    <3> QED BY <2>1, <2>2, <3>2 DEF StoreInv, Apart
  <2>3. CASE q # p /\ r # p
    BY <1>3, <2>1, <2>3 DEF StoreInv, Apart
  <2> QED BY <1>3, <2>2, <2>3
<1> QED BY <1>2, <1>3 DEF Apart

(* So a step of a commit has only its own process and the logs to mind.    *)
LEMMA CommitStep ==
  ASSUME StoreInv, TypeInv', NEW p \in Procs, OthersStay(p), LogsGrow, WritesOwn(p), GoesOn(p),
         LogsInv', OutcomesAreDurable', FilesInv', At(p)'
  PROVE  StoreInv'
BY OthersAt, ApartKept DEF StoreInv

(* Whoever gets an answer is done with the batch.                          *)
LEMMA AnswerAt ==
  ASSUME StoreInv, NEW p \in Procs, pc[p] \in Committing, NEW answer, Answer(p, answer),
         \A q \in Procs \ {p} : captured'[q] = captured[q]
  PROVE  /\ At(p)' /\ OthersStay(p) /\ GoesOn(p)
         /\ \A b \in Batches : outcome'[b] = IF b = current[p] THEN answer ELSE outcome[b]
<1>1. /\ pc'[p] = "ready" /\ current'[p] = NoBatch /\ owned'[p] = <<>>
      /\ \A q \in Procs \ {p} : pc'[q] = pc[q] /\ current'[q] = current[q] /\ owned'[q] = owned[q]
  BY DEF StoreInv, TypeInv, TypeOK, Answer, Goto
<1>2. "ready" \notin Committing /\ "ready" \notin BeforeAppend
  BY DEF Committing, BeforeAppend
<1>3. \A b \in Batches : outcome'[b] = IF b = current[p] THEN answer ELSE outcome[b]
  BY DEF StoreInv, TypeInv, TypeOK, Answer
<1>4. ASSUME NEW q \in Procs \ {p}, current[q] \in Batches PROVE outcome'[current[q]] = outcome[current[q]]
  <2>1. pc[q] \in Committing
    BY <1>4, StoreAssumption DEF StoreInv, At
  <2>2. current[q] # current[p]
    BY <2>1 DEF StoreInv, Apart
  <2> QED BY <1>3, <1>4, <2>2
<1> QED BY <1>1, <1>2, <1>3, <1>4, RestingAt DEF OthersStay, Quiet, GoesOn

(* An answer that says nothing of the disk, or that nothing was written.   *)
LEMMA AnswerStays ==
  ASSUME StoreInv, NEW p \in Procs, pc[p] \in Committing, NEW answer, Answer(p, answer), UNCHANGED captured,
         \/ answer = "OUTCOME_UNKNOWN"
         \/ answer = "NOT_COMMITTED" /\ Unwritten(current[p])
  PROVE  At(p)' /\ OthersStay(p) /\ GoesOn(p) /\ AnswersStay
BY AnswerAt DEF AnswersStay

(* A commit that goes on keeps its batch.                                  *)
LEMMA GotoStays ==
  ASSUME StoreInv, NEW p \in Procs, pc[p] \in Committing, NEW place, Goto(p, place),
         UNCHANGED <<current, outcome, captured, owned>>, place \in BeforeAppend => pc[p] \in BeforeAppend
  PROVE  pc'[p] = place /\ OthersStay(p) /\ GoesOn(p) /\ AnswersStay
<1>1. pc'[p] = place /\ \A q \in Procs \ {p} : pc'[q] = pc[q]
  BY DEF StoreInv, TypeInv, TypeOK, Goto
<1>2. \A i \in 1 .. Len(owned[p]) : Owns(p, owned[p][i])
  BY DEF Owns
<1> QED BY <1>1, <1>2 DEF OthersStay, Quiet, GoesOn, AnswersStay

-----------------------------------------------------------------------------
(* Steps outside of a commit                                               *)

(* Nothing was written; the run directory may have been synced.            *)
QuietDirectory ==
  /\ disk'.ledger = disk.ledger /\ disk'.manifest = disk.manifest /\ disk'.files = disk.files
  /\ stable'.ledger = stable.ledger
  /\ \/ stable'.manifest = stable.manifest /\ stable'.files = stable.files
     \/ stable' = RootSynced

(* The sync shows in the durable directory what the processes see.         *)
LEMMA QuietParts ==
  ASSUME StoreInv, QuietDirectory
  PROVE  /\ stable'.manifest \in {stable.manifest, disk.manifest}
         /\ \A f \in Files : Kept(f)
<1>1. TypeOK
  BY DEF StoreInv, TypeInv
<1>2. CASE stable'.manifest = stable.manifest /\ stable'.files = stable.files
  BY <1>2 DEF Kept, QuietDirectory
<1>3. CASE stable' = RootSynced
  BY <1>1, <1>3, RootSyncedParts DEF QuietDirectory, Kept
<1> QED BY <1>2, <1>3 DEF QuietDirectory

(* A quiet directory is in order.                                          *)
LEMMA QuietLogs ==
  ASSUME StoreInv, QuietDirectory, AnswersStay
  PROVE  LogsInv' /\ OutcomesAreDurable' /\ FilesInv' /\ LogsGrow
<1>1. stable'.manifest \in {stable.manifest, disk.manifest} /\ stable'.ledger = stable.ledger
  BY QuietParts DEF QuietDirectory
<1>2. LogsInv'
  BY <1>1 DEF StoreInv, LogsInv, QuietDirectory, Begins
<1>3. ASSUME NEW b \in Batches, NEW dir \in {disk, stable}, NEW other \in {disk, stable}
      PROVE  /\ outcome[b] = "COMMITTED" => b \in ToSet(dir.ledger) /\ b \in ToSet(other.manifest)
             /\ outcome[b] \in {"unissued", "NOT_COMMITTED"} =>
                  b \notin ToSet(dir.ledger) /\ b \notin ToSet(other.manifest)
  BY DEF StoreInv, OutcomesAreDurable
<1>4. ASSUME NEW b \in Batches, NEW dir \in {disk, stable}, NEW other \in {disk, stable},
             NEW new, new.ledger = dir.ledger, new.manifest = other.manifest
      PROVE  /\ outcome'[b] = "COMMITTED" => b \in ToSet(new.ledger) /\ b \in ToSet(new.manifest)
             /\ outcome'[b] \in {"unissued", "NOT_COMMITTED"} =>
                  b \notin ToSet(new.ledger) /\ b \notin ToSet(new.manifest)
  <2>1. CASE outcome'[b] = outcome[b]
    BY <1>3, <1>4, <2>1
  <2>2. CASE outcome'[b] \in {"pending", "no_answer", "OUTCOME_UNKNOWN"}
    BY <2>2
  <2>3. CASE outcome'[b] = "NOT_COMMITTED" /\ Unwritten(b)
    BY <1>4, <2>3 DEF Unwritten
  <2> QED BY <2>1, <2>2, <2>3 DEF AnswersStay
<1>5. OutcomesAreDurable'
  BY <1>1, <1>4 DEF OutcomesAreDurable, QuietDirectory
<1>6. FilesInv'
  BY QuietParts, FilesKept, Named DEF StoreInv, TypeInv, QuietDirectory
<1>7. LogsGrow
  <2>1. /\ disk.manifest \in Seq(Entries) /\ stable.ledger \in Seq(Entries) /\ stable.manifest \in Seq(Entries)
        /\ Begins(stable.manifest, disk.manifest)
    BY Parts DEF StoreInv, TypeInv, LogsInv
  <2> QED BY <1>1, <2>1, BeginsItself DEF QuietDirectory, LogsGrow
<1> QED BY <1>2, <1>5, <1>6, <1>7

(* A quiet process is where its commit needs it.                           *)
LEMMA QuietAt ==
  ASSUME StoreInv, TypeInv', QuietDirectory, LogsGrow, NEW q \in Procs, Quiet(q)
  PROVE  At(q)'
<1>1. ArtifactsIn(disk'.ledger) = ArtifactsIn(disk.ledger) /\ disk'.manifest = disk.manifest
  BY DEF QuietDirectory
<1>2. pc[q] \in BeforeAppend => Unwritten(current[q])'
  <2>1. pc[q] \in BeforeAppend => Unwritten(current[q])
    BY DEF StoreInv, At
  <2> QED BY <2>1, QuietParts DEF Unwritten, QuietDirectory, Quiet
<1>3. pc[q] \in {"sync", "publish"} => current[q] \notin ToSet(disk'.manifest)
  BY <1>1 DEF StoreInv, At
<1>4. pc[q] \in BeforeAppend =>
        \A f \in Files : Owns(q, f) => Kept(f) /\ f \notin ArtifactsIn(disk'.ledger)
  BY <1>1, QuietParts, OwnedIsNeeded
<1> QED BY <1>2, <1>3, <1>4, SparedAt

(* A step of a process that commits nothing, or of nobody.                 *)
LEMMA OutsideStep ==
  ASSUME StoreInv, TypeInv', QuietDirectory, AnswersStay,
         \A q \in Procs : \/ Quiet(q)
                          \/ pc'[q] \notin Committing /\ current'[q] = NoBatch /\ owned'[q] = <<>>
  PROVE  StoreInv'
<1>1. LogsInv' /\ OutcomesAreDurable' /\ FilesInv' /\ LogsGrow
  BY QuietLogs
<1>2. \A q \in Procs : At(q)'
  BY <1>1, QuietAt, RestingAt
<1>3. BeforeAppend \subseteq Committing
  BY DEF BeforeAppend, Committing
<1>4. Apart'
  <2>1. ASSUME NEW q \in Procs, pc'[q] \in Committing PROVE Quiet(q)
    BY <2>1
  <2>2. ASSUME NEW q \in Procs, NEW r \in Procs, q # r, pc'[q] \in Committing, pc'[r] \in Committing
        PROVE  current'[q] # current'[r]
    BY <2>1, <2>2 DEF StoreInv, Apart, Quiet
  <2>3. ASSUME NEW q \in Procs, NEW r \in Procs, q # r, pc'[q] \in BeforeAppend, pc'[r] \in BeforeAppend,
               NEW f \in Files, Owns(q, f)', Owns(r, f)'
        PROVE  FALSE
    BY <1>3, <2>1, <2>3 DEF StoreInv, Apart, Quiet, Owns
  <2> QED BY <2>2, <2>3 DEF Apart
<1> QED BY <1>1, <1>2, <1>4 DEF StoreInv

(* Captures, openings, closings and the operator write nothing: a close    *)
(* beside a commit takes only the lock away.                               *)
LEMMA OutsideSteps ==
  ASSUME StoreInv, TypeInv',
         \/ \E p \in Procs :
              \/ CaptureLedger(p) \/ CaptureManifest(p) \/ CaptureRefused(p) \/ Forget(p)
              \/ CreateLock(p) \/ SyncLock(p) \/ OpenFails(p)
              \/ Close(p) \/ Unlink(p) \/ SyncUnlink(p) \/ CloseFails(p)
         \/ OperatorRemovesLock \/ UNCHANGED vars
  PROVE  StoreInv'
<1> USE DEF Quiet, QuietDirectory
<1>0. TypeOK /\ \A p \in Procs : At(p)
  BY DEF StoreInv, TypeInv
<1>1. disk \in Directory /\ stable \in Directory /\ pc \in [Procs -> Places] /\ captured \in [Procs -> Seq(Entries)]
  BY <1>0 DEF TypeOK
<1>2. ASSUME NEW p \in Procs, NEW place \in {"reading", "ready", "idle"}, Goto(p, place), pc[p] \in {"idle", "reading", "ready"},
             UNCHANGED <<disk, stable, current, owned, outcome>>, \A q \in Procs \ {p} : captured'[q] = captured[q]
      PROVE  StoreInv'
  <2>1. place \notin Committing /\ pc[p] \notin Committing
    BY <1>2 DEF Committing
  <2>2. current[p] = NoBatch /\ owned[p] = <<>> /\ pc'[p] = place /\ \A q \in Procs \ {p} : pc'[q] = pc[q]
    BY <1>0, <1>1, <1>2, <2>1 DEF At, Goto
  <2>3. AnswersStay /\ QuietDirectory
    BY <1>2 DEF AnswersStay
  <2>4. \A q \in Procs : \/ Quiet(q)
                         \/ pc'[q] \notin Committing /\ current'[q] = NoBatch /\ owned'[q] = <<>>
    BY <1>2, <2>1, <2>2
  <2> QED BY <2>3, <2>4, OutsideStep
<1>3. ASSUME UNCHANGED <<pc, commitVars>>,
             disk' = disk \/ \E k : disk' = [disk EXCEPT !.lock = k],
             stable' = stable \/ stable' = RootSynced
      PROVE  StoreInv'
  <2>1. disk'.ledger = disk.ledger /\ disk'.manifest = disk.manifest /\ disk'.files = disk.files
    BY <1>1, <1>3 DEF Directory
  <2>2. QuietDirectory
    BY <1>0, <1>3, <2>1, RootSyncedParts
  <2>3. AnswersStay /\ \A q \in Procs : Quiet(q)
    BY <1>3 DEF AnswersStay, commitVars
  <2> QED BY <2>2, <2>3, OutsideStep
<1>4. ASSUME NEW p \in Procs, CaptureLedger(p) \/ CaptureManifest(p) \/ CaptureRefused(p) \/ Forget(p)
      PROVE  StoreInv'
  <2>1. PICK place \in {"reading", "ready", "idle"} : Goto(p, place) /\ pc[p] \in {"idle", "reading", "ready"}
    BY <1>4 DEF CaptureLedger, CaptureManifest, CaptureRefused, Forget
  <2>2. UNCHANGED <<current, owned, outcome, disk, stable>> /\ \A q \in Procs \ {p} : captured'[q] = captured[q]
    BY <1>1, <1>4 DEF CaptureLedger, CaptureManifest, CaptureRefused, Forget, commitVars
  <2> QED BY <1>2, <2>1, <2>2
<1>5. ASSUME NEW p \in Procs, CreateLock(p) \/ OpenFails(p) \/ Unlink(p) PROVE StoreInv'
  BY <1>3, <1>5 DEF CreateLock, OpenFails, Unlink
<1>6. ASSUME NEW p \in Procs, Close(p) \/ CloseFails(p) \/ SyncLock(p) \/ SyncUnlink(p) PROVE StoreInv'
  BY <1>3, <1>6 DEF Close, CloseFails, SyncLock, SyncUnlink
<1>7. CASE OperatorRemovesLock \/ UNCHANGED vars
  BY <1>3, <1>7 DEF OperatorRemovesLock, vars, commitVars
<1> QED BY <1>4, <1>5, <1>6, <1>7

-----------------------------------------------------------------------------
(* Crashes                                                                 *)

(* What a crashed process was committing is not answered.                  *)
LEMMA UnansweredStays ==
  ASSUME NEW ps, outcome' = Unanswered(ps)
  PROVE  AnswersStay
BY DEF Unanswered, AnswersStay

(* A process crashes: the directory is as it left it, and the others go on *)
(* with batches of their own.                                              *)
LEMMA CrashStep ==
  ASSUME StoreInv, TypeInv', NEW p \in Procs, Crash(p)
  PROVE  StoreInv'
<1>1. QuietDirectory
  BY DEF Crash, QuietDirectory
<1>2. TypeOK /\ \A q \in Procs : At(q)
  BY DEF StoreInv, TypeInv
<1>3. AnswersStay
  BY UnansweredStays DEF Crash
<1>4. pc'[p] = "idle" /\ current'[p] = NoBatch /\ owned'[p] = <<>> /\ "idle" \notin Committing
  BY <1>2 DEF Crash, Goto, TypeOK, Committing
<1>5. ASSUME NEW q \in Procs \ {p} PROVE Quiet(q)
  <2>1. pc'[q] = pc[q] /\ current'[q] = current[q] /\ owned'[q] = owned[q] /\ captured'[q] = captured[q]
    BY <1>2 DEF Crash, Goto, TypeOK
  <2>2. ASSUME current[q] \in Batches PROVE outcome'[current[q]] = outcome[current[q]]
    <3>1. current[p] # current[q]
      BY <1>2, <2>2, StoreAssumption DEF At, StoreInv, Apart
    <3> QED BY <2>2, <3>1 DEF Crash, Unanswered
  <2> QED BY <2>1, <2>2 DEF Quiet
<1> QED BY <1>1, <1>3, <1>4, <1>5, OutsideStep


(* The power fails: what is left was visible or synced, file by file.      *)
LEMMA PowerLossStep ==
  ASSUME StoreInv, TypeInv', PowerLoss
  PROVE  StoreInv'
<1>0. /\ TypeOK /\ LogsInv /\ FilesInv /\ OutcomesAreDurable
      /\ disk.ledger \in Seq(Entries) /\ stable.ledger \in Seq(Entries)
      /\ disk.manifest \in Seq(Entries) /\ stable.manifest \in Seq(Entries)
  BY Parts DEF StoreInv, TypeInv
<1>1. PICK l \in LedgerAfterLoss, m \in {stable.manifest, disk.manifest},
           k \in {stable.lock, disk.lock},
           lost \in SUBSET {f \in Files : disk.files[f] # stable.files[f]} :
        /\ disk' = [ledger |-> l, manifest |-> m, lock |-> k,
                    files |-> [f \in Files |-> IF f \in lost THEN stable.files[f] ELSE disk.files[f]]]
        /\ stable' = disk'
  BY DEF PowerLoss
<1>11. /\ disk'.ledger = l /\ disk'.manifest = m /\ stable'.ledger = l /\ stable'.manifest = m
       /\ disk'.files = [f \in Files |-> IF f \in lost THEN stable.files[f] ELSE disk.files[f]]
       /\ stable'.files = disk'.files
  BY <1>1
<1>2. /\ l \in Seq(Entries) /\ Begins(stable.ledger, l)
      /\ ToSet(l) \subseteq ToSet(disk.ledger) \cup {Torn}
  BY <1>0, LossKeeps DEF LogsInv
<1>3. LogsInv'
  <2>1. Begins(m, stable.ledger) /\ m \in Seq(Entries) /\ Torn \notin ToSet(m)
    BY <1>0 DEF LogsInv
  <2>2. Begins(m, l) /\ Begins(l, l) /\ Begins(m, m)
    BY <1>0, <1>2, <2>1, BeginsTrans, BeginsItself
  <2> QED BY <1>11, <2>1, <2>2 DEF LogsInv
<1>4. OutcomesAreDurable'
  <2>1. AnswersStay
    BY UnansweredStays DEF PowerLoss
  <2>2. \A b \in Batches : outcome'[b] \in {outcome[b], "no_answer"}
    BY DEF PowerLoss, Unanswered
  <2>3. ASSUME NEW b \in Batches
        PROVE  /\ outcome'[b] = "COMMITTED" => b \in ToSet(l) /\ b \in ToSet(m)
               /\ outcome'[b] \in {"unissued", "NOT_COMMITTED"} => b \notin ToSet(l) /\ b \notin ToSet(m)
    <3>1. ToSet(stable.ledger) \subseteq ToSet(l) /\ b # Torn
      BY <1>0, <1>2, BeginsHolds, StoreAssumption
    <3>2. /\ outcome[b] = "COMMITTED" => b \in ToSet(stable.ledger) /\ b \in ToSet(m)
          /\ outcome[b] \in {"unissued", "NOT_COMMITTED"} => b \notin ToSet(disk.ledger) /\ b \notin ToSet(m)
      BY <1>0 DEF OutcomesAreDurable
    <3> QED BY <1>2, <2>2, <3>1, <3>2
  <2> QED BY <1>11, <2>3 DEF OutcomesAreDurable
<1>5. FilesInv'
  <2>1. ASSUME NEW f \in ArtifactsIn(l)
        PROVE  disk'.files[f] = "whole" /\ stable'.files[f] = "whole"
    <3>1. f \in ArtifactsIn(disk.ledger)
      <4>1. PICK b \in Batches : b \in ToSet(l) /\ f \in ToSet(ArtifactsOf[b])
        BY <1>2, NamesOf
      <4>2. b \in ToSet(disk.ledger)
        BY <1>2, <4>1, StoreAssumption
      <4> QED BY <1>0, <4>1, <4>2, NamesOf
    <3>2. f \in Files /\ disk.files[f] = "whole" /\ stable.files[f] = "whole"
      BY <1>0, <3>1, NamesAreArtifacts DEF FilesInv, Files
    <3> QED BY <1>11, <3>2
  <2>2. ArtifactsIn(disk.ledger)' = ArtifactsIn(l)
    BY <1>11 DEF ArtifactsIn
  <2> QED BY <2>1, <2>2 DEF FilesInv
<1>6. ASSUME NEW p \in Procs PROVE At(p)'
  <2>1. pc'[p] = "idle" /\ current'[p] = NoBatch /\ owned'[p] = <<>>
    BY DEF PowerLoss
  <2> QED BY <2>1, RestingAt DEF Committing
<1>7. Apart'
  <2>1. \A p \in Procs : pc'[p] \notin Committing /\ pc'[p] \notin BeforeAppend
    BY DEF PowerLoss, Committing, BeforeAppend
  <2> QED BY <2>1 DEF Apart
<1> QED BY <1>3, <1>4, <1>5, <1>6, <1>7 DEF StoreInv

-----------------------------------------------------------------------------
(* The steps of a commit before the append                                 *)

(* Writing or removing one file changes no other part of a directory.      *)
LEMMA FileParts ==
  ASSUME NEW dir \in Directory, NEW f \in Files, NEW c
  PROVE  /\ [dir EXCEPT !.files[f] = c].ledger = dir.ledger
         /\ [dir EXCEPT !.files[f] = c].manifest = dir.manifest
         /\ \A g \in Files : [dir EXCEPT !.files[f] = c].files[g] = IF g = f THEN c ELSE dir.files[g]
BY DEF Directory

(* A file that the ledger does not name may be created, or removed by the  *)
(* commit that created it.                                                 *)
LEMMA FileStep ==
  ASSUME StoreInv, TypeInv', NEW p \in Procs, OthersStay(p), GoesOn(p), AnswersStay, At(p)', LogsStay,
         NEW f, f \notin ArtifactsIn(disk.ledger),
         \/ disk.files[f] = "absent" \/ (pc[p] \in Committing /\ f = current[p])
         \/ (pc[p] \in BeforeAppend /\ Owns(p, f)),
         \A g \in Files \ {f} : disk'.files[g] = disk.files[g] /\ stable'.files[g] = stable.files[g]
  PROVE  StoreInv'
<1>1. \A g \in Files \ {f} : Kept(g)
  BY DEF Kept
<1>2. FilesInv'
  BY <1>1, FilesKept, Named DEF StoreInv, TypeInv, LogsStay
<1>3. WritesOwn(p)
  BY <1>1 DEF WritesOwn, LogsStay
<1> QED BY <1>2, <1>3, LogsKept, CommitStep

(* A step that writes nothing has only its own process to mind.            *)
LEMMA StillStep ==
  ASSUME StoreInv, TypeInv', NEW p \in Procs, UNCHANGED <<disk, stable>>, OthersStay(p), GoesOn(p), AnswersStay, At(p)'
  PROVE  StoreInv'
<1>1. LogsStay /\ \A f : Kept(f)
  BY DEF LogsStay, Kept
<1>2. FilesInv' /\ WritesOwn(p)
  BY <1>1, FilesKept DEF LogsStay, WritesOwn
<1> QED BY <1>1, <1>2, LogsKept, CommitStep

(* A commit is admitted: its batch is new and the store is as captured.    *)
LEMMA AdmitStep ==
  ASSUME StoreInv, TypeInv', NEW p \in Procs, NEW b \in Batches, Admit(p, b)
  PROVE  StoreInv'
<1>1. /\ TypeOK /\ At(p) /\ pc[p] = "ready" /\ pc[p] \notin Committing /\ outcome[b] = "unissued"
      /\ ToPersist(b) \in Seq(Files) /\ disk.manifest \in Seq(Entries)
  BY StoreAssumption, Parts DEF StoreInv, TypeInv, Admit, Request, Committing, ToPersist, Files
<1>2. owned[p] = <<>> /\ UNCHANGED <<disk, stable, captured, owned>>
  BY <1>1 DEF At, Admit
<1>3. /\ pc'[p] = IF ArtifactsOf[b] = <<>> THEN "append" ELSE "persist"
      /\ current'[p] = b /\ outcome'[b] = "pending"
      /\ \A q \in Procs \ {p} : pc'[q] = pc[q] /\ current'[q] = current[q]
      /\ \A c \in Batches \ {b} : outcome'[c] = outcome[c]
  BY <1>1 DEF Admit, Goto, TypeOK
<1>4. OthersStay(p) /\ GoesOn(p) /\ AnswersStay
  <2>1. ASSUME NEW q \in Procs, current[q] = b PROVE FALSE
    <3>1. outcome[b] = "pending"
      BY <2>1, StoreAssumption DEF StoreInv, At
    <3> QED BY <1>1, <3>1
  <2>2. OthersStay(p)
    BY <1>2, <1>3, <2>1 DEF OthersStay, Quiet
  <2> QED BY <1>1, <1>2, <1>3, <2>2 DEF GoesOn, AnswersStay
<1>5. Unwritten(b)
  BY <1>1 DEF StoreInv, OutcomesAreDurable, Unwritten
<1>6. disk.manifest = captured[p]
  BY DEF Admit, Admissible, StoreMatches, Describes
<1>7. ArtifactsOf[b] = <<>> => ToSet(ArtifactsOf[b]) = {}
  BY DEF ToSet
<1>8. At(p)'
  <2>1. Unwritten(current[p])'
    BY <1>2, <1>3, <1>5 DEF Unwritten
  <2>2. Created(p)'
    BY <1>1, <1>2, <1>3 DEF Created
  <2>3. pc'[p] = "append" => Recorded(p)'
    BY <1>2, <1>3, <1>7 DEF Recorded
  <2>4. Begins(captured'[p], disk'.manifest)
    BY <1>1, <1>2, <1>6, BeginsItself
  <2> QED BY <1>2, <1>3, <2>1, <2>2, <2>3, <2>4 DEF At, Committing, Appended
<1> QED BY <1>2, <1>4, <1>8, StillStep

(* A commit is refused: its batch is new, and nothing else changes.        *)
LEMMA RefuseStep ==
  ASSUME StoreInv, TypeInv', NEW p \in Procs, NEW b \in Batches, Refuse(p, b)
  PROVE  StoreInv'
<1>1. UNCHANGED <<disk, stable, pc, captured, current, owned>> /\ outcome[b] = "unissued"
  BY DEF Refuse, Request
<1>2. \A c \in Batches : outcome'[c] = IF c = b THEN "NOT_COMMITTED" ELSE outcome[c]
  BY DEF Refuse, StoreInv, TypeInv, TypeOK
<1>3. Unwritten(b)
  BY <1>1 DEF StoreInv, OutcomesAreDurable, Unwritten
<1>4. AnswersStay /\ QuietDirectory
  BY <1>1, <1>2, <1>3 DEF AnswersStay, QuietDirectory
<1>5. ASSUME NEW q \in Procs PROVE Quiet(q)
  <2>1. ASSUME current[q] \in Batches PROVE outcome[current[q]] = "pending"
    BY <2>1, StoreAssumption DEF StoreInv, At
  <2> QED BY <1>1, <1>2, <2>1 DEF Quiet
<1> QED BY <1>4, <1>5, OutsideStep

(* One more file is created: nothing in the ledger can name it.            *)
LEMMA PersistCreateStep ==
  ASSUME StoreInv, TypeInv', NEW p \in Procs, PersistCreate(p) \/ PersistCreateFails(p)
  PROVE  StoreInv'
<1>1. /\ pc[p] = "persist" /\ TypeOK /\ NextFile(p) \in Files /\ Len(owned[p]) < Len(ToPersist(current[p]))
      /\ pc[p] \in Committing /\ pc[p] \in BeforeAppend
  BY NextFileType DEF StoreInv, TypeInv, PersistCreate, PersistCreateFails, Creating, Committing, BeforeAppend
<1>0. PICK f \in Files : f = NextFile(p)
  BY <1>1
<1>2. At(p) /\ Created(p) /\ Unwritten(current[p]) /\ ToPersist(current[p]) \in Seq(Files)
  BY <1>1, Committer DEF At
<1>3. UNCHANGED <<stable, current, outcome, captured>>
  BY DEF PersistCreate, PersistCreateFails, commitVars
<1>4. disk' = disk \/ (disk.files[f] = "absent" /\ disk' = [disk EXCEPT !.files[f] = "partial"])
  BY <1>0 DEF PersistCreate, PersistCreateFails
<1>5. disk \in Directory
  BY <1>1, Parts
<1>6. /\ disk'.ledger = disk.ledger /\ disk'.manifest = disk.manifest
      /\ \A g \in Files : /\ g # f => disk'.files[g] = disk.files[g]
                          /\ disk'.files[g] = disk.files[g] \/ disk'.files[g] = "partial"
  <2>1. CASE disk' = disk
    BY <2>1
  <2>2. CASE disk' = [disk EXCEPT !.files[f] = "partial"]
    <3>1. /\ disk'.ledger = disk.ledger /\ disk'.manifest = disk.manifest
          /\ \A g \in Files : disk'.files[g] = IF g = f THEN "partial" ELSE disk.files[g]
      BY <1>5, <2>2, FileParts
    <3> QED BY <3>1
  <2> QED BY <1>4, <2>1, <2>2
<1>7. LogsStay /\ Unwritten(current[p])' /\ ArtifactsIn(disk.ledger)' = ArtifactsIn(disk.ledger)
  BY <1>2, <1>3, <1>6 DEF LogsStay, Unwritten, ArtifactsIn
<1>8. disk.files[f] = "absent" => f \notin ArtifactsIn(disk.ledger)
  BY DEF StoreInv, FilesInv
<1>9. Begins(captured'[p], disk'.manifest) /\ outcome'[current'[p]] = "pending"
  BY <1>1, <1>3, <1>6, Committer
<1>10. ASSUME NEW i \in 1 .. Len(owned[p])
       PROVE  /\ owned[p][i] \in Files /\ Owns(p, owned[p][i]) /\ disk.files[owned[p][i]] # "absent"
              /\ disk'.files[owned[p][i]] # "absent"
              /\ disk'.files[owned[p][i]] = "whole" => stable'.files[owned[p][i]] = "whole"
  <2>1. owned[p][i] \in Files
    BY <1>1 DEF TypeOK
  <2> QED BY <1>2, <1>3, <1>6, <2>1 DEF Created, Owns
<1>11. OthersStay(p) /\ At(p)' /\ AnswersStay /\ GoesOn(p)
  <2>1. CASE PersistCreateFails(p)
    <3>0. Goto(p, "cleanup") /\ UNCHANGED <<current, outcome, captured, owned>>
      BY <2>1 DEF PersistCreateFails, commitVars
    <3>1. pc'[p] = "cleanup" /\ OthersStay(p) /\ AnswersStay /\ owned' = owned /\ GoesOn(p)
      BY <1>1, <3>0, GotoStays
    <3>2. Created(p)'
      BY <1>2, <1>3, <1>7, <1>10, <3>1 DEF Created, ToPersist
    <3> QED BY <1>7, <1>9, <3>1, <3>2 DEF At, BeforeAppend, Appended, Committing
  <2>2. CASE PersistCreate(p)
    <3>1. /\ pc' = pc /\ owned'[p] = Append(owned[p], f)
          /\ \A q \in Procs \ {p} : owned'[q] = owned[q]
          /\ disk.files[f] = "absent"
      BY <1>0, <1>1, <2>2 DEF PersistCreate, TypeOK
    <3>2. f \notin ArtifactsIn(disk.ledger)
      BY <1>8, <3>1
    <3>3. /\ owned[p] \in Seq(Files) /\ Len(owned'[p]) = Len(owned[p]) + 1
          /\ \A i \in 1 .. Len(owned[p]) : owned'[p][i] = owned[p][i]
          /\ owned'[p][Len(owned[p]) + 1] = f
      BY <1>1, <3>1 DEF TypeOK
    <3>4. f = ToPersist(current[p])[Len(owned[p]) + 1]
      BY <1>0 DEF NextFile
    <3>5. disk'.files[f] = "partial"
      <4>1. disk' = [disk EXCEPT !.files[f] = "partial"]
        BY <1>0, <2>2 DEF PersistCreate
      <4>2. \A g \in Files : disk'.files[g] = IF g = f THEN "partial" ELSE disk.files[g]
        BY <1>5, <4>1, FileParts
      <4> QED BY <4>2
    <3>6. Created(p)'
      <4>1. Len(owned'[p]) <= Len(ToPersist(current[p]))
        BY <1>1, <1>2, <3>3
      <4>2. ASSUME NEW i \in 1 .. Len(owned'[p])
            PROVE  /\ owned'[p][i] = ToPersist(current[p])[i]
                   /\ disk'.files[owned'[p][i]] # "absent"
                   /\ disk'.files[owned'[p][i]] = "whole" => stable'.files[owned'[p][i]] = "whole"
                   /\ owned'[p][i] \notin ArtifactsIn(disk.ledger)
        <5>1. CASE i = Len(owned[p]) + 1
          BY <3>2, <3>3, <3>4, <3>5, <5>1
        <5>2. CASE i \in 1 .. Len(owned[p])
          BY <1>2, <1>10, <3>3, <5>2 DEF Created
        <5> QED BY <3>3, <5>1, <5>2
      <4>3. ASSUME NEW i \in 1 .. Len(owned'[p]), NEW j \in 1 .. Len(owned'[p]), owned'[p][i] = owned'[p][j]
            PROVE  i = j
        <5>1. ASSUME NEW k \in 1 .. Len(owned[p]) PROVE owned'[p][k] # f
          BY <1>10, <3>1, <3>3, <5>1
        <5>2. CASE i \in 1 .. Len(owned[p]) /\ j \in 1 .. Len(owned[p])
          BY <1>2, <3>3, <4>3, <5>2 DEF Created
        <5>3. i = Len(owned[p]) + 1 \/ i \in 1 .. Len(owned[p])
          BY <3>3
        <5>4. j = Len(owned[p]) + 1 \/ j \in 1 .. Len(owned[p])
          BY <3>3
        <5> QED BY <3>3, <4>3, <5>1, <5>2, <5>3, <5>4
      <4> QED BY <1>3, <1>7, <4>1, <4>2, <4>3 DEF Created, ToPersist
    <3>7. At(p)'
      BY <1>1, <1>7, <1>9, <3>1, <3>6 DEF At, BeforeAppend, Appended, Committing
    <3>8. GoesOn(p)
      <4>1. ASSUME NEW i \in 1 .. Len(owned'[p])
            PROVE  disk.files[owned'[p][i]] = "absent" \/ Owns(p, owned'[p][i])
        <5>1. CASE i = Len(owned[p]) + 1
          BY <3>1, <3>3, <5>1
        <5>2. CASE i \in 1 .. Len(owned[p])
          BY <1>10, <3>3, <5>2
        <5> QED BY <3>3, <5>1, <5>2
      <4> QED BY <1>1, <1>3, <3>1, <4>1 DEF GoesOn
    <3> QED BY <1>3, <3>1, <3>7, <3>8 DEF OthersStay, Quiet, AnswersStay
  <2> QED BY <2>1, <2>2
<1>12. CASE disk' = disk
  BY <1>3, <1>11, <1>12, StillStep
<1>13. CASE disk' # disk
  <2>1. disk.files[f] = "absent" /\ f \notin ArtifactsIn(disk.ledger)
    BY <1>4, <1>8, <1>13
  <2> QED BY <1>3, <1>6, <1>7, <1>11, <2>1, FileStep
<1> QED BY <1>12, <1>13

(* The file is written and synced.                                         *)
LEMMA PersistWriteStep ==
  ASSUME StoreInv, TypeInv', NEW p \in Procs, PersistWrite(p)
  PROVE  StoreInv'
<1>1. pc[p] = "persist" /\ TypeOK /\ owned[p] # <<>> /\ pc[p] \in Committing /\ pc[p] \in BeforeAppend
  BY DEF StoreInv, TypeInv, PersistWrite, OwnedIsWhole, Committing, BeforeAppend
<1>2. At(p) /\ Created(p) /\ Unwritten(current[p]) /\ owned[p] \in Seq(Files)
  BY <1>1, Committer DEF At
<1>3. PICK f \in Files : f = Last(owned[p])
  BY <1>1, LastOwnedType
<1>4. /\ UNCHANGED <<pc, captured, current, owned, outcome>>
      /\ disk' = [disk EXCEPT !.files[f] = "whole"] /\ stable' = [stable EXCEPT !.files[f] = "whole"]
  BY <1>3 DEF PersistWrite, commitVars
<1>5. disk \in Directory /\ stable \in Directory
  BY <1>1, Parts
<1>6. LogsStay /\ \A g \in Files : /\ disk'.files[g] = IF g = f THEN "whole" ELSE disk.files[g]
                                   /\ stable'.files[g] = IF g = f THEN "whole" ELSE stable.files[g]
  <2>1. ASSUME NEW dir \in {disk, stable}, NEW new, new = [dir EXCEPT !.files[f] = "whole"]
        PROVE  /\ new.ledger = dir.ledger /\ new.manifest = dir.manifest
               /\ \A g \in Files : new.files[g] = IF g = f THEN "whole" ELSE dir.files[g]
    BY <1>5, <2>1, FileParts
  <2>2. /\ disk'.ledger = disk.ledger /\ disk'.manifest = disk.manifest
        /\ \A g \in Files : disk'.files[g] = IF g = f THEN "whole" ELSE disk.files[g]
    BY <1>4, <2>1
  <2>3. /\ stable'.ledger = stable.ledger /\ stable'.manifest = stable.manifest
        /\ \A g \in Files : stable'.files[g] = IF g = f THEN "whole" ELSE stable.files[g]
    BY <1>4, <2>1
  <2> QED BY <2>2, <2>3 DEF LogsStay
<1>7. Owns(p, f) /\ f \notin ArtifactsIn(disk.ledger)
  <2>1. Len(owned[p]) \in 1 .. Len(owned[p]) /\ f = owned[p][Len(owned[p])]
    BY <1>1, <1>2, <1>3 DEF Last
  <2> QED BY <1>2, <2>1 DEF Owns, Created
<1>8. OthersStay(p) /\ AnswersStay /\ GoesOn(p)
  BY <1>1, <1>4 DEF OthersStay, Quiet, AnswersStay, GoesOn, Owns
<1>9. At(p)'
  <2>1. Unwritten(current[p])' /\ ArtifactsIn(disk.ledger)' = ArtifactsIn(disk.ledger)
    BY <1>2, <1>4, <1>6 DEF LogsStay, Unwritten, ArtifactsIn
  <2>2. Created(p)'
    BY <1>2, <1>4, <1>6, <2>1 DEF Created, ToPersist
  <2>3. Begins(captured'[p], disk'.manifest) /\ outcome'[current'[p]] = "pending"
    BY <1>1, <1>4, <1>6, Committer DEF LogsStay
  <2> QED BY <1>1, <1>4, <2>1, <2>2, <2>3 DEF At, BeforeAppend, Appended, Committing
<1> QED BY <1>1, <1>6, <1>7, <1>8, <1>9, FileStep

(* What is created is verified again, or given up.                         *)
LEMMA RevalidateStep ==
  ASSUME StoreInv, TypeInv', NEW p \in Procs,
         PersistWriteFails(p) \/ Revalidate(p) \/ RevalidateFails(p)
  PROVE  StoreInv'
<1>1. /\ pc[p] = "persist" /\ TypeOK /\ pc[p] \in Committing /\ pc[p] \in BeforeAppend
      /\ UNCHANGED <<disk, stable, captured, current, owned, outcome>>
  BY DEF StoreInv, TypeInv, PersistWriteFails, Revalidate, RevalidateFails, Committing, commitVars, BeforeAppend
<1>2. At(p) /\ current[p] \in Batches /\ Created(p) /\ Unwritten(current[p]) /\ owned[p] \in Seq(Files)
  BY <1>1, Committer DEF At
<1>3. PICK place \in {"append", "cleanup"} : Goto(p, place) /\ (place = "append" => Revalidate(p))
  BY DEF PersistWriteFails, Revalidate, RevalidateFails
<1>4. pc'[p] = place /\ OthersStay(p) /\ AnswersStay /\ GoesOn(p)
  BY <1>1, <1>3, GotoStays
<1>5. Created(p)' /\ Unwritten(current[p])'
  BY <1>1, <1>2 DEF Unwritten, ArtifactsIn, Created, ToPersist
<1>6. place = "append" => Recorded(p)
  <2>1. SUFFICES ASSUME Revalidate(p) PROVE Recorded(p)
    BY <1>3
  <2>2. Len(owned[p]) = Len(ToPersist(current[p])) /\ OwnedIsWhole(p)
    BY <2>1 DEF Revalidate, AllPersisted
  <2>3. ArtifactsOf[current[p]] \in Seq(Artifacts)
    BY <1>2, StoreAssumption
  <2>4. ASSUME NEW i \in DOMAIN ArtifactsOf[current[p]]
        PROVE  LET f == ArtifactsOf[current[p]][i] IN Owns(p, f) /\ disk.files[f] = "whole" /\ stable.files[f] = "whole"
    <3>1. /\ i \in 1 .. Len(owned[p]) /\ DOMAIN owned[p] = 1 .. Len(owned[p])
          /\ ToPersist(current[p])[i] = ArtifactsOf[current[p]][i]
      BY <1>2, <2>2, <2>3 DEF ToPersist
    <3>2. owned[p][i] = ArtifactsOf[current[p]][i]
      BY <1>2, <3>1 DEF Created
    <3>3. disk.files[owned[p][i]] = "whole"
      BY <2>2, <3>1 DEF OwnedIsWhole
    <3> QED BY <1>2, <3>1, <3>2, <3>3 DEF Created, Owns
  <2> QED BY <2>4 DEF Recorded, ToSet
<1>7. place = "append" => Recorded(p)'
  BY <1>1, <1>6 DEF Recorded, Owns
<1>8. At(p)'
  <2>1. Begins(captured'[p], disk'.manifest) /\ outcome'[current'[p]] = "pending"
    BY <1>1, Committer
  <2> QED BY <1>4, <1>5, <1>7, <2>1 DEF At, BeforeAppend, Appended, Committing
<1> QED BY <1>1, <1>4, <1>8, StillStep

(* The cleanup removes files of its own commit.                            *)
LEMMA CleanupStep ==
  ASSUME StoreInv, TypeInv', NEW p \in Procs, CleanupFile(p) \/ CleanupFileFails(p)
  PROVE  StoreInv'
<1>1. /\ pc[p] \in {"cleanup", "dirty"} /\ TypeOK /\ owned[p] # <<>> /\ pc[p] \in Committing /\ pc[p] \in BeforeAppend
      /\ UNCHANGED <<captured, current, outcome>>
  BY DEF StoreInv, TypeInv, CleanupFile, CleanupFileFails, Committing, BeforeAppend
<1>2. At(p) /\ Created(p) /\ Unwritten(current[p]) /\ ToPersist(current[p]) \in Seq(Files)
  BY <1>1, Committer DEF At
<1>3. PICK f \in Files : f = Last(owned[p])
  BY <1>1, LastOwnedType
<1>4. /\ disk' = disk \/ disk' = [disk EXCEPT !.files[f] = "absent"]
      /\ stable' = stable \/ stable' = [stable EXCEPT !.files[f] = "absent"]
  BY <1>3 DEF CleanupFile, CleanupFileFails
<1>5. disk \in Directory /\ stable \in Directory
  BY <1>1, Parts
<1>6. LogsStay /\ \A g \in Files \ {f} : disk'.files[g] = disk.files[g] /\ stable'.files[g] = stable.files[g]
  <2>1. ASSUME NEW dir \in {disk, stable}, NEW new, new = dir \/ new = [dir EXCEPT !.files[f] = "absent"]
        PROVE  /\ new.ledger = dir.ledger /\ new.manifest = dir.manifest
               /\ \A g \in Files \ {f} : new.files[g] = dir.files[g]
    <3>1. CASE new = dir
      BY <3>1
    <3>2. CASE new = [dir EXCEPT !.files[f] = "absent"]
      <4>1. /\ new.ledger = dir.ledger /\ new.manifest = dir.manifest
            /\ \A g \in Files : new.files[g] = IF g = f THEN "absent" ELSE dir.files[g]
        BY <1>5, <3>2, FileParts
      <4> QED BY <4>1
    <3> QED BY <2>1, <3>1, <3>2
  <2> QED BY <1>4, <2>1 DEF LogsStay
<1>7. Len(owned[p]) \in 1 .. Len(owned[p]) /\ f = owned[p][Len(owned[p])] /\ owned[p] \in Seq(Files)
  BY <1>1, <1>3 DEF TypeOK, Last
<1>8. Owns(p, f) /\ f \notin ArtifactsIn(disk.ledger)
  BY <1>2, <1>7 DEF Owns, Created
<1>9. /\ pc'[p] \in {"cleanup", "dirty"} /\ owned'[p] = Front(owned[p])
      /\ \A q \in Procs \ {p} : pc'[q] = pc[q] /\ owned'[q] = owned[q]
  BY <1>1 DEF CleanupFile, CleanupFileFails, Goto, TypeOK
<1>10. /\ Len(owned'[p]) = Len(owned[p]) - 1 /\ Len(owned[p]) \in Nat \ {0}
       /\ \A i \in 1 .. Len(owned'[p]) : owned'[p][i] = owned[p][i]
  <2>1. owned[p] \in Seq(Files) /\ Len(owned[p]) \in Nat \ {0}
    BY <1>1, <1>7
  <2> QED BY <1>9, <2>1 DEF Front
<1>11. OthersStay(p) /\ AnswersStay /\ GoesOn(p)
  <2>1. OthersStay(p) /\ AnswersStay
    BY <1>1, <1>9 DEF OthersStay, Quiet, AnswersStay
  <2>2. \A i \in 1 .. Len(owned'[p]) : Owns(p, owned'[p][i])
    BY <1>10 DEF Owns
  <2> QED BY <1>1, <2>1, <2>2 DEF GoesOn
<1>12. Unwritten(current[p])' /\ ArtifactsIn(disk.ledger)' = ArtifactsIn(disk.ledger)
  BY <1>1, <1>2, <1>6 DEF LogsStay, Unwritten, ArtifactsIn
<1>13. Created(p)'
  <2>1. ASSUME NEW i \in 1 .. Len(owned'[p])
        PROVE  owned[p][i] \in Files /\ disk'.files[owned[p][i]] = disk.files[owned[p][i]] /\ stable'.files[owned[p][i]] = stable.files[owned[p][i]]
    <3>1. i \in 1 .. Len(owned[p]) /\ i # Len(owned[p])
      BY <1>10
    <3>2. owned[p][i] \in Files /\ owned[p][i] # f
      BY <1>2, <1>7, <3>1 DEF Created
    <3> QED BY <1>6, <3>2
  <2>2. Len(owned'[p]) <= Len(ToPersist(current[p]))
    BY <1>2, <1>10 DEF Created
  <2>3. \A i \in 1 .. Len(owned'[p]) : i \in 1 .. Len(owned[p]) /\ owned'[p][i] = owned[p][i]
    BY <1>10
  <2>4. ASSUME NEW i \in 1 .. Len(owned'[p])
        PROVE  /\ owned'[p][i] = ToPersist(current[p])[i]
               /\ disk'.files[owned'[p][i]] # "absent"
               /\ disk'.files[owned'[p][i]] = "whole" => stable'.files[owned'[p][i]] = "whole"
               /\ owned'[p][i] \notin ArtifactsIn(disk.ledger)
               /\ \A j \in 1 .. Len(owned'[p]) : owned'[p][i] = owned'[p][j] => i = j
    <3>1. i \in 1 .. Len(owned[p]) /\ owned'[p][i] = owned[p][i]
      BY <2>3
    <3>2. /\ disk'.files[owned[p][i]] = disk.files[owned[p][i]] /\ stable'.files[owned[p][i]] = stable.files[owned[p][i]]
      BY <2>1
    <3>3. /\ owned[p][i] = ToPersist(current[p])[i] /\ disk.files[owned[p][i]] # "absent"
          /\ disk.files[owned[p][i]] = "whole" => stable.files[owned[p][i]] = "whole"
          /\ owned[p][i] \notin ArtifactsIn(disk.ledger)
          /\ \A j \in 1 .. Len(owned[p]) : owned[p][i] = owned[p][j] => i = j
      BY <1>2, <3>1 DEF Created
    <3>4. \A j \in 1 .. Len(owned'[p]) : owned'[p][i] = owned'[p][j] => i = j
      BY <2>3, <3>1, <3>3
    <3> QED BY <3>1, <3>2, <3>3, <3>4
  <2> QED BY <1>1, <1>12, <2>2, <2>4 DEF Created, ToPersist
<1>14. At(p)'
  <2>1. Begins(captured'[p], disk'.manifest) /\ outcome'[current'[p]] = "pending"
    BY <1>1, <1>6, Committer DEF LogsStay
  <2> QED BY <1>9, <1>12, <1>13, <2>1 DEF At, BeforeAppend, Appended, Committing
<1> QED BY <1>1, <1>6, <1>8, <1>11, <1>14, FileStep

(* The cleanup is over, or nothing was opened to append to: nothing of the *)
(* batch is anywhere.                                                      *)
LEMMA GiveUpBefore ==
  ASSUME StoreInv, TypeInv', NEW p \in Procs, CleanupEnds(p) \/ AppendOpenFails(p)
  PROVE  StoreInv'
<1>1. /\ pc[p] \in {"cleanup", "dirty", "append"} /\ pc[p] \in Committing /\ pc[p] \in BeforeAppend
      /\ UNCHANGED <<disk, stable, captured>>
  BY DEF CleanupEnds, AppendOpenFails, Committing, BeforeAppend, GiveUp, commitVars
<1>2. At(p) /\ Unwritten(current[p]) /\ Created(p)
  BY <1>1, Committer DEF At
<1>3. CASE \E answer \in {"NOT_COMMITTED", "OUTCOME_UNKNOWN"} : Answer(p, answer)
  BY <1>1, <1>2, <1>3, AnswerStays, StillStep
<1>4. CASE Goto(p, "cleanup") /\ UNCHANGED commitVars
  <2>1. pc'[p] = "cleanup" /\ OthersStay(p) /\ AnswersStay /\ GoesOn(p)
    BY <1>1, <1>4, GotoStays DEF commitVars
  <2>2. Unwritten(current[p])' /\ Created(p)'
    BY <1>1, <1>2, <1>4 DEF Unwritten, ArtifactsIn, commitVars, Created, ToPersist
  <2>3. Begins(captured'[p], disk'.manifest) /\ outcome'[current'[p]] = "pending"
    BY <1>1, <1>4, Committer DEF commitVars
  <2>4. At(p)'
    BY <2>1, <2>2, <2>3 DEF At, BeforeAppend, Appended, Committing
  <2> QED BY <1>1, <2>1, <2>4, StillStep
<1> QED BY <1>3, <1>4 DEF CleanupEnds, AppendOpenFails, GiveUp

-----------------------------------------------------------------------------
(* The append and what follows it                                          *)

(* The tail of the ledger takes the batch, or a torn part of it.           *)
LEMMA LedgerGrows ==
  ASSUME StoreInv, TypeInv', NEW p \in Procs, pc[p] = "append",
         NEW e \in {Torn, current[p]}, disk' = [disk EXCEPT !.ledger = Append(@, e)], stable' = stable,
         OthersStay(p), GoesOn(p), At(p)',
         \A b \in Batches : outcome'[b] \in {outcome[b], "OUTCOME_UNKNOWN"}
  PROVE  StoreInv'
<1>1. pc[p] \in Committing /\ TypeOK
  BY DEF Committing, StoreInv, TypeInv
<1>2. /\ At(p) /\ current[p] \in Batches /\ outcome[current[p]] = "pending" /\ e \in Entries
  BY <1>1, Committer DEF Entries
<1>3. /\ disk \in Directory
      /\ disk.ledger \in Seq(Entries) /\ disk.manifest \in Seq(Entries)
      /\ stable.ledger \in Seq(Entries) /\ stable.manifest \in Seq(Entries)
  BY <1>1, Parts
<1>4. disk'.ledger = Append(disk.ledger, e) /\ disk'.manifest = disk.manifest /\ disk'.files = disk.files
  BY <1>3 DEF Directory
<1>5. ToSet(disk'.ledger) = ToSet(disk.ledger) \cup {e} /\ disk'.ledger \in Seq(Entries)
  BY <1>2, <1>3, <1>4, AppendHolds
<1>6. LogsInv'
  <2>1. LogsInv
    BY DEF StoreInv
  <2>2. Begins(stable.ledger, disk'.ledger)
    BY <1>2, <1>3, <1>4, <2>1, BeginsAppend DEF LogsInv
  <2> QED BY <1>4, <2>1, <2>2 DEF LogsInv
<1>7. OutcomesAreDurable'
  <2>1. ASSUME NEW b \in Batches, NEW dir \in {disk, stable}
        PROVE  /\ outcome[b] = "COMMITTED" => b \in ToSet(dir.ledger) /\ b \in ToSet(dir.manifest)
               /\ outcome[b] \in {"unissued", "NOT_COMMITTED"} =>
                    b \notin ToSet(dir.ledger) /\ b \notin ToSet(dir.manifest)
    BY DEF StoreInv, OutcomesAreDurable
  <2>2. ASSUME NEW b \in Batches, outcome[b] \in {"unissued", "NOT_COMMITTED"}
        PROVE  b # e
    BY <1>2, <2>2, StoreAssumption
  <2>3. ASSUME NEW b \in Batches, NEW new \in {disk', stable'}
        PROVE  /\ outcome'[b] = "COMMITTED" => b \in ToSet(new.ledger) /\ b \in ToSet(new.manifest)
               /\ outcome'[b] \in {"unissued", "NOT_COMMITTED"} =>
                    b \notin ToSet(new.ledger) /\ b \notin ToSet(new.manifest)
    <3>1. CASE outcome'[b] = "OUTCOME_UNKNOWN"
      BY <3>1
    <3>2. CASE outcome'[b] = outcome[b]
      BY <1>4, <1>5, <2>1, <2>2, <3>2
    <3> QED BY <3>1, <3>2
  <2> QED BY <2>3 DEF OutcomesAreDurable
<1>8. FilesInv'
  <2>1. ASSUME NEW f \in ArtifactsIn(disk'.ledger)
        PROVE  disk.files[f] = "whole" /\ stable.files[f] = "whole"
    <3>1. PICK b \in Batches : b \in ToSet(disk'.ledger) /\ f \in ToSet(ArtifactsOf[b])
      BY <1>5, NamesOf
    <3>2. CASE b \in ToSet(disk.ledger)
      <4>1. f \in ArtifactsIn(disk.ledger)
        BY <1>3, <3>1, <3>2, NamesOf
      <4> QED BY <4>1 DEF StoreInv, FilesInv
    <3>3. CASE b = e
      <4>1. b = current[p]
        BY <3>3, StoreAssumption
      <4> QED BY <1>2, <3>1, <4>1 DEF At, Recorded
    <3> QED BY <1>5, <3>1, <3>2, <3>3
  <2>2. ArtifactsIn(disk.ledger)' = ArtifactsIn(disk'.ledger)
    BY DEF ArtifactsIn
  <2> QED BY <1>4, <2>1, <2>2 DEF FilesInv
<1>9. LogsGrow /\ WritesOwn(p)
  <2>1. Begins(disk.manifest, disk.manifest) /\ Begins(stable.ledger, stable.ledger) /\ Begins(stable.manifest, stable.manifest)
    BY <1>3, BeginsItself
  <2> QED BY <1>4, <2>1 DEF LogsGrow, WritesOwn, Kept
<1> QED BY <1>6, <1>7, <1>8, <1>9, CommitStep

(* The append succeeds, or fails with nothing, a part or all written.      *)
LEMMA AppendStep ==
  ASSUME StoreInv, TypeInv', NEW p \in Procs, AppendBatch(p) \/ AppendFails(p)
  PROVE  StoreInv'
<1>1. /\ pc[p] = "append" /\ pc[p] \in Committing /\ TypeOK /\ stable' = stable /\ disk \in Directory
  BY Parts DEF StoreInv, TypeInv, AppendBatch, AppendFails, Committing
<1>2. At(p) /\ outcome[current[p]] = "pending" /\ Unwritten(current[p]) /\ Begins(captured[p], disk.manifest)
  BY <1>1, Committer DEF At, BeforeAppend
<1>3. CASE AppendBatch(p)
  <2>1. /\ disk' = [disk EXCEPT !.ledger = Append(@, current[p])]
        /\ UNCHANGED <<captured, current, owned, outcome>> /\ Goto(p, "sync")
    BY <1>3 DEF AppendBatch, commitVars
  <2>2. pc'[p] = "sync" /\ OthersStay(p) /\ GoesOn(p)
    BY <1>1, <2>1, GotoStays DEF BeforeAppend
  <2>3. disk'.manifest = disk.manifest
    BY <1>1, <2>1 DEF Directory
  <2>4. At(p)'
    BY <1>2, <2>1, <2>2, <2>3 DEF At, BeforeAppend, Appended, Committing, Unwritten
  <2> QED BY <1>1, <2>1, <2>2, <2>4, LedgerGrows
<1>4. CASE AppendFails(p)
  <2>1. /\ Answer(p, "OUTCOME_UNKNOWN") /\ UNCHANGED captured
        /\ disk' = disk \/ \E e \in {Torn, current[p]} : disk' = [disk EXCEPT !.ledger = Append(@, e)]
    BY <1>4 DEF AppendFails, GiveUp
  <2>2. /\ At(p)' /\ OthersStay(p) /\ AnswersStay /\ GoesOn(p)
        /\ \A b \in Batches : outcome'[b] \in {outcome[b], "OUTCOME_UNKNOWN"}
    BY <1>1, <2>1, AnswerAt, AnswerStays
  <2>3. CASE disk' = disk
    BY <1>1, <2>2, <2>3, StillStep
  <2>4. CASE \E e \in {Torn, current[p]} : disk' = [disk EXCEPT !.ledger = Append(@, e)]
    BY <1>1, <2>2, <2>4, LedgerGrows
  <2> QED BY <2>1, <2>3, <2>4
<1> QED BY <1>3, <1>4

(* The ledger is synced; the commit goes on when it reads back as it must. *)
LEMMA SyncLedgerStep ==
  ASSUME StoreInv, TypeInv', NEW p \in Procs, SyncLedger(p)
  PROVE  StoreInv'
<1>1. /\ pc[p] = "sync" /\ pc[p] \in Committing /\ TypeOK /\ disk' = disk
      /\ stable' = [stable EXCEPT !.ledger = disk.ledger] /\ captured' = captured
  BY DEF StoreInv, TypeInv, SyncLedger, Committing, GiveUp, commitVars
<1>2. /\ At(p) /\ outcome[current[p]] = "pending" /\ current[p] \notin ToSet(disk.manifest)
      /\ NextLedger(p) \in Seq(Entries) /\ Begins(captured[p], disk.manifest)
  BY <1>1, Committer DEF At
<1>3. /\ disk.ledger \in Seq(Entries) /\ disk.manifest \in Seq(Entries)
      /\ stable.ledger \in Seq(Entries) /\ stable.manifest \in Seq(Entries) /\ stable \in Directory
  BY <1>1, Parts
<1>4. stable'.ledger = disk.ledger /\ stable'.manifest = stable.manifest /\ stable'.files = stable.files
  BY <1>1, <1>3 DEF Directory
<1>5. LogsInv' /\ LogsGrow
  <2>1. LogsInv
    BY DEF StoreInv
  <2>2. /\ Begins(disk.ledger, disk.ledger) /\ Begins(stable.manifest, stable.manifest) /\ Begins(disk.manifest, disk.manifest)
        /\ Begins(disk.manifest, disk.ledger) /\ Begins(stable.manifest, disk.ledger)
    BY <1>3, <2>1, BeginsItself, BeginsTrans DEF LogsInv
  <2> QED BY <1>1, <1>4, <2>1, <2>2 DEF LogsInv, LogsGrow
<1>6. FilesInv' /\ WritesOwn(p)
  BY <1>1, <1>4, FilesKept DEF Kept, WritesOwn
<1>7. At(p)' /\ OthersStay(p) /\ GoesOn(p) /\ \A b \in Batches : outcome'[b] \in {outcome[b], "OUTCOME_UNKNOWN"}
  <2>1. CASE disk.ledger = NextLedger(p) /\ Goto(p, "publish") /\ UNCHANGED commitVars
    <3>1. pc'[p] = "publish" /\ OthersStay(p) /\ GoesOn(p) /\ UNCHANGED <<captured, current, owned, outcome>>
      BY <1>1, <2>1, GotoStays DEF commitVars, BeforeAppend
    <3>2. NextLedger(p)' = NextLedger(p) /\ Begins(NextLedger(p), NextLedger(p))
      BY <1>2, <3>1, BeginsItself DEF NextLedger
    <3>3. At(p)'
      BY <1>1, <1>2, <1>4, <2>1, <3>1, <3>2 DEF At, BeforeAppend, Appended, Committing
    <3> QED BY <3>1, <3>3
  <2>2. CASE GiveUp(p)
    BY <1>1, <2>2, AnswerAt DEF GiveUp
  <2> QED BY <2>1, <2>2 DEF SyncLedger
<1>8. OutcomesAreDurable'
  <2>1. ASSUME NEW b \in Batches
        PROVE  /\ outcome[b] = "COMMITTED" =>
                    b \in ToSet(disk.ledger) /\ b \in ToSet(disk.manifest) /\ b \in ToSet(stable.manifest)
               /\ outcome[b] \in {"unissued", "NOT_COMMITTED"} =>
                    b \notin ToSet(disk.ledger) /\ b \notin ToSet(disk.manifest) /\ b \notin ToSet(stable.manifest)
    BY DEF StoreInv, OutcomesAreDurable
  <2>2. ASSUME NEW b \in Batches, NEW new \in {disk', stable'}
        PROVE  /\ outcome'[b] = "COMMITTED" => b \in ToSet(new.ledger) /\ b \in ToSet(new.manifest)
               /\ outcome'[b] \in {"unissued", "NOT_COMMITTED"} =>
                    b \notin ToSet(new.ledger) /\ b \notin ToSet(new.manifest)
    <3>1. CASE outcome'[b] = "OUTCOME_UNKNOWN"
      BY <3>1
    <3>2. CASE outcome'[b] = outcome[b]
      BY <1>1, <1>4, <2>1, <3>2
    <3> QED BY <1>7, <3>1, <3>2
  <2> QED BY <2>2 DEF OutcomesAreDurable
<1> QED BY <1>5, <1>6, <1>7, <1>8, CommitStep

(* The temporary manifest is written: no event names it.                   *)
LEMMA WriteTempStep ==
  ASSUME StoreInv, TypeInv', NEW p \in Procs, WriteTemp(p) \/ WriteTempFails(p)
  PROVE  StoreInv'
<1>1. /\ pc[p] = "publish" /\ pc[p] \in Committing /\ TypeOK /\ stable' = stable
  BY DEF StoreInv, TypeInv, WriteTemp, WriteTempFails, Committing
<1>2. At(p) /\ current[p] \in Files /\ current[p] \in Batches
  BY <1>1, Committer
<1>3. PICK c \in {"whole", "partial"} : disk' = [disk EXCEPT !.files[current[p]] = c]
  BY DEF WriteTemp, WriteTempFails
<1>4. disk \in Directory /\ current[p] \notin ArtifactsIn(disk.ledger)
  BY <1>1, <1>2, Parts, Named
<1>5. LogsStay /\ \A g \in Files \ {current[p]} : disk'.files[g] = disk.files[g] /\ stable'.files[g] = stable.files[g]
  <2>1. /\ disk'.ledger = disk.ledger /\ disk'.manifest = disk.manifest
        /\ \A g \in Files : disk'.files[g] = IF g = current[p] THEN c ELSE disk.files[g]
    BY <1>2, <1>3, <1>4, FileParts
  <2> QED BY <1>1, <2>1 DEF LogsStay
<1>6. At(p)' /\ OthersStay(p) /\ AnswersStay /\ GoesOn(p)
  <2>1. CASE WriteTemp(p)
    <3>1. UNCHANGED <<pc, captured, current, owned, outcome>>
      BY <2>1 DEF WriteTemp, commitVars
    <3>2. NextLedger(p)' = NextLedger(p)
      BY <3>1 DEF NextLedger
    <3>3. At(p)'
      BY <1>1, <1>2, <1>5, <3>1, <3>2 DEF At, BeforeAppend, Appended, Committing, LogsStay
    <3>4. GoesOn(p)
      BY <1>1, <3>1 DEF GoesOn, BeforeAppend
    <3> QED BY <3>1, <3>3, <3>4 DEF OthersStay, Quiet, AnswersStay
  <2>2. CASE WriteTempFails(p)
    BY <1>1, <2>2, AnswerStays DEF WriteTempFails, GiveUp
  <2> QED BY <2>1, <2>2
<1> QED BY <1>1, <1>4, <1>5, <1>6, FileStep

(* Whoever is about to rename its manifest over the old one replaces the   *)
(* one it captured: another commit cannot have published between, because  *)
(* the ledger that is synced has this batch right behind the capture.      *)
LEMMA PublishedWasCaptured ==
  ASSUME StoreInv, NEW p \in Procs, pc[p] = "publish"
  PROVE  disk.manifest = captured[p]
<1>1. /\ current[p] \notin ToSet(disk.manifest) /\ Begins(NextLedger(p), stable.ledger)
      /\ Begins(captured[p], disk.manifest) /\ current[p] \in Entries /\ captured[p] \in Seq(Entries)
  BY Committer DEF At, Committing, Appended, Entries
<1>2. Begins(disk.manifest, stable.ledger) /\ disk.manifest \in Seq(Entries) /\ stable.ledger \in Seq(Entries)
  BY Parts DEF StoreInv, TypeInv, LogsInv
<1>3. /\ Len(NextLedger(p)) = Len(captured[p]) + 1 /\ NextLedger(p)[Len(captured[p]) + 1] = current[p]
  BY <1>1 DEF NextLedger
<1>4. stable.ledger[Len(captured[p]) + 1] = current[p]
  BY <1>1, <1>3 DEF Begins
<1>5. Len(disk.manifest) = Len(captured[p])
  <2>1. SUFFICES ASSUME Len(disk.manifest) >= Len(captured[p]) + 1 PROVE FALSE
    BY <1>1, <1>2 DEF Begins
  <2>2. disk.manifest[Len(captured[p]) + 1] = current[p] /\ Len(captured[p]) + 1 \in 1 .. Len(disk.manifest)
    BY <1>1, <1>2, <1>4, <2>1 DEF Begins
  <2> QED BY <1>1, <1>2, <2>2 DEF ToSet
<1> QED BY <1>1, <1>2, <1>5 DEF Begins

(* The manifest is replaced by one that describes the synced ledger.       *)
LEMMA PublishStep ==
  ASSUME StoreInv, TypeInv', NEW p \in Procs, Publish(p)
  PROVE  StoreInv'
<1>1. /\ pc[p] = "publish" /\ pc[p] \in Committing /\ TypeOK
      /\ UNCHANGED <<stable, captured, current, owned, outcome>> /\ Goto(p, "rootsync")
      /\ disk' = [disk EXCEPT !.manifest = NextLedger(p), !.files[current[p]] = "absent"]
  BY DEF StoreInv, TypeInv, Publish, Committing, commitVars
<1>2. /\ At(p) /\ current[p] \in Files /\ current[p] \in Batches /\ outcome[current[p]] = "pending"
      /\ NextLedger(p) \in Seq(Entries) /\ captured[p] \in Seq(Entries) /\ Begins(NextLedger(p), stable.ledger)
  BY <1>1, Committer DEF At, Appended
<1>3. /\ disk \in Directory /\ disk.ledger \in Seq(Entries) /\ disk.manifest \in Seq(Entries)
      /\ stable.ledger \in Seq(Entries) /\ stable.manifest \in Seq(Entries) /\ disk.manifest = captured[p]
      /\ current[p] \notin ArtifactsIn(disk.ledger)
  BY <1>1, <1>2, Parts, Named, PublishedWasCaptured
<1>4. /\ disk'.ledger = disk.ledger /\ disk'.manifest = NextLedger(p)
      /\ \A g \in Files : disk'.files[g] = IF g = current[p] THEN "absent" ELSE disk.files[g]
  BY <1>1, <1>2, <1>3 DEF Directory
<1>5. /\ ToSet(NextLedger(p)) = ToSet(captured[p]) \cup {current[p]}
      /\ Begins(captured[p], captured[p]) /\ Begins(captured[p], NextLedger(p))
      /\ Begins(NextLedger(p), NextLedger(p)) /\ Torn # current[p]
  <2>1. current[p] \in Entries /\ current[p] # Torn
    BY <1>2, StoreAssumption DEF Entries
  <2>2. Begins(captured[p], captured[p]) /\ Begins(NextLedger(p), NextLedger(p))
    BY <1>2, BeginsItself
  <2> QED BY <1>2, <2>1, <2>2, AppendHolds, BeginsAppend DEF NextLedger
<1>6. LogsInv' /\ LogsGrow
  <2>1. LogsInv
    BY DEF StoreInv
  <2>2. Begins(stable.manifest, NextLedger(p)) /\ Torn \notin ToSet(NextLedger(p))
    BY <1>2, <1>3, <1>5, <2>1, BeginsTrans DEF LogsInv
  <2>3. Begins(stable.ledger, stable.ledger) /\ Begins(stable.manifest, stable.manifest)
    BY <1>3, BeginsItself
  <2> QED BY <1>1, <1>2, <1>3, <1>4, <1>5, <2>1, <2>2, <2>3 DEF LogsInv, LogsGrow
<1>7. OutcomesAreDurable'
  <2>1. ASSUME NEW b \in Batches
        PROVE  /\ outcome[b] = "COMMITTED" => /\ b \in ToSet(disk.ledger) /\ b \in ToSet(disk.manifest)
                                              /\ b \in ToSet(stable.ledger) /\ b \in ToSet(stable.manifest)
               /\ outcome[b] \in {"unissued", "NOT_COMMITTED"} =>
                    /\ b \notin ToSet(disk.ledger) /\ b \notin ToSet(disk.manifest) /\ b # current[p]
                    /\ b \notin ToSet(stable.ledger) /\ b \notin ToSet(stable.manifest)
    BY <1>2 DEF StoreInv, OutcomesAreDurable
  <2>2. ASSUME NEW b \in Batches, NEW new \in {disk', stable'}
        PROVE  /\ outcome'[b] = "COMMITTED" => b \in ToSet(new.ledger) /\ b \in ToSet(new.manifest)
               /\ outcome'[b] \in {"unissued", "NOT_COMMITTED"} =>
                    b \notin ToSet(new.ledger) /\ b \notin ToSet(new.manifest)
    BY <1>1, <1>3, <1>4, <1>5, <2>1
  <2> QED BY <2>2 DEF OutcomesAreDurable
<1>8. \A g \in Files \ {current[p]} : Kept(g)
  BY <1>1, <1>4 DEF Kept
<1>9. FilesInv' /\ WritesOwn(p)
  <2>1. FilesInv'
    BY <1>1, <1>3, <1>4, <1>8, FilesKept, Named
  <2>2. WritesOwn(p)
    BY <1>1, <1>3, <1>4, <1>5, <1>8 DEF WritesOwn
  <2> QED BY <2>1, <2>2
<1>10. pc'[p] = "rootsync" /\ OthersStay(p) /\ GoesOn(p)
  BY <1>1, GotoStays DEF BeforeAppend
<1>11. NextLedger(p)' = NextLedger(p)
  BY <1>1 DEF NextLedger
<1>12. At(p)'
  BY <1>1, <1>2, <1>4, <1>5, <1>10, <1>11 DEF At, BeforeAppend, Appended, Committing
<1> QED BY <1>6, <1>7, <1>9, <1>10, <1>12, CommitStep

(* A step that only syncs the directory, or nothing.                       *)
LEMMA QuietStep ==
  ASSUME StoreInv, TypeInv', NEW p \in Procs, QuietDirectory, OthersStay(p), GoesOn(p), AnswersStay, At(p)'
  PROVE  StoreInv'
<1>1. WritesOwn(p)
  BY QuietParts DEF QuietDirectory, WritesOwn
<1> QED BY <1>1, QuietLogs, CommitStep

(* The run directory is synced, and with it the manifest.                  *)
LEMMA SyncRootStep ==
  ASSUME StoreInv, TypeInv', NEW p \in Procs, SyncRoot(p)
  PROVE  StoreInv'
<1>1. /\ pc[p] = "rootsync" /\ pc[p] \in Committing /\ TypeOK
      /\ UNCHANGED <<disk, captured, current, owned, outcome>> /\ Goto(p, "confirm")
      /\ stable' = RootSynced
  BY DEF StoreInv, TypeInv, SyncRoot, Committing, commitVars
<1>2. /\ At(p) /\ outcome[current[p]] = "pending" /\ Begins(captured[p], disk.manifest)
      /\ Begins(NextLedger(p), stable.ledger) /\ Begins(NextLedger(p), disk.manifest)
  BY <1>1, Committer DEF At, Appended
<1>3. stable'.ledger = stable.ledger /\ stable'.manifest = disk.manifest
  BY <1>1, RootSyncedParts
<1>4. pc'[p] = "confirm" /\ OthersStay(p) /\ AnswersStay /\ GoesOn(p)
  BY <1>1, GotoStays DEF BeforeAppend
<1>5. QuietDirectory
  BY <1>1, <1>3 DEF QuietDirectory
<1>6. NextLedger(p)' = NextLedger(p)
  BY <1>1 DEF NextLedger
<1>7. At(p)'
  BY <1>1, <1>2, <1>3, <1>4, <1>6 DEF At, BeforeAppend, Appended, Committing
<1> QED BY <1>4, <1>5, <1>7, QuietStep

(* The commit is confirmed: the batch is in all that a power loss keeps.   *)
LEMMA ConfirmStep ==
  ASSUME StoreInv, TypeInv', NEW p \in Procs, Confirm(p)
  PROVE  StoreInv'
<1>1. /\ pc[p] = "confirm" /\ pc[p] \in Committing /\ TypeOK
      /\ UNCHANGED <<disk, stable>> /\ Answer(p, "COMMITTED")
      /\ \A q \in Procs \ {p} : captured'[q] = captured[q]
  BY DEF StoreInv, TypeInv, TypeOK, Confirm, Committing
<1>2. /\ At(p) /\ current[p] \in Batches /\ captured[p] \in Seq(Entries) /\ NextLedger(p) \in Seq(Entries)
      /\ Begins(NextLedger(p), stable.ledger) /\ Begins(NextLedger(p), disk.manifest) /\ Begins(NextLedger(p), stable.manifest)
  BY <1>1, Committer DEF At, Appended
<1>3. /\ At(p)' /\ OthersStay(p) /\ GoesOn(p)
      /\ \A b \in Batches : outcome'[b] = IF b = current[p] THEN "COMMITTED" ELSE outcome[b]
  BY <1>1, AnswerAt
<1>4. /\ current[p] \in ToSet(disk.ledger) /\ current[p] \in ToSet(stable.ledger)
      /\ current[p] \in ToSet(disk.manifest) /\ current[p] \in ToSet(stable.manifest)
  <2>1. current[p] \in ToSet(NextLedger(p))
    BY <1>2, AppendHolds DEF NextLedger, Entries
  <2>2. /\ disk.ledger \in Seq(Entries) /\ disk.manifest \in Seq(Entries) /\ stable.ledger \in Seq(Entries)
        /\ stable.manifest \in Seq(Entries) /\ Begins(stable.ledger, disk.ledger)
    BY <1>1, Parts DEF StoreInv, LogsInv
  <2> QED BY <1>2, <2>1, <2>2, BeginsHolds
<1>5. OutcomesAreDurable'
  <2>1. ASSUME NEW b \in Batches, NEW dir \in {disk, stable}
        PROVE  /\ outcome'[b] = "COMMITTED" => b \in ToSet(dir.ledger) /\ b \in ToSet(dir.manifest)
               /\ outcome'[b] \in {"unissued", "NOT_COMMITTED"} =>
                    b \notin ToSet(dir.ledger) /\ b \notin ToSet(dir.manifest)
    <3>1. CASE b = current[p]
      BY <1>3, <1>4, <3>1
    <3>2. CASE b # current[p]
      BY <1>3, <3>2 DEF StoreInv, OutcomesAreDurable
    <3> QED BY <3>1, <3>2
  <2> QED BY <1>1, <2>1 DEF OutcomesAreDurable
<1>6. LogsInv' /\ FilesInv' /\ LogsGrow /\ WritesOwn(p)
  <2>1. LogsInv'
    BY <1>1 DEF StoreInv, LogsInv
  <2>2. FilesInv' /\ WritesOwn(p)
    BY <1>1, FilesKept DEF Kept, WritesOwn
  <2>3. LogsGrow
    BY <1>1, Parts, BeginsItself DEF LogsGrow
  <2> QED BY <2>1, <2>2, <2>3
<1> QED BY <1>3, <1>5, <1>6, CommitStep

(* Anything else after the append is unknown to the caller.                *)
LEMMA GiveUpAfter ==
  ASSUME StoreInv, TypeInv', NEW p \in Procs, Unconfirmed(p) \/ FailsAfterAppend(p)
  PROVE  StoreInv'
<1>1. /\ pc[p] \in Committing /\ UNCHANGED <<disk, stable, captured>> /\ Answer(p, "OUTCOME_UNKNOWN")
  BY DEF Unconfirmed, FailsAfterAppend, GiveUp, Committing
<1> QED BY <1>1, AnswerStays, StillStep

-----------------------------------------------------------------------------
(* Every step keeps the store in order, whoever has the lock.              *)
LEMMA StoreStep ==
  ASSUME StoreInv, [Next]_vars
  PROVE  StoreInv'
<1>1. TypeInv'
  BY TypeStep DEF StoreInv
<1>2. ASSUME NEW p \in Procs, Proceed(p) PROVE StoreInv'
  BY <1>1, <1>2, OutsideSteps, PersistCreateStep, PersistWriteStep, RevalidateStep, CleanupStep, GiveUpBefore,
     AppendStep, SyncLedgerStep, WriteTempStep, PublishStep, SyncRootStep, ConfirmStep, GiveUpAfter DEF Proceed
<1>3. ASSUME NEW p \in Procs, CallFails(p) PROVE StoreInv'
  BY <1>1, <1>3, OutsideSteps, RevalidateStep, CleanupStep, GiveUpBefore, AppendStep, WriteTempStep,
     GiveUpAfter DEF CallFails
<1>4. ASSUME NEW p \in Procs, CallerActs(p) PROVE StoreInv'
  BY <1>1, <1>4, OutsideSteps, AdmitStep, RefuseStep DEF CallerActs
<1>5. ASSUME NEW p \in Procs, Crash(p) PROVE StoreInv'
  BY <1>1, <1>5, CrashStep
<1>6. CASE PowerLoss
  BY <1>1, <1>6, PowerLossStep
<1>7. CASE OperatorRemovesLock \/ UNCHANGED vars
  BY <1>1, <1>7, OutsideSteps
<1> QED BY <1>2, <1>3, <1>4, <1>5, <1>6, <1>7 DEF Next

(* An initialised run directory is in order.                               *)
LEMMA InitStore == Init => StoreInv
<1> SUFFICES ASSUME Init PROVE StoreInv
  OBVIOUS
<1>1. TypeInv
  BY StoreAssumption DEF Init, TypeInv, TypeOK, CommitHasBatch, EmptyDirectory, Directory, Places,
     Sessions, Committing, Outcomes
<1>2. /\ disk.ledger = <<>> /\ disk.manifest = <<>> /\ stable.ledger = <<>> /\ stable.manifest = <<>>
      /\ ToSet(<<>>) = {}
  BY DEF Init, EmptyDirectory, ToSet
<1>3. LogsInv
  BY <1>2 DEF LogsInv, Begins
<1>4. FilesInv
  BY <1>2 DEF FilesInv, ArtifactsIn
<1>5. OutcomesAreDurable
  BY <1>2 DEF OutcomesAreDurable, Init
<1>6. Apart /\ \A p \in Procs : At(p)
  BY DEF Init, Apart, At, Committing, BeforeAppend, Appended
<1> QED BY <1>1, <1>3, <1>4, <1>5, <1>6 DEF StoreInv

(* The inductive invariant behind the theorems.                            *)
LEMMA StoreAlways == Spec => []StoreInv
<1>1. StoreInv /\ [Next]_vars => StoreInv'
  BY StoreStep
<1> QED BY <1>1, InitStore, PTL DEF Spec

(* For all constants, whoever has the lock: what a caller was told         *)
(* COMMITTED survives every crash and power loss, and what it was told     *)
(* NOT_COMMITTED left no byte (the commit functions, l.1417-1420 and       *)
(* l.1941-1954).                                                           *)
THEOREM OutcomesLast == Spec => []OutcomesAreDurable
<1>1. StoreInv => OutcomesAreDurable
  BY DEF StoreInv
<1> QED BY <1>1, StoreAlways, PTL

(* For all constants: no power loss leaves a manifest ahead of the ledger, *)
(* or a ledger ahead of the files it names (the order of the syncs).       *)
THEOREM OrderOfSyncs == Spec => []SyncedInOrder
<1>1. StoreInv => SyncedInOrder
  <2>1. SUFFICES ASSUME StoreInv PROVE SyncedInOrder
    OBVIOUS
  <2>2. /\ disk.manifest \in Seq(Entries) /\ stable.manifest \in Seq(Entries)
        /\ stable.ledger \in Seq(Entries)
    BY <2>1, Parts DEF StoreInv, TypeInv
  <2>3. IsPrefix(disk.manifest, stable.ledger) /\ IsPrefix(stable.manifest, stable.ledger)
    BY <2>1, <2>2, BeginsHolds DEF StoreInv, LogsInv
  <2> QED BY <2>1, <2>3 DEF SyncedInOrder, StoreInv, FilesInv
<1> QED BY <1>1, StoreAlways, PTL

(* For all constants: the ledger grows only from what the appending        *)
(* The ledger stays, grows by a batch or a part of one, or is cut by a     *)
(* power loss.                                                             *)
LEMMA LedgerStep ==
  ASSUME StoreInv, [Next]_vars
  PROVE  \/ disk'.ledger = disk.ledger
         \/ \E e \in Entries : disk'.ledger = Append(disk.ledger, e)
         \/ disk'.ledger \in LedgerAfterLoss
<1> DEFINE Goal == \/ disk'.ledger = disk.ledger
                   \/ \E e \in Entries : disk'.ledger = Append(disk.ledger, e)
                   \/ disk'.ledger \in LedgerAfterLoss
<1>0. TypeOK /\ disk \in Directory
  BY DEF StoreInv, TypeInv, TypeOK
<1>7. ASSUME NEW f, NEW c PROVE /\ [disk EXCEPT !.files[f] = c].ledger = disk.ledger
                                /\ [disk EXCEPT !.lock = c].ledger = disk.ledger
                                /\ [disk EXCEPT !.ledger = Append(@, c)].ledger = Append(disk.ledger, c)
  BY <1>0 DEF Directory
<1>1. ASSUME NEW p \in Procs,
             \/ CaptureManifest(p) \/ CaptureRefused(p) \/ CaptureLedger(p) \/ Forget(p)
             \/ SyncLock(p) \/ Close(p) \/ SyncUnlink(p) \/ CloseFails(p)
             \/ \E b \in Batches : Admit(p, b) \/ Refuse(p, b)
             \/ Crash(p)
      PROVE  disk' = disk
  BY <1>1 DEF CaptureManifest, CaptureRefused, CaptureLedger, Forget, SyncLock, Close, SyncUnlink,
     CloseFails, Admit, Refuse, Crash
<1>2. ASSUME NEW p \in Procs,
             \/ PersistWriteFails(p) \/ Revalidate(p) \/ RevalidateFails(p) \/ CleanupEnds(p) \/ AppendOpenFails(p)
             \/ SyncLedger(p) \/ SyncRoot(p) \/ Confirm(p) \/ Unconfirmed(p) \/ FailsAfterAppend(p)
      PROVE  disk' = disk
  BY <1>2 DEF PersistWriteFails, Revalidate, RevalidateFails, CleanupEnds, AppendOpenFails, SyncLedger, SyncRoot,
     Confirm, Unconfirmed, FailsAfterAppend
<1>3. ASSUME NEW p \in Procs, CreateLock(p) \/ OpenFails(p) \/ Unlink(p)
      PROVE  disk'.ledger = disk.ledger
  <2>1. disk' = disk \/ \E k : disk' = [disk EXCEPT !.lock = k]
    BY <1>3 DEF CreateLock, OpenFails, Unlink
  <2> QED BY <1>7, <2>1
<1>4. ASSUME NEW p \in Procs,
             \/ PersistCreate(p) \/ PersistWrite(p) \/ PersistCreateFails(p)
             \/ CleanupFile(p) \/ CleanupFileFails(p) \/ WriteTemp(p) \/ WriteTempFails(p)
      PROVE  disk'.ledger = disk.ledger
  <2>1. disk' = disk \/ \E f, c : disk' = [disk EXCEPT !.files[f] = c]
    BY <1>4 DEF PersistCreate, PersistWrite, PersistCreateFails, CleanupFile, CleanupFileFails, WriteTemp, WriteTempFails
  <2>2. ASSUME NEW f, NEW c, disk' = [disk EXCEPT !.files[f] = c] PROVE disk'.ledger = disk.ledger
    BY <1>7, <2>2
  <2> QED BY <2>1, <2>2
<1>5. ASSUME NEW p \in Procs, Publish(p) PROVE disk'.ledger = disk.ledger
  BY <1>0, <1>5 DEF Publish, Directory
<1>6. ASSUME NEW p \in Procs, AppendBatch(p) \/ AppendFails(p)
      PROVE  disk'.ledger = disk.ledger \/ \E e \in Entries : disk'.ledger = Append(disk.ledger, e)
  <2>1. pc[p] \in Committing
    BY <1>6 DEF AppendBatch, AppendFails, Committing
  <2>2. current[p] \in Entries /\ Torn \in Entries
    BY <2>1, Committer DEF Entries
  <2>3. disk' = disk \/ \E e \in Entries : disk' = [disk EXCEPT !.ledger = Append(@, e)]
    BY <1>6, <2>2 DEF AppendBatch, AppendFails
  <2> QED BY <1>7, <2>3
<1>8. PowerLoss => disk'.ledger \in LedgerAfterLoss
  BY DEF PowerLoss
<1>9. UNCHANGED vars => disk' = disk
  BY DEF vars
<1>10. ASSUME NEW p \in Procs, Proceed(p) PROVE Goal
  BY <1>1, <1>2, <1>3, <1>4, <1>5, <1>6, <1>10 DEF Proceed
<1>11. ASSUME NEW p \in Procs, CallFails(p) PROVE Goal
  BY <1>1, <1>2, <1>3, <1>4, <1>6, <1>11 DEF CallFails
<1>12. ASSUME NEW p \in Procs, CallerActs(p) \/ Crash(p) PROVE Goal
  BY <1>1, <1>3, <1>12 DEF CallerActs
<1>13. CASE OperatorRemovesLock
  BY <1>7, <1>13 DEF OperatorRemovesLock
<1> QED BY <1>8, <1>9, <1>10, <1>11, <1>12, <1>13 DEF Next

(* For all constants: no step removes or damages a file that an event in   *)
(* the manifest names (cleanupInvocationOwnedFiles).                       *)
THEOREM NamedFilesRemain == Spec => NamedFilesStay
<1>1. StoreInv /\ StoreInv' /\ [Next]_vars => [\A f \in ArtifactsIn(disk.manifest) : disk.files'[f] = "whole"]_vars
  <2> SUFFICES ASSUME StoreInv, StoreInv', [Next]_vars, NEW f \in ArtifactsIn(disk.manifest)
               PROVE  disk'.files[f] = "whole"
    OBVIOUS
  <2>1. disk.manifest \in Seq(Entries) /\ stable.ledger \in Seq(Entries)
    BY Parts DEF StoreInv, TypeInv
  <2>2. disk'.ledger \in Seq(Entries) /\ stable'.ledger \in Seq(Entries)
    BY DEF StoreInv, TypeInv, TypeOK, Directory
  <2>3. /\ Begins(disk.manifest, stable.ledger) /\ Begins(stable.ledger, disk.ledger)
        /\ disk.ledger \in Seq(Entries) /\ TypeOK
    BY Parts DEF StoreInv, TypeInv, LogsInv
  <2>4. Begins(stable.ledger, disk'.ledger)
    BY <2>1, <2>3, LedgerStep, LossKeeps, BeginsAppend
  <2>5. f \in ArtifactsIn(disk'.ledger)
    <3>1. PICK b \in Batches : b \in ToSet(disk.manifest) /\ f \in ToSet(ArtifactsOf[b])
      BY <2>1, NamesOf
    <3>2. ToSet(disk.manifest) \subseteq ToSet(stable.ledger) /\ ToSet(stable.ledger) \subseteq ToSet(disk'.ledger)
      BY <2>1, <2>2, <2>3, <2>4, BeginsHolds
    <3> QED BY <2>2, <3>1, <3>2, NamesOf
  <2>6. ArtifactsIn(disk'.ledger) = ArtifactsIn(disk.ledger)'
    BY DEF ArtifactsIn
  <2> QED BY <2>5, <2>6 DEF StoreInv, FilesInv
<1>2. Spec => []StoreInv
  BY StoreAlways
<1> QED BY <1>1, <1>2, PTL DEF Spec, NamedFilesStay

-----------------------------------------------------------------------------
(* The store implements the log                                            *)

(* The log that the writer of each open batch has seen.                    *)
Bases == [b \in Batches |-> BaseOf(b)]

(* The log's module takes its own copy of the operators on sequences.      *)
LEMMA SameSets == \A s : AbstractLog!ToSet(s) = ToSet(s)
BY DEF ToSet, AbstractLog!ToSet

(* A batch that is being committed has one process, and that its capture.  *)
LEMMA BaseIs ==
  ASSUME NEW cur, NEW cap, NEW b, NEW p \in Procs, cur[p] = b, \A q \in Procs : cur[q] = b => q = p
  PROVE  (IF \E q \in Procs : cur[q] = b THEN cap[CHOOSE q \in Procs : cur[q] = b] ELSE <<>>) = cap[p]
<1>1. (CHOOSE q \in Procs : cur[q] = b) = p
  OBVIOUS
<1> QED BY <1>1

(* No two processes commit the same batch, and a batch with a process is   *)
(* pending.                                                                *)
LEMMA OneWriter ==
  ASSUME StoreInv, NEW b \in Batches, NEW p \in Procs, current[p] = b
  PROVE  /\ BaseOf(b) = captured[p] /\ outcome[b] = "pending" /\ pc[p] \in Committing
         /\ \A q \in Procs : current[q] = b => q = p
<1>1. ASSUME NEW q \in Procs, current[q] = b PROVE pc[q] \in Committing /\ outcome[b] = "pending"
  BY <1>1, StoreAssumption DEF StoreInv, At
<1>2. \A q \in Procs : current[q] = b => q = p
  BY <1>1 DEF StoreInv, Apart
<1>3. BaseOf(b) = captured[p]
  BY <1>2, BaseIs DEF BaseOf
<1> QED BY <1>1, <1>2, <1>3

(* A step that keeps the writers and their captures keeps the bases.       *)
LEMMA BasesKept ==
  ASSUME StoreInv, NEW b \in Batches,
         \A p \in Procs : /\ current'[p] = b <=> current[p] = b
                          /\ current[p] = b => captured'[p] = captured[p]
  PROVE  BaseOf(b)' = BaseOf(b)
<1>1. CASE \E p \in Procs : current[p] = b
  <2>1. PICK p \in Procs : current[p] = b
    BY <1>1
  <2>2. BaseOf(b) = captured[p] /\ \A q \in Procs : current[q] = b => q = p
    BY <2>1, OneWriter
  <2>3. current'[p] = b /\ \A q \in Procs : current'[q] = b => q = p
    BY <2>1, <2>2
  <2>4. BaseOf(b)' = captured'[p]
    BY <2>3, BaseIs DEF BaseOf
  <2> QED BY <2>1, <2>2, <2>4
<1>2. CASE \A p \in Procs : current[p] # b
  BY <1>2 DEF BaseOf
<1> QED BY <1>1, <1>2

(* A step that the log does not show.                                      *)
Silent ==
  /\ disk'.manifest = disk.manifest /\ outcome' = outcome /\ current' = current
  /\ \A p \in Procs : current[p] \in Batches => captured'[p] = captured[p]

(* The log that is implemented does not move, either.                      *)
LEMMA SilentIsStutter ==
  ASSUME StoreInv, Silent
  PROVE  UNCHANGED <<disk.manifest, Bases, outcome>>
<1>1. ASSUME NEW b \in Batches PROVE BaseOf(b)' = BaseOf(b)
  BY BasesKept DEF Silent
<1> QED BY <1>1 DEF Silent, Bases

(* An answer closes the batch.                                             *)
LEMMA AnswerCloses ==
  ASSUME StoreInv, NEW p \in Procs, pc[p] \in Committing, NEW answer, Answer(p, answer),
         \A q \in Procs \ {p} : captured'[q] = captured[q],
         disk'.manifest = disk.manifest
  PROVE  AbstractLog!Close(current[p], answer)
<1>1. /\ current[p] \in Batches /\ TypeOK
      /\ current'[p] = NoBatch /\ \A q \in Procs \ {p} : current'[q] = current[q]
      /\ outcome' = [outcome EXCEPT ![current[p]] = answer]
  BY Committer DEF StoreInv, TypeInv, TypeOK, Answer
<1>2. \A q \in Procs : current[q] = current[p] => q = p
  BY <1>1, OneWriter
<1>3. ASSUME NEW b \in Batches PROVE BaseOf(b)' = IF b = current[p] THEN <<>> ELSE BaseOf(b)
  <2>1. CASE b = current[p]
    BY <1>1, <1>2, <2>1, StoreAssumption DEF BaseOf
  <2>2. CASE b # current[p]
    BY <1>1, <2>2, BasesKept, StoreAssumption
  <2> QED BY <2>1, <2>2
<1>4. [b \in Batches |-> BaseOf(b)]' = [[b \in Batches |-> BaseOf(b)] EXCEPT ![current[p]] = <<>>]
  BY <1>1, <1>3
<1> QED BY <1>1, <1>4 DEF AbstractLog!Close

(* Neither locks nor files, nor what is only in the ledger, are the log's. *)
LEMMA ManifestParts ==
  ASSUME TypeOK, NEW f, NEW c,
         \/ disk' = [disk EXCEPT !.files[f] = c] \/ disk' = [disk EXCEPT !.lock = c]
         \/ disk' = [disk EXCEPT !.ledger = Append(@, c)]
  PROVE  disk'.manifest = disk.manifest
<1>1. disk \in Directory
  BY DEF TypeOK
<1>2. CASE disk' = [disk EXCEPT !.files[f] = c]
  BY <1>1, <1>2 DEF Directory
<1>3. CASE disk' = [disk EXCEPT !.lock = c]
  BY <1>1, <1>3 DEF Directory
<1>4. CASE disk' = [disk EXCEPT !.ledger = Append(@, c)]
  BY <1>1, <1>4 DEF Directory
<1> QED BY <1>2, <1>3, <1>4

(* The steps around a commit, and those of a commit that goes on.          *)
LEMMA SilentSteps ==
  ASSUME StoreInv,
         \/ \E p \in Procs :
              \/ CaptureLedger(p) \/ CaptureManifest(p) \/ CaptureRefused(p) \/ Forget(p)
              \/ CreateLock(p) \/ SyncLock(p) \/ OpenFails(p)
              \/ Close(p) \/ Unlink(p) \/ SyncUnlink(p) \/ CloseFails(p)
              \/ PersistCreate(p) \/ PersistCreateFails(p) \/ PersistWrite(p) \/ PersistWriteFails(p)
              \/ Revalidate(p) \/ RevalidateFails(p) \/ CleanupFile(p) \/ CleanupFileFails(p)
              \/ AppendBatch(p) \/ WriteTemp(p) \/ SyncRoot(p)
         \/ OperatorRemovesLock \/ UNCHANGED vars
  PROVE  Silent
<1>0. TypeOK
  BY DEF StoreInv, TypeInv
<1>1. ASSUME NEW p \in Procs, CaptureLedger(p) \/ CaptureManifest(p) \/ CaptureRefused(p) \/ Forget(p)
      PROVE  Silent
  <2>1. /\ pc[p] \in {"idle", "reading", "ready"} /\ UNCHANGED <<disk, current, outcome>>
        /\ \A q \in Procs \ {p} : captured'[q] = captured[q]
    BY <1>0, <1>1 DEF CaptureLedger, CaptureManifest, CaptureRefused, Forget, commitVars, TypeOK
  <2>2. current[p] = NoBatch
    BY <2>1 DEF StoreInv, At, Committing
  <2> QED BY <2>1, <2>2, StoreAssumption DEF Silent
<1>2. ASSUME UNCHANGED <<captured, current, outcome>>,
             \/ disk' = disk
             \/ \E f, c : \/ disk' = [disk EXCEPT !.files[f] = c] \/ disk' = [disk EXCEPT !.lock = c]
                          \/ disk' = [disk EXCEPT !.ledger = Append(@, c)]
      PROVE  Silent
  <2>1. disk'.manifest = disk.manifest
    BY <1>0, <1>2, ManifestParts
  <2> QED BY <1>2, <2>1 DEF Silent
<1>3. ASSUME NEW p \in Procs, \/ SyncLock(p) \/ Close(p) \/ SyncUnlink(p) \/ CloseFails(p)
                              \/ PersistWriteFails(p) \/ Revalidate(p) \/ RevalidateFails(p) \/ SyncRoot(p)
      PROVE  Silent
  BY <1>2, <1>3 DEF SyncLock, Close, SyncUnlink, CloseFails, PersistWriteFails, Revalidate,
     RevalidateFails, SyncRoot, commitVars
<1>4. ASSUME NEW p \in Procs, CreateLock(p) \/ OpenFails(p) \/ Unlink(p) \/ AppendBatch(p)
      PROVE  Silent
  <2>1. UNCHANGED <<captured, current, outcome>>
    BY <1>4 DEF CreateLock, OpenFails, Unlink, AppendBatch, commitVars
  <2>2. \/ disk' = disk
        \/ \E c : disk' = [disk EXCEPT !.lock = c] \/ disk' = [disk EXCEPT !.ledger = Append(@, c)]
    BY <1>4 DEF CreateLock, OpenFails, Unlink, AppendBatch
  <2> QED BY <1>2, <2>1, <2>2
<1>5. ASSUME NEW p \in Procs, \/ PersistCreate(p) \/ PersistCreateFails(p) \/ PersistWrite(p)
                              \/ CleanupFile(p) \/ CleanupFileFails(p) \/ WriteTemp(p)
      PROVE  Silent
  <2>1. UNCHANGED <<captured, current, outcome>>
    BY <1>5 DEF PersistCreate, PersistCreateFails, PersistWrite, CleanupFile, CleanupFileFails, WriteTemp, commitVars
  <2>2. disk' = disk \/ \E f, c : disk' = [disk EXCEPT !.files[f] = c]
    BY <1>5 DEF PersistCreate, PersistCreateFails, PersistWrite, CleanupFile, CleanupFileFails, WriteTemp
  <2> QED BY <1>2, <2>1, <2>2
<1>6. CASE OperatorRemovesLock \/ UNCHANGED vars
  <2>1. UNCHANGED <<captured, current, outcome>>
    BY <1>6 DEF OperatorRemovesLock, vars, commitVars
  <2>2. disk' = disk \/ \E c : disk' = [disk EXCEPT !.lock = c]
    BY <1>6 DEF OperatorRemovesLock, vars
  <2> QED BY <1>2, <2>1, <2>2
<1> QED BY <1>1, <1>3, <1>4, <1>5, <1>6

(* Every answer but COMMITTED and every unanswered sync: the log gives the *)
(* batch up, refuses it, or does not move.                                 *)
LEMMA AnswersImplement ==
  ASSUME StoreInv, NEW p \in Procs,
         \/ CleanupEnds(p) \/ AppendOpenFails(p) \/ AppendFails(p) \/ SyncLedger(p) \/ WriteTempFails(p)
         \/ Unconfirmed(p) \/ FailsAfterAppend(p)
  PROVE  Silent \/ \E b \in Batches : AbstractLog!GiveUp(b) \/ AbstractLog!Reject(b)
<1>0. TypeOK /\ pc[p] \in Committing
  BY DEF StoreInv, TypeInv, CleanupEnds, AppendOpenFails, AppendFails, SyncLedger, WriteTempFails, Unconfirmed,
     FailsAfterAppend, Committing
<1>1. /\ current[p] \in Batches /\ outcome[current[p]] = "pending" /\ At(p)
  BY <1>0, Committer
<1>2. disk'.manifest = disk.manifest
  <2>1. \/ disk' = disk \/ \E c : disk' = [disk EXCEPT !.ledger = Append(@, c)]
        \/ \E f, c : disk' = [disk EXCEPT !.files[f] = c]
    BY DEF CleanupEnds, AppendOpenFails, AppendFails, SyncLedger, WriteTempFails, Unconfirmed, FailsAfterAppend
  <2> QED BY <1>0, <2>1, ManifestParts
<1>3. CASE GiveUp(p)
  <2>1. AbstractLog!Close(current[p], "OUTCOME_UNKNOWN")
    BY <1>0, <1>2, <1>3, AnswerCloses DEF GiveUp
  <2> QED BY <1>1, <2>1 DEF AbstractLog!GiveUp
<1>4. CASE Answer(p, "NOT_COMMITTED") /\ UNCHANGED <<captured, poisoned>> /\ pc[p] \in {"cleanup", "append"}
  <2>1. AbstractLog!Close(current[p], "NOT_COMMITTED")
    BY <1>0, <1>2, <1>4, AnswerCloses
  <2>2. current[p] \notin ToSet(disk.manifest)
    BY <1>1, <1>4 DEF At, BeforeAppend, Unwritten
  <2> QED BY <1>1, <2>1, <2>2, SameSets DEF AbstractLog!Reject
<1>5. CASE UNCHANGED commitVars
  BY <1>2, <1>5 DEF commitVars, Silent
<1> QED BY <1>3, <1>4, <1>5 DEF CleanupEnds, AppendOpenFails, AppendFails, SyncLedger, WriteTempFails, Unconfirmed,
        FailsAfterAppend

(* A commit is offered, refused, takes effect and is acknowledged.         *)
LEMMA CommitImplements ==
  ASSUME StoreInv, NEW p \in Procs,
         (\E b \in Batches : Admit(p, b) \/ Refuse(p, b)) \/ Publish(p) \/ Confirm(p)
  PROVE  \E b \in Batches : \/ AbstractLog!Offer(b) \/ AbstractLog!Reject(b)
                            \/ AbstractLog!Take(b) \/ AbstractLog!Acknowledge(b)
<1>0. TypeOK
  BY DEF StoreInv, TypeInv
<1>1. ASSUME NEW b \in Batches, Admit(p, b) PROVE AbstractLog!Offer(b)
  <2>1. /\ outcome[b] = "unissued" /\ outcome' = [outcome EXCEPT ![b] = "pending"]
        /\ current' = [current EXCEPT ![p] = b] /\ UNCHANGED <<disk, captured>>
        /\ captured[p] = disk.manifest /\ pc[p] = "ready"
    BY <1>1 DEF Admit, Request, Admissible, StoreMatches, Describes
  <2>2. \A q \in Procs : current[q] # b
    BY <2>1, OneWriter
  <2>3. current'[p] = b /\ \A q \in Procs \ {p} : current'[q] = current[q]
    BY <1>0, <2>1 DEF TypeOK
  <2>4. current[p] = NoBatch
    BY <2>1 DEF StoreInv, At, Committing
  <2>5. BaseOf(b)' = disk.manifest
    <3>1. current'[p] = b /\ \A q \in Procs : current'[q] = b => q = p
      BY <2>2, <2>3
    <3>2. BaseOf(b)' = captured'[p]
      BY <3>1, BaseIs DEF BaseOf
    <3> QED BY <2>1, <3>2
  <2>6. ASSUME NEW c \in Batches \ {b} PROVE BaseOf(c)' = BaseOf(c)
    BY <2>1, <2>3, <2>4, BasesKept, StoreAssumption
  <2>7. [c \in Batches |-> BaseOf(c)]' = [[c \in Batches |-> BaseOf(c)] EXCEPT ![b] = disk.manifest]
    BY <2>5, <2>6
  <2> QED BY <2>1, <2>7 DEF AbstractLog!Offer
<1>2. ASSUME NEW b \in Batches, Refuse(p, b) PROVE AbstractLog!Reject(b)
  <2>1. /\ outcome[b] = "unissued" /\ outcome' = [outcome EXCEPT ![b] = "NOT_COMMITTED"]
        /\ UNCHANGED <<disk, captured, current>>
    BY <1>2 DEF Refuse, Request
  <2>2. \A q \in Procs : current[q] # b
    BY <2>1, OneWriter
  <2>3. BaseOf(b) = <<>> /\ \A c \in Batches : BaseOf(c)' = BaseOf(c)
    BY <2>1, <2>2 DEF BaseOf
  <2>4. [c \in Batches |-> BaseOf(c)]' = [[c \in Batches |-> BaseOf(c)] EXCEPT ![b] = <<>>]
    BY <2>3
  <2>5. b \notin ToSet(disk.manifest)
    BY <2>1 DEF StoreInv, OutcomesAreDurable
  <2> QED BY <2>1, <2>4, <2>5, SameSets DEF AbstractLog!Reject, AbstractLog!Close
<1>3. ASSUME Publish(p) PROVE \E b \in Batches : AbstractLog!Take(b)
  <2>1. /\ pc[p] = "publish" /\ UNCHANGED <<captured, current, outcome>>
        /\ disk' = [disk EXCEPT !.manifest = NextLedger(p), !.files[current[p]] = "absent"]
    BY <1>3 DEF Publish, commitVars
  <2>2. /\ current[p] \in Batches /\ outcome[current[p]] = "pending" /\ disk.manifest = captured[p]
    BY <2>1, Committer, PublishedWasCaptured DEF Committing
  <2>3. disk'.manifest = Append(disk.manifest, current[p])
    BY <1>0, <2>1, <2>2 DEF TypeOK, Directory, NextLedger
  <2>4. BaseOf(current[p]) = disk.manifest
    BY <2>2, OneWriter
  <2>5. [c \in Batches |-> BaseOf(c)]' = [c \in Batches |-> BaseOf(c)]
    BY <2>1 DEF BaseOf
  <2> QED BY <2>1, <2>2, <2>3, <2>4, <2>5 DEF AbstractLog!Take
<1>4. ASSUME Confirm(p) PROVE \E b \in Batches : AbstractLog!Acknowledge(b)
  <2>1. /\ pc[p] = "confirm" /\ disk' = disk /\ Answer(p, "COMMITTED") /\ disk.manifest = NextLedger(p)
        /\ \A q \in Procs \ {p} : captured'[q] = captured[q]
    BY <1>0, <1>4 DEF Confirm, Confirmed, TypeOK
  <2>2. /\ current[p] \in Batches /\ outcome[current[p]] = "pending" /\ pc[p] \in Committing
    BY <2>1, Committer DEF Committing
  <2>3. current[p] \in ToSet(disk.manifest)
    <3>1. captured[p] \in Seq(Entries) /\ current[p] \in Entries
      BY <1>0, <2>2 DEF TypeOK, Entries
    <3>2. ToSet(NextLedger(p)) = ToSet(captured[p]) \cup {current[p]}
      BY <3>1, AppendHolds DEF NextLedger
    <3> QED BY <2>1, <3>2
  <2>4. AbstractLog!Close(current[p], "COMMITTED")
    BY <2>1, <2>2, AnswerCloses
  <2> QED BY <2>2, <2>3, <2>4, SameSets DEF AbstractLog!Acknowledge
<1> QED BY <1>1, <1>2, <1>3, <1>4

(* When writers die, the log is cut at most behind what was acknowledged.  *)
LEMMA LossImplements ==
  ASSUME StoreInv, PowerLoss \/ \E p \in Procs : Crash(p)
  PROVE  AbstractLog!Lose
<1>0. /\ TypeOK /\ disk.manifest \in Seq(Entries) /\ stable.manifest \in Seq(Entries)
      /\ Begins(stable.manifest, disk.manifest) /\ Begins(disk.manifest, disk.manifest)
  <2>1. TypeOK /\ disk.manifest \in Seq(Entries) /\ stable.manifest \in Seq(Entries)
    BY Parts DEF StoreInv, TypeInv
  <2> QED BY <2>1, BeginsItself DEF StoreInv, LogsInv
<1>1. ASSUME NEW m \in {stable.manifest, disk.manifest}
      PROVE  /\ m = SubSeq(disk.manifest, 1, Len(m)) /\ Len(m) \in 0 .. Len(disk.manifest)
             /\ AbstractLog!Committed \subseteq AbstractLog!ToSet(SubSeq(disk.manifest, 1, Len(m)))
  <2>1. m = SubSeq(disk.manifest, 1, Len(m)) /\ Len(m) \in 0 .. Len(disk.manifest)
    BY <1>0, <1>1 DEF Begins
  <2>2. AbstractLog!Committed \subseteq ToSet(m)
    BY <1>1 DEF AbstractLog!Committed, StoreInv, OutcomesAreDurable
  <2> QED BY <2>1, <2>2, SameSets
<1>2. ASSUME disk'.manifest \in {stable.manifest, disk.manifest},
             NEW ps \in SUBSET Procs, outcome' = Unanswered(ps),
             \A p \in ps : current'[p] = NoBatch,
             \A p \in Procs \ ps : current'[p] = current[p] /\ captured'[p] = captured[p]
      PROVE  AbstractLog!Lose
  <2> DEFINE dead == {b \in Batches : outcome[b] = "pending" /\ \E p \in ps : current[p] = b}
  <2>1. \E n \in 0 .. Len(disk.manifest) :
          /\ AbstractLog!Committed \subseteq AbstractLog!ToSet(SubSeq(disk.manifest, 1, n))
          /\ disk'.manifest = SubSeq(disk.manifest, 1, n)
    BY <1>1, <1>2
  <2>2. outcome' = [b \in Batches |-> IF b \in dead THEN "no_answer" ELSE outcome[b]]
    BY <1>2 DEF Unanswered
  <2>3. dead \in SUBSET {b \in Batches : outcome[b] = "pending"}
    OBVIOUS
  <2>4. ASSUME NEW b \in Batches
        PROVE  BaseOf(b)' = IF b \in dead THEN <<>> ELSE BaseOf(b)
    <3>1. CASE \E p \in ps : current[p] = b
      <4>1. b \in dead /\ \A q \in Procs \ ps : current[q] # b
        BY <3>1, OneWriter
      <4>2. \A q \in Procs : current'[q] # b
        BY <1>2, <4>1, StoreAssumption
      <4> QED BY <4>1, <4>2 DEF BaseOf
    <3>2. CASE \A p \in ps : current[p] # b
      <4>1. \A q \in Procs : /\ current'[q] = b <=> current[q] = b
                             /\ current[q] = b => captured'[q] = captured[q]
        BY <1>2, <3>2, StoreAssumption
      <4>2. BaseOf(b)' = BaseOf(b)
        BY <4>1, BasesKept
      <4> QED BY <3>2, <4>2
    <3> QED BY <3>1, <3>2
  <2>5. [b \in Batches |-> BaseOf(b)]'
          = [b \in Batches |-> IF b \in dead THEN <<>> ELSE [c \in Batches |-> BaseOf(c)][b]]
    BY <2>4
  <2> HIDE DEF dead
  <2> QED BY <2>1, <2>2, <2>3, <2>5 DEF AbstractLog!Lose
<1>3. ASSUME NEW p \in Procs, Crash(p) PROVE AbstractLog!Lose
  <2>1. /\ disk' = disk /\ outcome' = Unanswered({p}) /\ current'[p] = NoBatch
        /\ \A q \in Procs \ {p} : current'[q] = current[q] /\ captured'[q] = captured[q]
    BY <1>0, <1>3 DEF Crash, TypeOK
  <2>2. {p} \in SUBSET Procs
    OBVIOUS
  <2> QED BY <1>2, <2>1, <2>2
<1>4. ASSUME PowerLoss PROVE AbstractLog!Lose
  <2>1. disk'.manifest \in {stable.manifest, disk.manifest}
    BY <1>4 DEF PowerLoss
  <2>2. outcome' = Unanswered(Procs) /\ \A p \in Procs : current'[p] = NoBatch
    BY <1>4 DEF PowerLoss
  <2> QED BY <1>2, <2>1, <2>2
<1> QED BY <1>3, <1>4

(* For all constants, whoever has the lock: the store is an implementation *)
(* of the durable log.  A batch takes effect at the rename of the manifest,*)
(* on top of exactly the log that its writer captured (l.1378).            *)
THEOREM StoreImplementsLog == Spec => ImplementsDurableLog
<1>1. Init => AbstractLog!LogInit
  BY DEF Init, EmptyDirectory, AbstractLog!LogInit, BaseOf
<1>2. StoreInv /\ [Next]_vars => [AbstractLog!LogNext]_(AbstractLog!logVars)
  <2> SUFFICES ASSUME StoreInv, [Next]_vars PROVE [AbstractLog!LogNext]_(AbstractLog!logVars)
    OBVIOUS
  <2>1. CASE Silent
    BY <2>1, SilentIsStutter DEF AbstractLog!logVars, Bases
  <2>2. ASSUME NEW p \in Procs, Proceed(p) PROVE Silent \/ AbstractLog!LogNext
    BY <2>2, SilentSteps, AnswersImplement, CommitImplements DEF Proceed, AbstractLog!LogNext
  <2>3. ASSUME NEW p \in Procs, CallFails(p) PROVE Silent \/ AbstractLog!LogNext
    BY <2>3, SilentSteps, AnswersImplement DEF CallFails, AbstractLog!LogNext
  <2>4. ASSUME NEW p \in Procs, CallerActs(p) PROVE Silent \/ AbstractLog!LogNext
    BY <2>4, SilentSteps, CommitImplements DEF CallerActs, AbstractLog!LogNext
  <2>5. ASSUME PowerLoss \/ \E p \in Procs : Crash(p) PROVE AbstractLog!LogNext
    BY <2>5, LossImplements DEF AbstractLog!LogNext
  <2>6. ASSUME OperatorRemovesLock \/ UNCHANGED vars PROVE Silent
    BY <2>6, SilentSteps
  <2>7. Silent \/ AbstractLog!LogNext
    BY <2>2, <2>3, <2>4, <2>5, <2>6 DEF Next
  <2> QED BY <2>1, <2>7
<1>3. Spec => []StoreInv
  BY StoreAlways
<1> QED BY <1>1, <1>2, <1>3, PTL DEF Spec, ImplementsDurableLog, AbstractLog!LogSpec

=============================================================================

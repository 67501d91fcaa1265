---------------------------- MODULE FileStoreV04 ----------------------------
(***************************************************************************)
(* The durable store of a V04 run, src/src/run/runtime-file-store-v04.ts:  *)
(* processes capture a run directory, open a session by creating the lock  *)
(* file, and commit batches of ledger events through it.  A commit appends *)
(* to ledger.jsonl and then replaces run-manifest.json, which describes    *)
(* the ledger; a compaction or a revocation first persists its artifact    *)
(* files.  Any I/O call may fail, a process may crash between two calls,   *)
(* and a power loss forgets everything that was not synced.                *)
(*                                                                         *)
(* A batch stands for the bytes one commit appends.  A manifest is         *)
(* represented by the ledger value it describes, the inode of the lock by  *)
(* the process that created it, a temporary manifest by the batch it is    *)
(* for.  Hashes are injective, so comparing them compares values.          *)
(*                                                                         *)
(* Four callers return the promise of their commit instead of awaiting it, *)
(* inside a try whose finally closes the session: the close and the commit *)
(* then run side by side, and the lock may go while the commit is under    *)
(* way.  Their batches are Unawaited.                                      *)
(***************************************************************************)
EXTENDS Naturals, FiniteSets, SequencesExt

CONSTANTS
  Procs,        \* processes of the host that use the run directory
  Batches,      \* commit requests, each issued at most once
  Artifacts,    \* paths of summary and revocation files
  ArtifactsOf,  \* the paths a batch names, in the order they are persisted
  Torn,         \* the bytes a short write leaves at the end of the ledger
  NoLock,       \* the lock file is absent
  NoBatch,      \* the process is not committing
  Unawaited,    \* the batches whose commit the caller does not await
  OperatorErrs, \* may somebody delete the lock file of a live session?
  MaxFaults,    \* bound on failing I/O calls
  MaxCrashes    \* bound on process crashes and power losses

ASSUME StoreAssumption ==
  /\ Artifacts \cap Batches = {}
  /\ ArtifactsOf \in [Batches -> Seq(Artifacts)]
  /\ Torn \notin Batches
  /\ NoLock \notin Procs
  /\ NoBatch \notin Batches
  /\ Unawaited \subseteq {b \in Batches : ArtifactsOf[b] = <<>>}
  /\ OperatorErrs \in BOOLEAN
  /\ MaxFaults \in Nat
  /\ MaxCrashes \in Nat

VARIABLES
  disk,      \* the run directory as the processes see it
  stable,    \* the part of it that survives a power loss
  session,   \* the lock each process has, or is taking or giving back
  pc,        \* where each process is with its store and its commit
  captured,  \* the ledger each process's captured store holds
  poisoned,  \* is that store poisoned?
  current,   \* the batch each process is committing
  owned,     \* files this commit has created, in order
  outcome,   \* what the caller of each batch was told
  faults, crashes

vars == <<disk, stable, session, pc, captured, poisoned, current, owned, outcome,
          faults, crashes>>

Files   == Artifacts \cup Batches
Entries == Batches \cup {Torn}

Directory == [ledger   : Seq(Entries),
              manifest : Seq(Entries),
              files    : [Files -> {"absent", "partial", "whole"}],
              lock     : Procs \cup {NoLock}]

Outcomes == {"unissued", "pending", "no_answer",
             "COMMITTED", "NOT_COMMITTED", "OUTCOME_UNKNOWN"}

Sessions == {"none", "locking", "open", "unlinking", "closing"}

Committing == {"persist", "cleanup", "dirty", "append", "sync", "publish",
               "rootsync", "confirm"}
Places     == {"idle", "reading", "ready"} \cup Committing

TypeOK ==
  /\ disk \in Directory
  /\ stable \in Directory
  /\ session \in [Procs -> Sessions]
  /\ pc \in [Procs -> Places]
  /\ captured \in [Procs -> Seq(Entries)]
  /\ poisoned \in [Procs -> BOOLEAN]
  /\ current \in [Procs -> Batches \cup {NoBatch}]
  /\ owned \in [Procs -> Seq(Files)]
  /\ outcome \in [Batches -> Outcomes]
  /\ faults \in Nat
  /\ crashes \in Nat

(* From opening the lock file until it is unlinked.                        *)
InSession(p) == session[p] \in {"locking", "open", "unlinking"}

-----------------------------------------------------------------------------
(* What the code reads                                                     *)

(* The files that the whole events of a ledger name.                       *)
ArtifactsIn(log) == UNION {ToSet(ArtifactsOf[b]) : b \in ToSet(log) \ {Torn}}

(* The manifest describes the ledger and every file it lists is there.     *)
Describes(log, dir) ==
  /\ dir.manifest = log
  /\ \A f \in ArtifactsIn(log) : dir.files[f] = "whole"

StoreMatches(p) ==
  /\ disk.ledger = captured[p]
  /\ Describes(captured[p], disk)

LockIsOwn(p) == disk.lock = p

NextLedger(p) == Append(captured[p], current[p])

(* What persistBeforeCommit creates, in order: the artifacts, then the     *)
(* temporary manifest.                                                     *)
ToPersist(b) == Append(ArtifactsOf[b], b)

OwnedIsWhole(p) == \A i \in DOMAIN owned[p] : disk.files[owned[p][i]] = "whole"

RootSynced == [stable EXCEPT !.manifest = disk.manifest,
                             !.lock     = disk.lock,
                             !.files    = [f \in Files |-> IF f \in Batches
                                                           THEN disk.files[f]
                                                           ELSE stable.files[f]]]

-----------------------------------------------------------------------------
EmptyDirectory == [ledger   |-> <<>>,
                   manifest |-> <<>>,
                   files    |-> [f \in Files |-> "absent"],
                   lock     |-> NoLock]

(* The run directory has been initialised and nobody uses it.              *)
Init ==
  /\ disk = EmptyDirectory
  /\ stable = EmptyDirectory
  /\ session = [p \in Procs |-> "none"]
  /\ pc = [p \in Procs |-> "idle"]
  /\ captured = [p \in Procs |-> <<>>]
  /\ poisoned = [p \in Procs |-> FALSE]
  /\ current = [p \in Procs |-> NoBatch]
  /\ owned = [p \in Procs |-> <<>>]
  /\ outcome = [b \in Batches |-> "unissued"]
  /\ faults = 0
  /\ crashes = 0

Goto(p, place) == pc' = [pc EXCEPT ![p] = place]
Turn(p, stage) == session' = [session EXCEPT ![p] = stage]

(* One more I/O call fails.                                                *)
Fault == faults < MaxFaults /\ faults' = faults + 1

(* The commit returns.                                                     *)
Answer(p, answer) ==
  /\ Goto(p, "ready")
  /\ outcome' = [outcome EXCEPT ![current[p]] = answer]
  /\ current' = [current EXCEPT ![p] = NoBatch]
  /\ owned' = [owned EXCEPT ![p] = <<>>]

(* unknown(): the session and the store are poisoned.                      *)
GiveUp(p) ==
  /\ Answer(p, "OUTCOME_UNKNOWN")
  /\ poisoned' = [poisoned EXCEPT ![p] = TRUE]
  /\ UNCHANGED captured

commitVars == <<captured, poisoned, current, owned, outcome>>

-----------------------------------------------------------------------------
(* captureRuntimeFileStoreV04: the ledger is read, then the manifest and   *)
(* the files it lists; the two must agree.                                 *)

CaptureLedger(p) ==
  /\ pc[p] = "idle"
  /\ Goto(p, "reading")
  /\ captured' = [captured EXCEPT ![p] = disk.ledger]
  /\ UNCHANGED <<disk, stable, session, poisoned, current, owned, outcome, faults, crashes>>

CaptureManifest(p) ==
  /\ pc[p] = "reading"
  /\ Describes(captured[p], disk)
  /\ Goto(p, "ready")
  /\ UNCHANGED <<disk, stable, session, commitVars, faults, crashes>>

CaptureRefused(p) ==
  /\ pc[p] = "reading"
  /\ ~Describes(captured[p], disk)
  /\ Goto(p, "idle")
  /\ captured' = [captured EXCEPT ![p] = <<>>]
  /\ UNCHANGED <<disk, stable, session, poisoned, current, owned, outcome, faults, crashes>>

(* The caller forgets its captured store, to capture again.                *)
Forget(p) ==
  /\ pc[p] = "ready"
  /\ session[p] = "none"
  /\ Goto(p, "idle")
  /\ captured' = [captured EXCEPT ![p] = <<>>]
  /\ poisoned' = [poisoned EXCEPT ![p] = FALSE]
  /\ UNCHANGED <<disk, stable, session, current, owned, outcome, faults, crashes>>

-----------------------------------------------------------------------------
(* openRuntimeFileStoreSessionV04: O_CREAT|O_EXCL, then write, sync and    *)
(* sync of the directory.  A lock that is there is never stolen.           *)

Opening(p) == pc[p] = "ready" /\ session[p] = "none" /\ ~poisoned[p]

(* Mutant: the lock file is opened without O_EXCL.                         *)
CreateLockShared(p) ==
  /\ Opening(p)
  /\ disk' = [disk EXCEPT !.lock = p]
  /\ Turn(p, "locking")
  /\ UNCHANGED <<stable, pc, commitVars, faults, crashes>>

CreateLock(p) ==
  /\ Opening(p)
  /\ disk.lock = NoLock
  /\ disk' = [disk EXCEPT !.lock = p]
  /\ Turn(p, "locking")
  /\ UNCHANGED <<stable, pc, commitVars, faults, crashes>>

(* The directory is synced and the lock looked at: is it the one created?  *)
SyncLock(p) ==
  /\ session[p] = "locking"
  /\ stable' = RootSynced
  /\ Turn(p, IF LockIsOwn(p) THEN "open" ELSE "none")
  /\ UNCHANGED <<disk, pc, commitVars, faults, crashes>>

(* cleanupOwnedLockOnOpenFailure is a best effort: the lock file may stay. *)
OpenFails(p) ==
  /\ session[p] = "locking"
  /\ Fault
  /\ \/ disk' = [disk EXCEPT !.lock = IF LockIsOwn(p) THEN NoLock ELSE @]
     \/ UNCHANGED disk
  /\ Turn(p, "none")
  /\ UNCHANGED <<stable, pc, commitVars, crashes>>

-----------------------------------------------------------------------------
(* The three commit functions up to their first write                      *)

PathsFree(b) == \A f \in ToSet(ArtifactsOf[b]) : disk.files[f] = "absent"

Admissible(p, b) == LockIsOwn(p) /\ StoreMatches(p) /\ PathsFree(b)

Request(p, b) ==
  /\ pc[p] = "ready"
  /\ session[p] = "open"
  /\ ~poisoned[p]
  /\ outcome[b] = "unissued"

Admit(p, b) ==
  /\ Request(p, b)
  /\ Admissible(p, b)
  /\ outcome' = [outcome EXCEPT ![b] = "pending"]
  /\ current' = [current EXCEPT ![p] = b]
  /\ Goto(p, IF ArtifactsOf[b] = <<>> THEN "append" ELSE "persist")
  /\ UNCHANGED <<disk, stable, session, captured, poisoned, owned, faults, crashes>>

(* The close beside an un-awaited commit may take the lock from under it.  *)
Refuse(p, b) ==
  /\ Request(p, b)
  /\ \/ (~Admissible(p, b) \/ b \in Unawaited) /\ UNCHANGED faults
     \/ Fault
  /\ outcome' = [outcome EXCEPT ![b] = "NOT_COMMITTED"]
  /\ UNCHANGED <<disk, stable, session, pc, captured, poisoned, current, owned, crashes>>

-----------------------------------------------------------------------------
(* persistBeforeCommit, once for each file of a compaction or a revocation *)

NextFile(p) == ToPersist(current[p])[Len(owned[p]) + 1]

AllPersisted(p) == Len(owned[p]) = Len(ToPersist(current[p])) /\ OwnedIsWhole(p)

Creating(p) ==
  /\ pc[p] = "persist"
  /\ OwnedIsWhole(p)
  /\ Len(owned[p]) < Len(ToPersist(current[p]))

PersistCreate(p) ==
  /\ Creating(p)
  /\ disk.files[NextFile(p)] = "absent"
  /\ disk' = [disk EXCEPT !.files[NextFile(p)] = "partial"]
  /\ owned' = [owned EXCEPT ![p] = Append(@, NextFile(p))]
  /\ UNCHANGED <<stable, session, pc, captured, poisoned, current, outcome, faults, crashes>>

(* write, sync, readback, sync of the parent directory                     *)
PersistWrite(p) ==
  /\ pc[p] = "persist"
  /\ ~OwnedIsWhole(p)
  /\ disk' = [disk EXCEPT !.files[Last(owned[p])] = "whole"]
  /\ stable' = [stable EXCEPT !.files[Last(owned[p])] = "whole"]
  /\ UNCHANGED <<session, pc, commitVars, faults, crashes>>

(* EEXIST, or any failure before the file is known to be owned: the second *)
(* disjunct leaves behind a file that cleanup does not know of.            *)
PersistCreateFails(p) ==
  /\ Creating(p)
  /\ \/ disk.files[NextFile(p)] # "absent" /\ UNCHANGED <<disk, faults>>
     \/ Fault /\ UNCHANGED disk
     \/ /\ Fault
        /\ disk.files[NextFile(p)] = "absent"
        /\ disk' = [disk EXCEPT !.files[NextFile(p)] = "partial"]
  /\ Goto(p, "cleanup")
  /\ UNCHANGED <<stable, session, commitVars, crashes>>

PersistWriteFails(p) ==
  /\ pc[p] = "persist"
  /\ ~OwnedIsWhole(p)
  /\ Fault
  /\ Goto(p, "cleanup")
  /\ UNCHANGED <<disk, stable, session, commitVars, crashes>>

(* The lock, the store and the persisted files are verified again.         *)
Revalidate(p) ==
  /\ pc[p] = "persist"
  /\ AllPersisted(p)
  /\ LockIsOwn(p)
  /\ StoreMatches(p)
  /\ Goto(p, "append")
  /\ UNCHANGED <<disk, stable, session, commitVars, faults, crashes>>

RevalidateFails(p) ==
  /\ pc[p] = "persist"
  /\ AllPersisted(p)
  /\ \/ ~(LockIsOwn(p) /\ StoreMatches(p)) /\ UNCHANGED faults
     \/ Fault
  /\ Goto(p, "cleanup")
  /\ UNCHANGED <<disk, stable, session, commitVars, crashes>>

(* cleanupInvocationOwnedFiles, the files in reverse: unlink and sync.     *)
CleanupFile(p) ==
  /\ pc[p] \in {"cleanup", "dirty"}
  /\ owned[p] # <<>>
  /\ disk' = [disk EXCEPT !.files[Last(owned[p])] = "absent"]
  /\ stable' = [stable EXCEPT !.files[Last(owned[p])] = "absent"]
  /\ owned' = [owned EXCEPT ![p] = Front(@)]
  /\ UNCHANGED <<session, pc, captured, poisoned, current, outcome, faults, crashes>>

CleanupFileFails(p) ==
  /\ pc[p] \in {"cleanup", "dirty"}
  /\ owned[p] # <<>>
  /\ Fault
  /\ \/ disk' = [disk EXCEPT !.files[Last(owned[p])] = "absent"]
     \/ UNCHANGED disk
  /\ owned' = [owned EXCEPT ![p] = Front(@)]
  /\ Goto(p, "dirty")
  /\ UNCHANGED <<stable, session, captured, poisoned, current, outcome, crashes>>

CleanupEnds(p) ==
  /\ owned[p] = <<>>
  /\ \/ pc[p] = "cleanup" /\ Answer(p, "NOT_COMMITTED") /\ UNCHANGED <<captured, poisoned>>
     \/ pc[p] = "dirty" /\ GiveUp(p)
  /\ UNCHANGED <<disk, stable, session, faults, crashes>>

-----------------------------------------------------------------------------
(* The append and what follows it                                          *)

AppendBatch(p) ==
  /\ pc[p] = "append"
  /\ disk' = [disk EXCEPT !.ledger = Append(@, current[p])]
  /\ Goto(p, "sync")
  /\ UNCHANGED <<stable, session, commitVars, faults, crashes>>

(* The ledger cannot be opened: nothing was written.                       *)
AppendOpenFails(p) ==
  /\ pc[p] = "append"
  /\ Fault
  /\ IF owned[p] = <<>>
     THEN Answer(p, "NOT_COMMITTED") /\ UNCHANGED <<captured, poisoned>>
     ELSE Goto(p, "cleanup") /\ UNCHANGED commitVars
  /\ UNCHANGED <<disk, stable, session, crashes>>

(* The write throws or is short: the tail may hold nothing, a part, or all.*)
AppendFails(p) ==
  /\ pc[p] = "append"
  /\ Fault
  /\ \/ UNCHANGED disk
     \/ \E e \in {Torn, current[p]} : disk' = [disk EXCEPT !.ledger = Append(@, e)]
  /\ GiveUp(p)
  /\ UNCHANGED <<stable, session, crashes>>

(* Mutant: no fsync of the ledger before the manifest is replaced.         *)
ReadBackUnsynced(p) ==
  /\ pc[p] = "sync"
  /\ IF disk.ledger = NextLedger(p)
     THEN Goto(p, "publish") /\ UNCHANGED commitVars
     ELSE GiveUp(p)
  /\ UNCHANGED <<disk, stable, session, faults, crashes>>

(* Mutant: the ledger is synced and not read back.                         *)
SyncWithoutReadback(p) ==
  /\ pc[p] = "sync"
  /\ stable' = [stable EXCEPT !.ledger = disk.ledger]
  /\ Goto(p, "publish")
  /\ UNCHANGED <<disk, session, commitVars, faults, crashes>>

(* fsync of the ledger, then readback                                      *)
SyncLedger(p) ==
  /\ pc[p] = "sync"
  /\ stable' = [stable EXCEPT !.ledger = disk.ledger]
  /\ IF disk.ledger = NextLedger(p)
     THEN Goto(p, "publish") /\ UNCHANGED commitVars
     ELSE GiveUp(p)
  /\ UNCHANGED <<disk, session, faults, crashes>>

(* A plain commit writes its temporary manifest only now.                  *)
WriteTemp(p) ==
  /\ pc[p] = "publish"
  /\ disk.files[current[p]] = "absent"
  /\ disk' = [disk EXCEPT !.files[current[p]] = "whole"]
  /\ UNCHANGED <<stable, session, pc, commitVars, faults, crashes>>

WriteTempFails(p) ==
  /\ pc[p] = "publish"
  /\ disk.files[current[p]] = "absent"
  /\ Fault
  /\ disk' = [disk EXCEPT !.files[current[p]] = "partial"]
  /\ GiveUp(p)
  /\ UNCHANGED <<stable, session, crashes>>

Publish(p) ==
  /\ pc[p] = "publish"
  /\ disk.files[current[p]] = "whole"
  /\ disk' = [disk EXCEPT !.manifest = NextLedger(p),
                          !.files[current[p]] = "absent"]
  /\ Goto(p, "rootsync")
  /\ UNCHANGED <<stable, session, commitVars, faults, crashes>>

(* Mutant: the rename is not followed by a sync of the directory.          *)
SkipSyncRoot(p) ==
  /\ pc[p] = "rootsync"
  /\ Goto(p, "confirm")
  /\ UNCHANGED <<disk, stable, session, commitVars, faults, crashes>>

SyncRoot(p) ==
  /\ pc[p] = "rootsync"
  /\ stable' = RootSynced
  /\ Goto(p, "confirm")
  /\ UNCHANGED <<disk, session, commitVars, faults, crashes>>

(* The last readbacks; the artifact commits also look at the lock again.   *)
Confirmed(p) ==
  /\ disk.ledger = NextLedger(p)
  /\ disk.manifest = NextLedger(p)
  /\ \A f \in ToSet(ArtifactsOf[current[p]]) : disk.files[f] = "whole"
  /\ owned[p] # <<>> => LockIsOwn(p)

Confirm(p) ==
  /\ pc[p] = "confirm"
  /\ Confirmed(p)
  /\ captured' = [captured EXCEPT ![p] = NextLedger(p)]
  /\ Answer(p, "COMMITTED")
  /\ UNCHANGED <<disk, stable, session, poisoned, faults, crashes>>

Unconfirmed(p) ==
  /\ pc[p] = "confirm"
  /\ ~Confirmed(p)
  /\ GiveUp(p)
  /\ UNCHANGED <<disk, stable, session, faults, crashes>>

(* Mutant: a failure after the append cleans up like one before it.        *)
FailsAfterAppendCleansUp(p) ==
  /\ pc[p] \in {"sync", "publish", "rootsync", "confirm"}
  /\ Fault
  /\ IF owned[p] = <<>> THEN GiveUp(p) ELSE Goto(p, "dirty") /\ UNCHANGED commitVars
  /\ UNCHANGED <<disk, stable, session, crashes>>

(* After the append every failing call ends in unknown().                  *)
FailsAfterAppend(p) ==
  /\ pc[p] \in {"sync", "publish", "rootsync", "confirm"}
  /\ Fault
  /\ GiveUp(p)
  /\ UNCHANGED <<disk, stable, session, crashes>>

-----------------------------------------------------------------------------
(* closeRuntimeFileStoreSessionV04: the lock file is looked at, unlinked   *)
(* when it is the session's own, and the directory is synced.  It asks for *)
(* no commit to have ended; the callers that await theirs see to that.     *)

MayClose(p) == session[p] = "open" /\ (pc[p] = "ready" \/ current[p] \in Unawaited)

(* Mutant: a poisoned session cannot be closed.                            *)
ClosePoisonedNever(p) ==
  /\ MayClose(p)
  /\ ~poisoned[p]
  /\ Turn(p, IF LockIsOwn(p) THEN "unlinking" ELSE "none")
  /\ UNCHANGED <<disk, stable, pc, commitVars, faults, crashes>>

Close(p) ==
  /\ MayClose(p)
  /\ Turn(p, IF LockIsOwn(p) THEN "unlinking" ELSE "none")
  /\ UNCHANGED <<disk, stable, pc, commitVars, faults, crashes>>

Unlink(p) ==
  /\ session[p] = "unlinking"
  /\ disk' = [disk EXCEPT !.lock = NoLock]
  /\ Turn(p, "closing")
  /\ UNCHANGED <<stable, pc, commitVars, faults, crashes>>

SyncUnlink(p) ==
  /\ session[p] = "closing"
  /\ stable' = RootSynced
  /\ Turn(p, "none")
  /\ UNCHANGED <<disk, pc, commitVars, faults, crashes>>

(* close returns false; the lock file may stay behind.                     *)
CloseFails(p) ==
  /\ MayClose(p) \/ session[p] \in {"unlinking", "closing"}
  /\ Fault
  /\ Turn(p, "none")
  /\ UNCHANGED <<disk, stable, pc, commitVars, crashes>>

-----------------------------------------------------------------------------
(* The environment                                                         *)

MayCrash == crashes < MaxCrashes /\ crashes' = crashes + 1

(* A process forgets its store, its session and its commit.                *)
Unanswered(ps) ==
  [b \in Batches |-> IF outcome[b] = "pending" /\ (\E p \in ps : current[p] = b)
                     THEN "no_answer" ELSE outcome[b]]

Crash(p) ==
  /\ pc[p] # "idle"
  /\ MayCrash
  /\ Goto(p, "idle")
  /\ Turn(p, "none")
  /\ captured' = [captured EXCEPT ![p] = <<>>]
  /\ poisoned' = [poisoned EXCEPT ![p] = FALSE]
  /\ current' = [current EXCEPT ![p] = NoBatch]
  /\ owned' = [owned EXCEPT ![p] = <<>>]
  /\ outcome' = Unanswered({p})
  /\ UNCHANGED <<disk, stable, faults>>

(* What was synced is kept; of the rest each file and each directory entry *)
(* independently is kept or lost, and the tail of the ledger may be torn.  *)
LedgerAfterLoss ==
  LET kept == {SubSeq(disk.ledger, 1, n) : n \in Len(stable.ledger)..Len(disk.ledger)}
  IN  kept \cup {Append(l, Torn) : l \in {k \in kept : Len(k) < Len(disk.ledger)}}

PowerLoss ==
  /\ MayCrash
  /\ \E l \in LedgerAfterLoss,
        m \in {stable.manifest, disk.manifest},
        k \in {stable.lock, disk.lock},
        lost \in SUBSET {f \in Files : disk.files[f] # stable.files[f]} :
       LET left == [ledger |-> l, manifest |-> m, lock |-> k,
                    files |-> [f \in Files |-> IF f \in lost THEN stable.files[f]
                                                             ELSE disk.files[f]]]
       IN  disk' = left /\ stable' = left
  /\ session' = [p \in Procs |-> "none"]
  /\ pc' = [p \in Procs |-> "idle"]
  /\ captured' = [p \in Procs |-> <<>>]
  /\ poisoned' = [p \in Procs |-> FALSE]
  /\ current' = [p \in Procs |-> NoBatch]
  /\ owned' = [p \in Procs |-> <<>>]
  /\ outcome' = Unanswered(Procs)
  /\ UNCHANGED faults

(* Nothing in src/ removes a lock another process left: somebody does it   *)
(* by hand, after checking (or not: OperatorErrs) that no session has it.  *)
OperatorRemovesLock ==
  /\ disk.lock # NoLock
  /\ OperatorErrs \/ ~InSession(disk.lock)
  /\ disk' = [disk EXCEPT !.lock = NoLock]
  /\ UNCHANGED <<stable, session, pc, commitVars, faults, crashes>>

-----------------------------------------------------------------------------
(* The steps a running process takes by itself, and those that fail.       *)
Proceed(p) ==
  \/ CaptureManifest(p) \/ CaptureRefused(p)
  \/ SyncLock(p)
  \/ PersistCreate(p) \/ PersistWrite(p) \/ PersistCreateFails(p)
  \/ Revalidate(p) \/ RevalidateFails(p)
  \/ CleanupFile(p) \/ CleanupEnds(p)
  \/ AppendBatch(p) \/ SyncLedger(p) \/ WriteTemp(p) \/ Publish(p)
  \/ SyncRoot(p) \/ Confirm(p) \/ Unconfirmed(p)
  \/ Close(p) \/ Unlink(p) \/ SyncUnlink(p)

CallFails(p) ==
  \/ OpenFails(p) \/ PersistWriteFails(p) \/ CleanupFileFails(p)
  \/ AppendOpenFails(p) \/ AppendFails(p) \/ WriteTempFails(p)
  \/ FailsAfterAppend(p) \/ CloseFails(p)

CallerActs(p) ==
  \/ CaptureLedger(p) \/ Forget(p) \/ CreateLock(p)
  \/ \E b \in Batches : Admit(p, b) \/ Refuse(p, b)

Next ==
  \/ \E p \in Procs : Proceed(p) \/ CallFails(p) \/ CallerActs(p) \/ Crash(p)
  \/ PowerLoss
  \/ OperatorRemovesLock

Spec == Init /\ [][Next]_vars

(* A running process gets an answer to every call and closes the session   *)
(* it opened: the session writers close in a finally block.                *)
FairSpec == Spec /\ \A p \in Procs : WF_vars(Proceed(p))

-----------------------------------------------------------------------------
(* Correctness                                                             *)

(* Two sessions on the same run directory are never open at once: whoever  *)
(* is between opening and unlinking owns the lock file (O_EXCL, l.1178;    *)
(* close unlinks only its own, l.1976-1981).  It says nothing of a commit  *)
(* that goes on after the close of its session has unlinked the lock.      *)
LockExclusion == \A p \in Procs : InSession(p) => disk.lock = p

(* A batch the caller was told is COMMITTED is in the ledger and in the    *)
(* manifest, on the disk and in what survives a power loss, forever; one   *)
(* it was told is NOT_COMMITTED has left no byte in either: that is only   *)
(* answered before the append (l.1417-1420, l.1941-1954).                  *)
OutcomesAreDurable ==
  \A b \in Batches, dir \in {disk, stable} :
    /\ outcome[b] = "COMMITTED" => b \in ToSet(dir.ledger) /\ b \in ToSet(dir.manifest)
    /\ outcome[b] \in {"unissued", "NOT_COMMITTED"} =>
         b \notin ToSet(dir.ledger) /\ b \notin ToSet(dir.manifest)

(* Whatever a power loss keeps, the manifest never describes events that   *)
(* the ledger has lost, and the ledger names no summary or revocation file *)
(* that is not complete: artifacts are synced before the ledger is         *)
(* appended to, and it before the manifest is renamed over the old one.    *)
SyncedInOrder ==
  /\ IsPrefix(disk.manifest, stable.ledger) /\ IsPrefix(stable.manifest, stable.ledger)
  /\ \A f \in ArtifactsIn(disk.ledger) :
       disk.files[f] = "whole" /\ stable.files[f] = "whole"

(* One writer per run: the ledger grows only from the state the appending  *)
(* process captured, and only when the manifest describes all of it.  The  *)
(* code does not keep to it: a commit that the close of its own session    *)
(* overtakes appends beside the commit of the next session.                *)
AppendsToCaptured ==
  [][\A p \in Procs :
       pc[p] = "append" /\ disk.ledger' # disk.ledger /\ pc'[p] # "append"
       => disk.ledger = captured[p] /\ disk.manifest = captured[p]]_vars

(* Cleanup deletes only files its own commit created, and only before the  *)
(* append: a file an event that the manifest describes names is never      *)
(* removed, by a failed commit that names it too or by its own.            *)
NamedFilesStay ==
  [][\A f \in ArtifactsIn(disk.manifest) : disk.files'[f] = "whole"]_vars

(* A process that opened a session ends it, unless it crashes: every call  *)
(* of the commit functions answers and the writers close in finally.       *)
SessionEnds == \A p \in Procs : InSession(p) ~> ~InSession(p)

-----------------------------------------------------------------------------
(* Refinement: the manifest is what a reader of the directory trusts, and  *)
(* a writer has seen the ledger that its store has captured.               *)
BaseOf(b) == IF \E p \in Procs : current[p] = b
             THEN captured[CHOOSE p \in Procs : current[p] = b]
             ELSE <<>>

AbstractLog == INSTANCE DurableLog
  WITH log    <- disk.manifest,
       base   <- [b \in Batches |-> BaseOf(b)],
       status <- outcome

(* The run directory is a log that batches extend one at a time, each on   *)
(* top of what its writer had seen: the append, the syncs and the rename   *)
(* of the manifest amount to one step, whatever fails in between.          *)
ImplementsDurableLog == AbstractLog!LogSpec

=============================================================================

---------------------------- MODULE AdvisoryLock ----------------------------
(***************************************************************************)
(* The advisory file lock of src/src/lock.ts: acquireLock links a holder   *)
(* record into place, and steals the lock file by renaming over it when    *)
(* the record it has read is missing or stale; release unlinks the file    *)
(* when it still holds the caller's record.  Every file system call is a   *)
(* step of its own.                                                        *)
(***************************************************************************)
EXTENDS Integers, FiniteSets

CONSTANTS
  Procs,        \* processes, each with its own pid
  NoLock,       \* the lock file is absent
  StaleMs,      \* age from which a record is stale
  MaxTime,      \* bound on the clock
  MaxAttempts   \* bound on the calls of acquireLock by one process

ASSUME LockAssumption ==
  /\ NoLock \notin [pid : Procs, acquired_at : Nat]
  /\ StaleMs \in Nat
  /\ MaxTime \in Nat
  /\ MaxAttempts \in Nat

VARIABLES
  lock,      \* the record in the lock file
  lpc,       \* where each process is in acquireLock and release
  info,      \* the record each process acquires with
  seen,      \* the holder record it has read
  alive,     \* processes that have not exited
  clock,
  attempts

lockVars == <<lock, lpc, info, seen, alive, clock, attempts>>

LockInit ==
  /\ lock = NoLock
  /\ lpc = [p \in Procs |-> "idle"]
  /\ info = [p \in Procs |-> [pid |-> p, acquired_at |-> 0]]
  /\ seen = [p \in Procs |-> NoLock]
  /\ alive = Procs
  /\ clock = 0
  /\ attempts = [p \in Procs |-> 0]

At(p, place) == p \in alive /\ lpc[p] = place

Move(p, place) == lpc' = [lpc EXCEPT ![p] = place]

-----------------------------------------------------------------------------
(* acquireLock                                                             *)

StartAcquire(p) ==
  /\ At(p, "idle")
  /\ attempts[p] < MaxAttempts
  /\ attempts' = [attempts EXCEPT ![p] = @ + 1]
  /\ info' = [info EXCEPT ![p].acquired_at = clock]
  /\ Move(p, "linking")
  /\ UNCHANGED <<lock, seen, alive, clock>>

(* link() is atomic: it creates the file with its record, or fails.        *)
Link(p) ==
  /\ At(p, "linking")
  /\ IF lock = NoLock
     THEN lock' = info[p] /\ Move(p, "held")
     ELSE UNCHANGED lock /\ Move(p, "contending")
  /\ UNCHANGED <<info, seen, alive, clock, attempts>>

(* A file that has gone in the meantime reads as no record.                *)
ReadHolder(p) ==
  /\ At(p, "contending")
  /\ seen' = [seen EXCEPT ![p] = lock]
  /\ Move(p, "deciding")
  /\ UNCHANGED <<lock, info, alive, clock, attempts>>

IsStale(record, p) ==
  \/ record = NoLock
  \/ clock - record.acquired_at > StaleMs
  \/ record.pid # p /\ record.pid \notin alive

(* Mutant: a lock that is held is always stolen.                           *)
DecideAlwaysSteals(p) ==
  /\ At(p, "deciding")
  /\ Move(p, "stealing")
  /\ UNCHANGED <<lock, info, seen, alive, clock, attempts>>

(* LockHeldError when the record read is fresh and its process is alive.   *)
Decide(p) ==
  /\ At(p, "deciding")
  /\ Move(p, IF IsStale(seen[p], p) THEN "stealing" ELSE "idle")
  /\ UNCHANGED <<lock, info, seen, alive, clock, attempts>>

(* rename() replaces whatever is there now.                                *)
Steal(p) ==
  /\ At(p, "stealing")
  /\ lock' = info[p]
  /\ Move(p, "confirming")
  /\ UNCHANGED <<info, seen, alive, clock, attempts>>

ConfirmSteal(p) ==
  /\ At(p, "confirming")
  /\ Move(p, IF lock = info[p] THEN "held" ELSE "idle")
  /\ UNCHANGED <<lock, info, seen, alive, clock, attempts>>

-----------------------------------------------------------------------------
(* release: the record is read, then the path is unlinked                  *)

StartRelease(p) ==
  /\ At(p, "held")
  /\ Move(p, IF lock = info[p] THEN "unlinking" ELSE "idle")
  /\ UNCHANGED <<lock, info, seen, alive, clock, attempts>>

Unlink(p) ==
  /\ At(p, "unlinking")
  /\ lock' = NoLock
  /\ Move(p, "idle")
  /\ UNCHANGED <<info, seen, alive, clock, attempts>>

-----------------------------------------------------------------------------
Die(p) ==
  /\ p \in alive
  /\ alive' = alive \ {p}
  /\ UNCHANGED <<lock, lpc, info, seen, clock, attempts>>

Tick ==
  /\ clock < MaxTime
  /\ clock' = clock + 1
  /\ UNCHANGED <<lock, lpc, info, seen, alive, attempts>>

AcquireStep(p) ==
  \/ Link(p) \/ ReadHolder(p) \/ Decide(p) \/ Steal(p) \/ ConfirmSteal(p)

LockNext ==
  \/ \E p \in Procs : StartAcquire(p) \/ AcquireStep(p) \/ StartRelease(p)
                      \/ Unlink(p) \/ Die(p)
  \/ Tick

LockSpec == LockInit /\ [][LockNext]_lockVars

-----------------------------------------------------------------------------
Holders == {p \in alive : lpc[p] = "held"}

(* The protected function of withLock never runs in two processes at once, *)
(* and while it runs the lock file holds the record of its process.        *)
HolderKeepsLock == \A p \in Holders : lock = info[p]

(* "If two processes steal the same stale lock, exactly one wins the       *)
(* rename ... No double-hold" (src/src/lock.ts:15-17).                     *)
NoDoubleHold == \A p, q \in Holders : p = q
=============================================================================

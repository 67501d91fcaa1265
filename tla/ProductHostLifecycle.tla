------------------------- MODULE ProductHostLifecycle -------------------------
(***************************************************************************)
(* Custody of the product host's anchor                                    *)
(* (run/s37-product-host-lifecycle-v03.ts).  An authorized mutation        *)
(* installs the first anchor or replaces the current one by its successor: *)
(* it creates the transition lock exclusively, compares the anchor on the  *)
(* disk with the one it was authorized against, writes PREPARING, the      *)
(* anchor and STABLE, each by a temporary file, a rename and a sync of the *)
(* directory, reads them back, removes its lock and looks once more.  An   *)
(* observer reads the lifecycle, the anchor and the lifecycle again, with  *)
(* the lock absent before and after.                                       *)
(*                                                                         *)
(* Several processes run these calls on the same directory.  Any call can  *)
(* fail, a process can die, the host can lose power and with it the names  *)
(* that were not synced.  No code removes a lock that was left behind: the *)
(* custody then is shut.  What a file holds is known by its name: anchors  *)
(* name themselves by their hash.  A temporary file bears the hash of the  *)
(* lock, so it is in the way of nobody, and is left out.                   *)
(***************************************************************************)
EXTENDS Naturals, Sequences

CONSTANTS
  Procs,       \* processes that mutate or observe the custody
  Anchors,     \* the anchors mutations are authorized for
  Generation,  \* the generation an anchor says it has
  Predecessor, \* the anchor it says it succeeds
  Free,        \* the transition lock is absent
  Absent,      \* there is no anchor
  MaxFailures  \* bound on failing calls, crashes and power losses

(* An installation is of generation 1 and succeeds nothing; a transition   *)
(* succeeds something.                                                     *)
Authorized(a) == Generation[a] = 1 <=> Predecessor[a] = Absent

ASSUME LifecycleAssumption ==
  /\ Free \notin Procs /\ Absent \notin Anchors
  /\ Generation \in [Anchors -> Nat \ {0}]
  /\ Predecessor \in [Anchors -> Anchors \cup {Absent}]
  /\ \A a \in Anchors : Authorized(a)
  /\ MaxFailures \in Nat

VARIABLES
  files,    \* the three files, as every process sees them
  durable,  \* what a power loss leaves of them
  proc,     \* where each process is in its call, and what it has read (history: base, wrote)
  chain,    \* history: the anchors that have been durably STABLE, in order
  failures

vars == <<files, durable, proc, chain, failures>>

Record(status, a) == [status |-> status, anchor |-> a]
NoRecord == Record("absent", Absent)
Empty == [lock |-> Free, lifecycle |-> NoRecord, anchor |-> Absent]

IdleProc == [pc |-> "idle", op |-> "none", anchor |-> Absent, stage |-> "PREPARING", base |-> 0,
             wrote |-> FALSE, answer |-> "none", first |-> NoRecord, seen |-> Absent]

Init ==
  /\ files = Empty /\ durable = Empty
  /\ proc = [p \in Procs |-> IdleProc]
  /\ chain = <<>>
  /\ failures = 0

(* The anchor a STABLE record is about, read before and after the anchor.  *)
Coherent(first, anchor, second) ==
  first = second /\ first = Record("STABLE", anchor)

Uninstalled(first, anchor, second) ==
  first = NoRecord /\ anchor = Absent /\ second = NoRecord

(* The directory is synced.                                                *)
Persist(f) ==
  /\ durable' = f
  /\ chain' = IF f.lifecycle.status = "STABLE" /\ (\A i \in 1 .. Len(chain) : chain[i] # f.lifecycle.anchor)
              THEN Append(chain, f.lifecycle.anchor)
              ELSE chain

Goto(p, pc) == proc' = [proc EXCEPT ![p].pc = pc]
Ends(p, answer) ==
  proc' = [proc EXCEPT ![p].pc = "done", ![p].answer = answer, ![p].stage = "PREPARING",
                       ![p].first = NoRecord]

-----------------------------------------------------------------------------
(* Mutation.                                                               *)

(* Mutant: the lock file is opened, whether or not it exists.              *)
CreateLockShared(p, a) ==
  /\ proc[p].pc = "idle"
  /\ files' = [files EXCEPT !.lock = p]
  /\ proc' = [proc EXCEPT ![p] = [IdleProc EXCEPT !.pc = "locking", !.op = "mutate", !.anchor = a,
                                                  !.base = Len(chain)]]
  /\ UNCHANGED <<durable, chain, failures>>

CreateLock(p, a) ==
  /\ proc[p].pc = "idle"
  /\ files.lock = Free
  /\ files' = [files EXCEPT !.lock = p]
  /\ proc' = [proc EXCEPT ![p] = [IdleProc EXCEPT !.pc = "locking", !.op = "mutate", !.anchor = a,
                                                  !.base = Len(chain)]]
  /\ UNCHANGED <<durable, chain, failures>>

(* The directory cannot be trusted, for one because another mutation       *)
(* changes it between the two looks at it: the answer is that of a failed  *)
(* comparison, and nothing was compared.                                   *)
ParentUntrusted(p, a) ==
  /\ proc[p].pc = "idle"
  /\ proc' = [proc EXCEPT ![p] = [IdleProc EXCEPT !.pc = "done", !.op = "mutate", !.anchor = a,
                                                  !.base = Len(chain), !.answer = "HOLD_PRECONDITION"]]
  /\ UNCHANGED <<files, durable, chain, failures>>

LockExists(p, a) ==
  /\ proc[p].pc = "idle"
  /\ files.lock # Free
  /\ proc' = [proc EXCEPT ![p] = [IdleProc EXCEPT !.pc = "done", !.op = "mutate", !.anchor = a,
                                                  !.base = Len(chain),
                                                  !.answer = "HOLD_CONCURRENT_TRANSITION"]]
  /\ UNCHANGED <<files, durable, chain, failures>>

(* The lock is synced and read back.                                       *)
SyncLock(p) ==
  /\ proc[p].pc = "locking" /\ files.lock = p
  /\ Persist(files)
  /\ Goto(p, "examine")
  /\ UNCHANGED <<files, failures>>

(* Mutant: the generation is checked, but not the predecessor.             *)
SucceedsByNumber(a, f) ==
  IF Generation[a] = 1 THEN f.anchor = Absent
  ELSE f.anchor # Absent /\ Generation[a] = Generation[f.anchor] + 1

(* Compare and swap: the mutation was authorized against this very anchor. *)
Succeeds(a, f) ==
  IF Generation[a] = 1 THEN f.anchor = Absent
  ELSE f.anchor # Absent /\ Predecessor[a] = f.anchor /\ Generation[a] = Generation[f.anchor] + 1

Custodial(a, f) ==
  \/ Coherent(f.lifecycle, f.anchor, f.lifecycle)
  \/ Generation[a] = 1 /\ Uninstalled(f.lifecycle, f.anchor, f.lifecycle)

(* Nobody else writes the files under the lock: the reads are one step.    *)
Examine(p) ==
  LET a == proc[p].anchor IN
  /\ proc[p].pc = "examine"
  /\ \/ /\ ~Custodial(a, files)
        /\ Ends(p, "RECOVERY_REQUIRED")
     \/ /\ Custodial(a, files) /\ Succeeds(a, files)
        /\ Goto(p, "replace")
     \/ /\ Custodial(a, files) /\ ~Succeeds(a, files)
        /\ proc' = [proc EXCEPT ![p].pc = "unlink", ![p].answer = "HOLD_PRECONDITION"]
  /\ UNCHANGED <<files, durable, chain, failures>>

(* The records to write cannot be built: the lock stays behind.            *)
Unbuildable(p) ==
  /\ failures < MaxFailures
  /\ proc[p].pc = "replace" /\ proc[p].stage = "PREPARING"
  /\ Ends(p, "HOLD_PRECONDITION")
  /\ failures' = failures + 1
  /\ UNCHANGED <<files, durable, chain>>

Replacement(f, stage, a) ==
  CASE stage = "anchor" -> [f EXCEPT !.anchor = a]
    [] OTHER -> [f EXCEPT !.lifecycle = Record(stage, a)]

Replace(p) ==
  /\ proc[p].pc = "replace"
  /\ files' = Replacement(files, proc[p].stage, proc[p].anchor)
  /\ proc' = [proc EXCEPT ![p].pc = "sync", ![p].wrote = TRUE]
  /\ UNCHANGED <<durable, chain, failures>>

SyncReplaced(p) ==
  LET next == [PREPARING |-> "anchor", anchor |-> "STABLE", STABLE |-> "STABLE"] IN
  /\ proc[p].pc = "sync"
  /\ Persist(files)
  /\ proc' = [proc EXCEPT ![p].pc = IF proc[p].stage = "STABLE" THEN "confirm" ELSE "replace",
                          ![p].stage = next[@]]
  /\ UNCHANGED <<files, failures>>

Confirm(p) ==
  LET a == proc[p].anchor
      outcome == IF Generation[a] = 1 THEN "INSTALLED" ELSE "TRANSITIONED"
  IN  /\ proc[p].pc = "confirm"
      /\ IF Coherent(files.lifecycle, files.anchor, files.lifecycle) /\ files.anchor = a
         THEN proc' = [proc EXCEPT ![p].pc = "unlink", ![p].answer = outcome]
         ELSE Ends(p, "OUTCOME_UNKNOWN")
      /\ UNCHANGED <<files, durable, chain, failures>>

Unlink(p) ==
  /\ proc[p].pc = "unlink" /\ files.lock = p
  /\ files' = [files EXCEPT !.lock = Free]
  /\ Goto(p, "sync-unlink")
  /\ UNCHANGED <<durable, chain, failures>>

SyncUnlink(p) ==
  /\ proc[p].pc = "sync-unlink"
  /\ Persist(files)
  /\ Goto(p, "released")
  /\ UNCHANGED <<files, failures>>

(* Another mutation may have taken the lock already: then this one cannot  *)
(* tell that it removed its own.                                           *)
CheckReleased(p) ==
  /\ proc[p].pc = "released"
  /\ IF files.lock # Free THEN Ends(p, "OUTCOME_UNKNOWN")
     ELSE IF proc[p].answer = "HOLD_PRECONDITION" THEN Ends(p, "HOLD_PRECONDITION")
     ELSE Goto(p, "look")
  /\ UNCHANGED <<files, durable, chain, failures>>

-----------------------------------------------------------------------------
(* Observation, by itself, as the last step of a mutation, and as what     *)
(* reconciliation consists of.                                             *)

Unobserved(p) ==
  CASE proc[p].op = "mutate" -> "OUTCOME_UNKNOWN"
    [] proc[p].op = "reconcile" -> "RECOVERY_REQUIRED"
    [] OTHER -> "ENFORCEMENT_UNAVAILABLE"

StartObserving(p, op) ==
  /\ proc[p].pc = "idle"
  /\ proc' = [proc EXCEPT ![p] = [IdleProc EXCEPT !.pc = "look", !.op = op, !.base = Len(chain)]]
  /\ UNCHANGED <<files, durable, chain, failures>>

LookForLock(p) ==
  /\ proc[p].pc = "look"
  /\ IF files.lock = Free THEN Goto(p, "first") ELSE Ends(p, Unobserved(p))
  /\ UNCHANGED <<files, durable, chain, failures>>

ReadFirst(p) ==
  /\ proc[p].pc = "first"
  /\ proc' = [proc EXCEPT ![p].pc = "anchor", ![p].first = files.lifecycle]
  /\ UNCHANGED <<files, durable, chain, failures>>

ReadAnchor(p) ==
  /\ proc[p].pc = "anchor"
  /\ proc' = [proc EXCEPT ![p].pc = "second", ![p].seen = files.anchor]
  /\ UNCHANGED <<files, durable, chain, failures>>

ReadSecond(p) ==
  /\ proc[p].pc = "second"
  /\ IF files.lifecycle = proc[p].first THEN Goto(p, "look-again") ELSE Ends(p, Unobserved(p))
  /\ UNCHANGED <<files, durable, chain, failures>>

Observed(p) ==
  LET first == proc[p].first  anchor == proc[p].seen IN
  IF proc[p].op = "mutate"
  THEN IF Coherent(first, anchor, first) /\ anchor = proc[p].anchor
       THEN proc[p].answer ELSE "OUTCOME_UNKNOWN"
  ELSE IF Uninstalled(first, anchor, first) THEN "UNINSTALLED"
  ELSE IF Coherent(first, anchor, first) THEN "STABLE"
  ELSE Unobserved(p)

(* Mutant: the lock is not looked for a second time.                       *)
LookAgainNever(p) ==
  /\ proc[p].pc = "look-again"
  /\ Ends(p, Observed(p))
  /\ UNCHANGED <<files, durable, chain, failures>>

LookAgain(p) ==
  /\ proc[p].pc = "look-again"
  /\ Ends(p, IF files.lock = Free THEN Observed(p) ELSE Unobserved(p))
  /\ UNCHANGED <<files, durable, chain, failures>>

(* Whoever has no lock sees the directory change under its hands when      *)
(* another process mutates: what it reads is not to be trusted.            *)
Disturbed(p) ==
  /\ proc[p].pc \in {"released", "look", "first", "anchor", "second", "look-again"}
  /\ Ends(p, Unobserved(p))
  /\ UNCHANGED <<files, durable, chain, failures>>

Return(p) ==
  /\ proc[p].pc = "done"
  /\ proc' = [proc EXCEPT ![p] = IdleProc]
  /\ UNCHANGED <<files, durable, chain, failures>>

-----------------------------------------------------------------------------
(* Failures.                                                               *)

(* The lock file is created, but not written whole.                        *)
LockFails(p, a) ==
  /\ failures < MaxFailures
  /\ proc[p].pc = "idle" /\ files.lock = Free
  /\ files' = [files EXCEPT !.lock = p]
  /\ proc' = [proc EXCEPT ![p] = [IdleProc EXCEPT !.pc = "done", !.op = "mutate", !.anchor = a,
                                                  !.base = Len(chain), !.answer = "OUTCOME_UNKNOWN"]]
  /\ failures' = failures + 1
  /\ UNCHANGED <<durable, chain>>

(* Mutant: every call that fails is taken for one of the examination.      *)
CallFailsRefused(p) ==
  /\ failures < MaxFailures
  /\ proc[p].pc \in {"locking", "examine", "replace", "sync", "confirm", "unlink", "sync-unlink"}
  /\ Ends(p, "RECOVERY_REQUIRED")
  /\ failures' = failures + 1
  /\ UNCHANGED <<files, durable, chain>>

(* A call of a mutation fails, or reads what it cannot make sense of.      *)
CallFails(p) ==
  /\ failures < MaxFailures
  /\ proc[p].pc \in {"locking", "examine", "replace", "sync", "confirm", "unlink", "sync-unlink"}
  /\ Ends(p, IF proc[p].pc = "examine" THEN "RECOVERY_REQUIRED" ELSE "OUTCOME_UNKNOWN")
  /\ failures' = failures + 1
  /\ UNCHANGED <<files, durable, chain>>

Crash(p) ==
  /\ failures < MaxFailures
  /\ proc[p].pc \notin {"idle", "done"}
  /\ proc' = [proc EXCEPT ![p] = IdleProc]
  /\ failures' = failures + 1
  /\ UNCHANGED <<files, durable, chain>>

(* Every name is found as it was, or as it was when last synced.           *)
PowerLoss ==
  /\ failures < MaxFailures
  /\ \E lock \in {files.lock, durable.lock},
        lifecycle \in {files.lifecycle, durable.lifecycle},
        anchor \in {files.anchor, durable.anchor} :
       /\ files' = [lock |-> lock, lifecycle |-> lifecycle, anchor |-> anchor]
       /\ Persist(files')
  /\ proc' = [p \in Procs |-> IdleProc]
  /\ failures' = failures + 1

-----------------------------------------------------------------------------
Mutate(p) ==
  \/ \E a \in Anchors : ParentUntrusted(p, a) \/ CreateLock(p, a) \/ LockExists(p, a) \/ LockFails(p, a)
  \/ SyncLock(p) \/ Examine(p) \/ Unbuildable(p) \/ Replace(p) \/ SyncReplaced(p) \/ Confirm(p)
  \/ Unlink(p) \/ SyncUnlink(p) \/ CheckReleased(p)

Observe(p) ==
  \/ \E op \in {"observe", "reconcile"} : StartObserving(p, op)
  \/ LookForLock(p) \/ ReadFirst(p) \/ ReadAnchor(p) \/ ReadSecond(p) \/ LookAgain(p) \/ Disturbed(p)

Next ==
  \/ PowerLoss
  \/ \E p \in Procs : Mutate(p) \/ Observe(p) \/ Return(p) \/ CallFails(p) \/ Crash(p)

LifecycleSpec == Init /\ [][Next]_vars

-----------------------------------------------------------------------------
Whole(f) ==
  Uninstalled(f.lifecycle, f.anchor, f.lifecycle) \/ Coherent(f.lifecycle, f.anchor, f.lifecycle)

(* Where there is no lock, the custody is whole: nothing is installed, or  *)
(* the lifecycle is STABLE about the anchor that is there.  This is so of  *)
(* what a power loss leaves, too: the lock outlives what it guards.        *)
UnlockedIsWhole ==
  /\ files.lock = Free => Whole(files)
  /\ durable.lock = Free => Whole(durable)

(* The anchors that were ever stable form one chain: each generation has   *)
(* one anchor, which names the one before it as its predecessor ("exactly  *)
(* generation plus one").                                                  *)
ChainIsLinear ==
  \A i \in 1 .. Len(chain) :
    /\ Generation[chain[i]] = i
    /\ i > 1 => Predecessor[chain[i]] = chain[i - 1]

Refusals == {"HOLD_PRECONDITION", "HOLD_CONCURRENT_TRANSITION", "RECOVERY_REQUIRED"}

(* A mutation that reports success is durable, and one that reports a      *)
(* refusal, whether or not it came to a comparison and to a lock, has put  *)
(* neither a record nor its anchor in place: its caller may try again.     *)
OutcomesTruthful ==
  \A p \in Procs :
    LET c == proc[p] IN
    c.pc = "done" /\ c.op = "mutate" =>
      /\ c.answer \in {"INSTALLED", "TRANSITIONED"} =>
           Generation[c.anchor] <= Len(chain) /\ chain[Generation[c.anchor]] = c.anchor
      /\ c.answer \in Refusals => ~c.wrote

(* What is observed holds no temporary state of a mutation, is durable,    *)
(* and is not older than the observation.                                  *)
ObservationsCurrent ==
  \A p \in Procs :
    LET c == proc[p] IN
    c.pc = "done" =>
      /\ c.answer = "STABLE" =>
           /\ Generation[c.seen] \in c.base .. Len(chain)
           /\ chain[Generation[c.seen]] = c.seen
      /\ c.answer = "UNINSTALLED" => c.base = 0
=============================================================================

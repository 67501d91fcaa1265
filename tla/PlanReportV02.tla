---------------------------- MODULE PlanReportV02 ----------------------------
(***************************************************************************)
(* The directory of a V02 planned run.  Planners write its members, the    *)
(* resolved plan last (writeV02PlannedRunOutputs).  `report build` then    *)
(* captures the plan, and replaces the set of three report files           *)
(* (replacePlanReportProjectionSetV02): a lock file names the set that was *)
(* there before, the target and three temporary names; the temporaries are *)
(* staged one after the other, renamed one after the other, and the lock   *)
(* is removed.  What is done next is read off the directory each time, so  *)
(* that a later build can finish the work of a writer that has died.       *)
(*                                                                         *)
(* Every builder is a process, which can fail at each call, die, or go     *)
(* down with the machine.  Of the operations on the directory that were    *)
(* not synced a power loss keeps a first part; what was written to a file  *)
(* that was synced stays in it.                                            *)
(*                                                                         *)
(* Nothing keeps two builds from taking over from one dead writer at once. *)
(* Each then acts on what it has read of a directory that the other has    *)
(* changed since.  Spec has all of that; LoneSpec is Spec but for it.      *)
(***************************************************************************)
EXTENDS Naturals, Sequences, FiniteSets

CONSTANTS
  Planners,     \* processes that were given the same run id
  Builders,     \* processes that run report build once
  Generations,  \* what the installed renderers make of the plan
  Generation,   \* the generation each builder would build
  None,
  MaxFaults     \* bound: how many calls fail, and power losses there are

ASSUME ReportAssumption ==
  /\ Generation \in [Builders -> Generations]
  /\ None \notin Generations \cup Builders \cup Planners
  /\ Generations \cap Builders = {}
  /\ MaxFaults \in Nat

VARIABLES
  disk,       \* the run directory as every process sees it
  survivors,  \* the directories a power loss may leave
  plan,       \* where each planner is
  build,      \* where each builder is, and what it knows
  faults

vars == <<disk, survivors, plan, build, faults>>

(* Mutant: the resolved plan is written first.                             *)
PlanWrittenFirst == <<"plan", "members", "loop">>

(* The members of a plan are alike but for two: the resolved plan, and the *)
(* generated loop, whose copy in the run directory nothing else vouches    *)
(* for.  The others stand as "members".                                    *)
PlannedRunMembers == <<"members", "loop", "plan">>

Core == {"members", "loop", "plan"}

(* REPORT_NAMES: 1 is plan-report.md, 2 plan-report.html, 3 the input, by  *)
(* which the other two are recognized.                                     *)
Reports == 1 .. 3

(* What is in a file: what the renderers made, or what builder b has       *)
(* written of it so far; None is that there is no file.                    *)
Contents == Generations \cup Builders \cup {None}

(* "accurate" is history: the set that the lock names was still there.     *)
Locks ==
  [owner : Builders, whole : BOOLEAN, target : Generations,
   before : [Reports -> Contents], accurate : BOOLEAN]

ASSUME NoneIsNoLock == None \notin Locks

EmptyDirectory ==
  [made |-> FALSE, core |-> [m \in Core |-> "absent"], lock |-> None,
   temps |-> [b \in Builders |-> [i \in Reports |-> None]], reports |-> [i \in Reports |-> None]]

Unseen == EmptyDirectory.reports

Fresh ==
  [pc |-> "idle", loop |-> "absent", seen |-> Unseen, todo |-> Reports, at |-> 1,
   lock |-> None, answer |-> "none"]

Init ==
  /\ disk = EmptyDirectory
  /\ survivors = {EmptyDirectory}
  /\ plan = [k \in Planners |-> [pc |-> "idle", done |-> 0, answer |-> "none"]]
  /\ build = [b \in Builders |-> Fresh]
  /\ faults = 0

-----------------------------------------------------------------------------
(* A change of the directory, which the next sync makes last.              *)
Change(d) == disk' = d /\ survivors' = survivors \cup {d}

(* What is written to a file and synced is in it wherever the file is.     *)
Write(Into(_)) == disk' = Into(disk) /\ survivors' = {Into(d) : d \in survivors}

SyncDirectory == survivors' = {disk} /\ UNCHANGED disk

-----------------------------------------------------------------------------
(* Planned runs                                                            *)

Planner(k, pc, done, answer) == plan' = [plan EXCEPT ![k] = [pc |-> pc, done |-> done, answer |-> answer]]

(* Run ids are random: one that exists is given up for another, a limited  *)
(* number of times (PLAN_ID_ATTEMPTS), and this directory is left alone.   *)
Allocate(k) ==
  /\ plan[k].pc = "idle"
  /\ IF disk.made
     THEN Planner(k, "done", 0, "DESTINATION_EXISTS") /\ UNCHANGED <<disk, survivors>>
     ELSE Change([disk EXCEPT !.made = TRUE]) /\ Planner(k, "reserve", 0, "none")
  /\ UNCHANGED <<build, faults>>

(* All members are created before one is written.                          *)
Reserve(k) ==
  /\ plan[k].pc = "reserve"
  /\ LET n == plan[k].done + 1 IN
     /\ Change([disk EXCEPT !.core[PlannedRunMembers[n]] = "empty"])
     /\ IF n = Len(PlannedRunMembers) THEN Planner(k, "write", 0, "none") ELSE Planner(k, "reserve", n, "none")
  /\ UNCHANGED <<build, faults>>

WithMember(d, m) == IF d.core[m] = "absent" THEN d ELSE [d EXCEPT !.core[m] = "whole"]

WriteMember(k) ==
  /\ plan[k].pc = "write"
  /\ LET n == plan[k].done + 1
         m == PlannedRunMembers[n]
     IN /\ Write(LAMBDA d : WithMember(d, m))
        /\ Planner(k, IF n = Len(PlannedRunMembers) THEN "sync" ELSE "write", n, "none")
  /\ UNCHANGED <<build, faults>>

SyncRun(k) ==
  /\ plan[k].pc = "sync"
  /\ SyncDirectory
  /\ Planner(k, "done", 0, "ok")
  /\ UNCHANGED <<build, faults>>

(* Before any content was written the reservations are taken back, as far  *)
(* as that goes; after that, the directory is retained.                    *)
PlanFails(k) ==
  /\ plan[k].pc \in {"reserve", "write", "sync"} /\ faults < MaxFaults
  /\ \/ UNCHANGED <<disk, survivors>>
     \/ /\ plan[k].pc = "reserve"
        /\ \E made \in BOOLEAN : Change([EmptyDirectory EXCEPT !.made = made])
  /\ Planner(k, "done", 0, "IO_DURABILITY_UNCONFIRMED")
  /\ faults' = faults + 1
  /\ UNCHANGED <<build>>

PlannerDies(k) ==
  /\ plan[k].pc \in {"reserve", "write", "sync"}
  /\ Planner(k, "gone", 0, "none")
  /\ UNCHANGED <<disk, survivors, build, faults>>

-----------------------------------------------------------------------------
(* Who may find what in the directory                                      *)

Entries(d) == {e \in Builders \X Reports : d.temps[e[1]][e[2]] # None}

CoreIsThere(d) == \A m \in Core : d.core[m] # "absent"

(* isReportWriterCaptureLayout: its pattern of temporary names has         *)
(* "plan-report.input.json", and so none of the input's.                   *)
ReportWriterLayout(d) ==
  /\ CoreIsThere(d)
  /\ \A e \in Entries(d) : e[2] # 3
  /\ Cardinality(Entries(d)) <= 3

(* classifyV02PlannedDirectory, and what report open makes of it.          *)
OpenDecision(d) ==
  IF ~CoreIsThere(d) \/ d.lock # None \/ Entries(d) # {} THEN "V02_RUN_LAYOUT_CONTAMINATED"
  ELSE IF \A i \in Reports : d.reports[i] = None THEN "PLAN_REPORT_NOT_BUILT"
  ELSE IF \E i \in Reports : d.reports[i] = None THEN "V02_RUN_LAYOUT_CONTAMINATED"
  ELSE IF \E g \in Generations : \A i \in Reports : d.reports[i] = g THEN "ok"
  ELSE "PLAN_REPORT_GENERATION_INVALID"

-----------------------------------------------------------------------------
(* report build                                                            *)

Become(b, fields) ==
  build' = [build EXCEPT ![b] = [f \in DOMAIN Fresh |-> IF f \in DOMAIN fields THEN fields[f] ELSE @[f]]]

(* The process exits when it has answered.                                 *)
Answer(b, answer) == build' = [build EXCEPT ![b] = [Fresh EXCEPT !.pc = "done", !.answer = answer]]

At(b, pc) == build[b].pc = pc

Looks == UNCHANGED <<disk, survivors, plan, faults>>

(* Without a resolved plan the command builds a V01 report instead.        *)
List(b) ==
  /\ At(b, "idle") /\ disk.core["plan"] # "absent"
  /\ \A k \in Planners : plan[k].pc # "idle"   \* bound: planning comes first
  /\ IF ReportWriterLayout(disk) THEN Become(b, [pc |-> "plan"]) ELSE Answer(b, "V02_RUN_LAYOUT_CONTAMINATED")
  /\ Looks

ReadPlan(b) ==
  /\ At(b, "plan")
  /\ IF disk.core["plan"] = "whole" THEN Become(b, [pc |-> "members"]) ELSE Answer(b, "INVALID_V02_PLAN")
  /\ Looks

(* The plan holds the hash of the manifest; the loop is taken as it is.    *)
ReadMembers(b) ==
  /\ At(b, "members")
  /\ IF disk.core["members"] = "whole"
     THEN Become(b, [pc |-> "before", loop |-> disk.core["loop"]])
     ELSE Answer(b, "INVALID_RESOLVED_RUN_PLAN_DOCUMENT")
  /\ Looks

(* captureCommittedBefore: the three are hashed at once, in any order, and *)
(* there are all or none.                                                  *)
CaptureBefore(b) ==
  /\ At(b, "before")
  /\ \E i \in build[b].todo :
       LET seen == [build[b].seen EXCEPT ![i] = disk.reports[i]]
           todo == build[b].todo \ {i}
       IN IF todo # {} THEN Become(b, [seen |-> seen, todo |-> todo])
          ELSE IF (\E j \in Reports : seen[j] = None) /\ (\E j \in Reports : seen[j] # None)
          THEN Answer(b, "REPORT_BUILD_STALE_LOCK")
          ELSE Become(b, [pc |-> "lock", seen |-> seen, todo |-> {}])
  /\ Looks

(* The lock file is created, and then written.                             *)
CreateLock(b) ==
  /\ At(b, "lock")
  /\ IF disk.lock = None
     THEN /\ Change([disk EXCEPT !.lock =
               [owner |-> b, whole |-> FALSE, target |-> Generation[b], before |-> build[b].seen,
                accurate |-> build[b].seen = disk.reports]])
          /\ Become(b, [pc |-> "fill-lock", seen |-> Unseen])
     ELSE Become(b, [pc |-> "judge", seen |-> Unseen]) /\ UNCHANGED <<disk, survivors>>
  /\ UNCHANGED <<plan, faults>>

WithLock(d, b) == IF d.lock # None /\ d.lock.owner = b THEN [d EXCEPT !.lock.whole = TRUE] ELSE d

FillLock(b) ==
  /\ At(b, "fill-lock")
  /\ Write(LAMBDA d : WithLock(d, b))
  /\ Become(b, [pc |-> "capture"])
  /\ UNCHANGED <<plan, faults>>

(* What is found where the lock was made is taken for it.                  *)
CaptureLock(b) ==
  /\ At(b, "capture")
  /\ IF disk.lock # None /\ disk.lock.whole
     THEN Become(b, [pc |-> "work", lock |-> disk.lock])
     ELSE Answer(b, "IO_DURABILITY_UNCONFIRMED")
  /\ Looks

(* Another process that lives is never recognized: "ps" does not tell what *)
(* it wrote of itself (processStartIdentity).  Anybody may finish the work *)
(* of a dead one that had the same target.                                 *)
Judge(b) ==
  /\ At(b, "judge")
  /\ IF disk.lock # None /\ disk.lock.whole /\ disk.lock.target = Generation[b]
        /\ build[disk.lock.owner].pc \in {"done", "gone"}
     THEN Become(b, [pc |-> "work", lock |-> disk.lock])
     ELSE Answer(b, "REPORT_BUILD_STALE_LOCK")
  /\ Looks

(* classifyAndAdvance: what the directory shows of the work under lock l.  *)

(* Mutant: the set is taken for complete when its first file is.           *)
CompleteByFirst(d, l) == d.reports[1] = l.target

Complete(d, l) ==
  \A i \in Reports : d.reports[i] = l.target /\ d.temps[l.owner][i] = None

MayStage(d, l, i) ==
  /\ ~Complete(d, l)
  /\ d.reports = l.before
  /\ \A j \in Reports : d.temps[l.owner][j] = IF j < i THEN l.target ELSE None

MayRename(d, l, i) ==
  \A j \in Reports :
    IF j < i THEN d.reports[j] = l.target /\ d.temps[l.owner][j] = None
    ELSE d.reports[j] = l.before[j] /\ d.temps[l.owner][j] = l.target

(* Mutant: a temporary that is not whole is found again only when it is    *)
(* the first one.                                                          *)
MayRemoveFirst(d, l, i) ==
  /\ i = 1 /\ d.temps[l.owner][1] \notin {None, l.target}
  /\ d.reports = l.before
  /\ \A j \in Reports : j > 1 => d.temps[l.owner][j] = None

MayRemove(d, l, i) ==
  /\ d.temps[l.owner][i] \notin {None, l.target}
  /\ d.reports = l.before
  /\ \A j \in Reports :
       /\ j < i => d.temps[l.owner][j] = l.target
       /\ j > i => d.temps[l.owner][j] = None

Known(d, l) == \A e \in Entries(d) : e[1] = l.owner

Recognized(d, l) ==
  Complete(d, l) \/ \E i \in Reports : MayStage(d, l, i) \/ MayRename(d, l, i) \/ MayRemove(d, l, i)

Resumable(d, l) == Known(d, l) /\ Recognized(d, l)

(* The lock, the names and the reports are read, then the temporaries, and *)
(* then something is done about it: others can act in between.             *)
Inspect(b) ==
  /\ At(b, "work")
  /\ IF disk.lock = build[b].lock /\ Known(disk, build[b].lock)
     THEN Become(b, [pc |-> "classify", seen |-> disk.reports])
     ELSE Answer(b, "REPORT_BUILD_STALE_LOCK")
  /\ Looks

Classify(b) ==
  LET l == build[b].lock
      view == [disk EXCEPT !.reports = build[b].seen]
      Then(pc, i) == Become(b, [pc |-> pc, at |-> i, seen |-> Unseen])
  IN  /\ At(b, "classify")
      /\ \/ Complete(view, l) /\ Then("sync", 1)
         \/ \E i \in Reports :
              \/ MayStage(view, l, i) /\ Then("stage", i)
              \/ MayRename(view, l, i) /\ Then("rename", i)
              \/ MayRemove(view, l, i) /\ Then("remove", i)
         \/ ~Recognized(view, l) /\ Answer(b, "REPORT_BUILD_STALE_LOCK")
      /\ Looks

Temp(b) == disk.temps[build[b].lock.owner][build[b].at]
WithTemp(b, v) == [disk EXCEPT !.temps[build[b].lock.owner][build[b].at] = v]

(* The temporary is there already, or is there no more.                    *)
Misses(b) == Answer(b, "IO_DURABILITY_UNCONFIRMED") /\ UNCHANGED <<disk, survivors>>

Stage(b) ==
  /\ At(b, "stage")
  /\ IF Temp(b) = None THEN Change(WithTemp(b, b)) /\ Become(b, [pc |-> "fill", at |-> 1]) ELSE Misses(b)
  /\ UNCHANGED <<plan, faults>>

Rename(b) ==
  /\ At(b, "rename")
  /\ IF Temp(b) # None
     THEN /\ Change([WithTemp(b, None) EXCEPT !.reports[build[b].at] = Temp(b)])
          /\ Become(b, [pc |-> "work", at |-> 1])
     ELSE Misses(b)
  /\ UNCHANGED <<plan, faults>>

Remove(b) ==
  /\ At(b, "remove")
  /\ IF Temp(b) # None THEN Change(WithTemp(b, None)) /\ Become(b, [pc |-> "removed", at |-> 1]) ELSE Misses(b)
  /\ UNCHANGED <<plan, faults>>

(* The file b has open, wherever it is by now.                             *)
WithContent(d, b) ==
  LET Full(v) == IF v = b THEN Generation[b] ELSE v IN
  [d EXCEPT !.temps = [o \in Builders |-> [i \in Reports |-> Full(d.temps[o][i])]],
            !.reports = [i \in Reports |-> Full(d.reports[i])]]

FillTemp(b) ==
  /\ At(b, "fill")
  /\ Write(LAMBDA d : WithContent(d, b))
  /\ Become(b, [pc |-> "work"])
  /\ UNCHANGED <<plan, faults>>

SyncRemoved(b) ==
  /\ At(b, "removed")
  /\ SyncDirectory
  /\ Become(b, [pc |-> "work"])
  /\ UNCHANGED <<plan, faults>>

(* Mutant: the renames are not synced before the lock goes.                *)
SkipSyncReports(b) ==
  /\ At(b, "sync")
  /\ UNCHANGED <<disk, survivors>>
  /\ Become(b, [pc |-> "check"])
  /\ UNCHANGED <<plan, faults>>

SyncReports(b) ==
  /\ At(b, "sync")
  /\ SyncDirectory
  /\ Become(b, [pc |-> "check"])
  /\ UNCHANGED <<plan, faults>>

(* The lock is looked at, and whatever has its name then is removed.       *)
CheckLock(b) ==
  /\ At(b, "check")
  /\ IF disk.lock = build[b].lock THEN Become(b, [pc |-> "unlink"]) ELSE Answer(b, "REPORT_BUILD_STALE_LOCK")
  /\ Looks

Unlock(b) ==
  /\ At(b, "unlink")
  /\ IF disk.lock # None THEN Change([disk EXCEPT !.lock = None]) /\ Become(b, [pc |-> "last"]) ELSE Misses(b)
  /\ UNCHANGED <<plan, faults>>

SyncUnlock(b) ==
  /\ At(b, "last")
  /\ SyncDirectory
  /\ Answer(b, "ok")
  /\ UNCHANGED <<plan, faults>>

(* A call fails: the answer is that nothing is certain, and the lock and   *)
(* the temporaries stay as they are.                                       *)
BuildFails(b) ==
  /\ build[b].pc \in {"lock", "fill-lock", "capture", "work", "stage", "fill", "rename", "remove", "removed",
                        "sync", "unlink", "last"}
  /\ faults < MaxFaults
  /\ Answer(b, "IO_DURABILITY_UNCONFIRMED")
  /\ faults' = faults + 1
  /\ UNCHANGED <<disk, survivors, plan>>

BuilderDies(b) ==
  /\ build[b].pc \notin {"idle", "done", "gone"}
  /\ build' = [build EXCEPT ![b] = [Fresh EXCEPT !.pc = "gone"]]
  /\ Looks

-----------------------------------------------------------------------------
PowerLoss ==
  /\ faults < MaxFaults
  /\ faults' = faults + 1
  /\ \E d \in survivors : disk' = d /\ survivors' = {d}
  /\ plan' = [k \in Planners |-> IF plan[k].pc \in {"idle", "done"} THEN plan[k] ELSE [pc |-> "gone", done |-> 0, answer |-> "none"]]
  /\ build' = [b \in Builders |-> IF build[b].pc \in {"idle", "done"} THEN build[b] ELSE [Fresh EXCEPT !.pc = "gone"]]

Build(b) ==
  \/ List(b) \/ ReadPlan(b) \/ ReadMembers(b) \/ CaptureBefore(b)
  \/ CreateLock(b) \/ FillLock(b) \/ CaptureLock(b) \/ Judge(b)
  \/ Inspect(b) \/ Classify(b) \/ Stage(b) \/ FillTemp(b) \/ Rename(b) \/ Remove(b) \/ SyncRemoved(b)
  \/ SyncReports(b) \/ CheckLock(b) \/ Unlock(b) \/ SyncUnlock(b)

Next ==
  \/ PowerLoss
  \/ \E k \in Planners : Allocate(k) \/ Reserve(k) \/ WriteMember(k) \/ SyncRun(k) \/ PlanFails(k) \/ PlannerDies(k)
  \/ \E b \in Builders : Build(b) \/ BuildFails(b) \/ BuilderDies(b)

Spec == Init /\ [][Next]_vars

(* No build takes over a lock that a living one is working under.  The     *)
(* code does not see to it.                                                *)
TakesOverAlone ==
  \A b \in Builders :
    At(b, "judge") /\ build'[b].pc = "work" => \A c \in Builders : build[c].lock # disk.lock

LoneSpec == Init /\ [][Next /\ TakesOverAlone]_vars

-----------------------------------------------------------------------------
(* Whoever reads a plan reads it whole, with the loop that was planned:    *)
(* the plan is read first and written last.  A planner that answered ok    *)
(* has left a plan that no power loss takes away (output-capabilities.ts:  *)
(* 1125-1137, capture-planned-v02.ts:82-140).                              *)
PlansAreWhole ==
  /\ \A k \in Planners, d \in survivors, m \in Core : plan[k].answer = "ok" => d.core[m] = "whole"
  /\ \A b \in Builders : build[b].loop \in {"absent", "whole"}

(* Where there is no lock report open finds no report, or one of a single  *)
(* generation, whatever was interrupted and wherever a power loss fell,    *)
(* while no two builds work under one lock (plan-report-writer-v02.ts:     *)
(* 232-237).                                                               *)
UnlockedReportsOpen ==
  \A d \in survivors :
    d.lock = None /\ d.core["plan"] = "whole" => OpenDecision(d) \in {"PLAN_REPORT_NOT_BUILT", "ok"}

(* Unless the lock was never written whole, or names a set that had been   *)
(* replaced when it was created, what was done under it is recognized,     *)
(* while no two builds work under it, and the next build gets as far as to *)
(* look at it, but for one case: once the temporary of the input is there, *)
(* the listing refuses the directory (capture-planned-v02.ts:154 has       *)
(* another name for it), and nobody can finish the work                    *)
(* (plan-report-writer-v02.ts:217-275).                                    *)
AccurateLocksResume ==
  \A d \in survivors :
    d.lock # None /\ d.lock.whole /\ d.lock.accurate =>
      /\ Resumable(d, d.lock)
      /\ CoreIsThere(d) /\ d.temps[d.lock.owner][3] = None => ReportWriterLayout(d)

(* A lock goes only when the set it was for would survive a power loss,    *)
(* while no two builds work under one (plan-report-writer-v02.ts:233-235). *)
LocksOutliveTheirWork ==
  [][disk.lock # None /\ disk'.lock = None /\ faults' = faults =>
       \A d \in survivors, i \in Reports : d.reports[i] = disk.lock.target]_vars

(* "A dead writer may leave only its current temp incomplete.  Remove      *)
(* exactly that lock-owned file" (l.263): what is removed is not what a    *)
(* living writer is writing.                                               *)
OnlyTheDeadAreClearedUp ==
  [][\A o \in Builders, i \in Reports :
       disk.temps[o][i] \in Builders /\ disk'.temps[o][i] = None /\ faults' = faults
       => build[disk.temps[o][i]].pc \in {"done", "gone"}]_vars
=============================================================================

-------------------------- MODULE PlanReportV02Proofs --------------------------
(***************************************************************************)
(* For any planners, builders and renderers, whatever calls fail, whoever  *)
(* dies and wherever power losses fall: a plan is read whole.  While no    *)
(* two builds work under one lock, work under an accurate lock can be      *)
(* recognized, a lock goes only when the set it was for would last, and    *)
(* without a lock the reports can be opened.                               *)
(*                                                                         *)
(* PlanInv is what Spec keeps; WorkInv is kept beside it by the steps that *)
(* take over alone.                                                        *)
(***************************************************************************)
EXTENDS PlanReportV02, FiniteSetTheorems, TLAPS

-----------------------------------------------------------------------------
(* What every run keeps                                                    *)

Directories ==
  [made : BOOLEAN, core : [Core -> {"absent", "empty", "whole"}], lock : Locks \cup {None},
   temps : [Builders -> [Reports -> Contents]], reports : [Reports -> Contents]]

(* The members are made in their order, and the plan is whole only when    *)
(* the others are.                                                         *)
CoreInv(d) ==
  /\ d.core["loop"] # "absent" => d.core["members"] # "absent"
  /\ d.core["plan"] # "absent" => d.core["loop"] # "absent"
  /\ d.core["plan"] = "whole" => d.core["members"] = "whole" /\ d.core["loop"] = "whole"
  /\ ~d.made => \A m \in Core : d.core[m] = "absent"

Planning == {"reserve", "write", "sync"}

(* A member of d that has been written is there and whole, or the power    *)
(* loss that leaves d takes its name as well.                              *)
Filled(d, n) == \A j \in 1 .. n : d.core[PlannedRunMembers[j]] # "empty"

PlannerInv(k) ==
  /\ plan[k].pc = "idle" => \A b \in Builders : At(b, "idle")
  /\ plan[k].pc \in Planning => disk.made
  /\ plan[k].pc = "reserve" =>
       /\ plan[k].done \in 0 .. 2 /\ \A b \in Builders : At(b, "idle")
       /\ \A j \in 1 .. 3 : disk.core[PlannedRunMembers[j]] = IF j <= plan[k].done THEN "empty" ELSE "absent"
  /\ plan[k].pc = "write" =>
       /\ plan[k].done \in 0 .. 2 /\ CoreIsThere(disk)
       /\ \A d \in survivors : Filled(d, plan[k].done)
  /\ plan[k].pc = "sync" => CoreIsThere(disk) /\ \A d \in survivors : Filled(d, 3)
  /\ plan[k].answer = "ok" =>
       /\ \A d \in survivors, m \in Core : d.core[m] = "whole"
       /\ \A j \in Planners : plan[j].pc \notin Planning

OnePlanner == \A j, k \in Planners : plan[j].pc \in Planning /\ plan[k].pc \in Planning => j = k

(* The states of a builder that has not read the plan, and of one that     *)
(* works under a lock.                                                     *)
Outside == {"idle", "plan", "done", "gone"}
Working == {"work", "classify", "stage", "fill", "rename", "remove", "removed", "sync", "check", "unlink"}

ReaderInv(b) ==
  /\ build[b].loop \in {"absent", "whole"} /\ build[b].seen \in [Reports -> Contents]
  /\ build[b].pc \notin Outside => disk.core["plan"] = "whole"
  /\ build[b].pc \in Working => build[b].lock \in Locks
  /\ build[b].at \in Reports

Shaped ==
  /\ disk \in survivors /\ survivors \subseteq Directories
  /\ DOMAIN plan = Planners /\ DOMAIN build = Builders

PlanInv ==
  /\ Shaped /\ \A d \in survivors : CoreInv(d)
  /\ OnePlanner /\ \A k \in Planners : PlannerInv(k)
  /\ \A b \in Builders : ReaderInv(b)

-----------------------------------------------------------------------------
(* Facts about records                                                     *)

LEMMA FreshFields ==
  /\ DOMAIN Fresh = {"pc", "loop", "seen", "todo", "at", "lock", "answer"}
  /\ Fresh.pc = "idle" /\ Fresh.loop = "absent" /\ Fresh.seen = Unseen /\ Fresh.lock = None
  /\ Fresh.at = 1 /\ Fresh.answer = "none"
  /\ Unseen = [i \in Reports |-> None] /\ Unseen \in [Reports -> Contents]
BY DEF Fresh, Unseen, EmptyDirectory, Contents

(* What a step of a builder does to the builders.                          *)
LEMMA BecomeFields ==
  ASSUME Shaped, NEW b \in Builders, NEW fields, Become(b, fields)
  PROVE  /\ DOMAIN build' = Builders /\ \A c \in Builders : c # b => build'[c] = build[c]
         /\ \A f \in DOMAIN Fresh : build'[b][f] = IF f \in DOMAIN fields THEN fields[f] ELSE build[b][f]
BY DEF Become, Shaped

(* A builder that has answered or is dead.                                 *)
Over(b) ==
  /\ DOMAIN build' = Builders /\ \A c \in Builders : c # b => build'[c] = build[c]
  /\ build'[b].pc \in {"done", "gone"} /\ build'[b].loop = "absent" /\ build'[b].seen = Unseen
  /\ build'[b].at = 1

LEMMA AnswerFields ==
  ASSUME Shaped, NEW b \in Builders,
         (\E answer : Answer(b, answer)) \/ build' = [build EXCEPT ![b] = [Fresh EXCEPT !.pc = "gone"]]
  PROVE  Over(b)
<1>1. ASSUME NEW answer
      PROVE  LET r == [Fresh EXCEPT !.pc = "done", !.answer = answer] IN
             r.pc = "done" /\ r.loop = "absent" /\ r.seen = Unseen /\ r.at = 1
  BY DEF Fresh
<1>2. LET r == [Fresh EXCEPT !.pc = "gone"] IN r.pc = "gone" /\ r.loop = "absent" /\ r.seen = Unseen /\ r.at = 1
  BY DEF Fresh
<1>3. CASE \E answer : Answer(b, answer)
  BY <1>1, <1>3 DEF Answer, Shaped, Over
<1>4. CASE build' = [build EXCEPT ![b] = [Fresh EXCEPT !.pc = "gone"]]
  BY <1>2, <1>4 DEF Shaped, Over
<1> QED BY <1>3, <1>4

(* Three reports: the cases are told apart by the first and the third.     *)
LEMMA ReportNumbers ==
  /\ 1 \in Reports /\ 3 \in Reports
  /\ \A i \in Reports : i = 3 \/ i + 1 \in Reports
  /\ \A i, j \in Reports : (j < i + 1 <=> j < i \/ j = i) /\ ~(j < 1)
  /\ \A i \in Reports : ~(i < i)
  /\ \A j \in Reports : j < 3 \/ j = 3
BY DEF Reports

(* The contents of files: nobody's name is a generation.                   *)
LEMMA ContentsDiffer ==
  /\ \A b \in Builders : b \in Contents /\ b \notin Generations /\ b # None
  /\ \A g \in Generations : g \in Contents /\ g \notin Builders /\ g # None
  /\ None \in Contents /\ None \notin Generations /\ None \notin Builders
  /\ \A v \in Contents : v \in Generations \/ v \in Builders \/ v = None
BY ReportAssumption DEF Contents

-----------------------------------------------------------------------------
(* Steps of planners                                                       *)

LEMMA MemberNames ==
  /\ PlannedRunMembers[1] = "members" /\ PlannedRunMembers[2] = "loop" /\ PlannedRunMembers[3] = "plan"
  /\ Len(PlannedRunMembers) = 3
  /\ \A j \in 1 .. 3 : PlannedRunMembers[j] \in Core
  /\ \A m \in Core : \E j \in 1 .. 3 : m = PlannedRunMembers[j]
BY DEF PlannedRunMembers, Core

LEMMA PlannerFields ==
  ASSUME Shaped, NEW k \in Planners, NEW pc, NEW done, NEW answer, Planner(k, pc, done, answer)
  PROVE  /\ DOMAIN plan' = Planners /\ \A j \in Planners : j # k => plan'[j] = plan[j]
         /\ plan'[k].pc = pc /\ plan'[k].done = done /\ plan'[k].answer = answer
BY DEF Planner, Shaped

LEMMA PlanInit == Init => PlanInv
<1> SUFFICES ASSUME Init PROVE PlanInv
  OBVIOUS
<1>1. EmptyDirectory \in Directories /\ CoreInv(EmptyDirectory)
  BY ContentsDiffer DEF EmptyDirectory, Directories, CoreInv, Core
<1>2. /\ Shaped /\ (\A d \in survivors : CoreInv(d)) /\ OnePlanner
      /\ (\A k \in Planners : plan[k].pc = "idle" /\ plan[k].answer = "none")
      /\ \A b \in Builders : build[b] = Fresh
  BY <1>1 DEF Init, Shaped, OnePlanner, Planning
<1>3. \A k \in Planners : PlannerInv(k)
  BY <1>2, FreshFields DEF PlannerInv, Planning, At
<1>4. \A b \in Builders : ReaderInv(b)
  BY <1>2, FreshFields, ReportNumbers DEF ReaderInv, Outside, Working
<1> QED BY <1>2, <1>3, <1>4 DEF PlanInv

(* While one plans no other does, and none has finished.                   *)
LEMMA OtherPlanners ==
  ASSUME PlanInv, NEW k \in Planners, plan[k].pc \in Planning \/ ~disk.made,
         \A j \in Planners : j # k => plan'[j] = plan[j], build' = build
  PROVE  /\ \A j \in Planners : j # k => /\ plan'[j].pc \notin Planning /\ plan'[j].answer # "ok"
                                         /\ PlannerInv(j)'
         /\ OnePlanner'
<1>1. \A j \in Planners : PlannerInv(j)
  BY DEF PlanInv
<1>2. \A j \in Planners : j # k => plan[j].pc \notin Planning
  BY <1>1 DEF PlannerInv, PlanInv, OnePlanner
<1>3. \A j \in Planners : plan[j].answer # "ok"
  <2>1. CASE plan[k].pc \in Planning
    BY <1>1, <2>1 DEF PlannerInv
  <2>2. CASE ~disk.made
    <3>1. disk.core["plan"] = "absent" /\ disk \in survivors /\ "plan" \in Core
      BY <2>2 DEF PlanInv, Shaped, CoreInv, Core
    <3> QED BY <1>1, <3>1 DEF PlannerInv
  <2> QED BY <2>1, <2>2
<1>4. \A j \in Planners : j # k => plan'[j].pc \notin Planning /\ plan'[j].answer # "ok"
  BY <1>2, <1>3
<1>5. \A j \in Planners : j # k => (plan'[j].pc = "idle" => \A b \in Builders : At(b, "idle")')
  BY <1>1 DEF PlannerInv, At
<1> QED BY <1>4, <1>5 DEF PlannerInv, OnePlanner, Planning

(* A planner that has stopped without success promises nothing.            *)
LEMMA StoppedPlanner ==
  ASSUME NEW k, plan'[k].pc \notin Planning \cup {"idle"}, plan'[k].answer # "ok"
  PROVE  PlannerInv(k)'
BY DEF PlannerInv, Planning

LEMMA StandingReaders ==
  ASSUME PlanInv, build' = build,
         \/ \A b \in Builders : At(b, "idle")
         \/ disk.core["plan"] = "whole" => disk'.core["plan"] = "whole"
  PROVE  \A b \in Builders : ReaderInv(b)'
<1> SUFFICES ASSUME NEW b \in Builders PROVE ReaderInv(b)'
  OBVIOUS
<1>1. ReaderInv(b)
  BY DEF PlanInv
<1>2. CASE At(b, "idle")
  BY <1>1, <1>2 DEF ReaderInv, At, Outside, Working
<1>3. CASE disk.core["plan"] = "whole" => disk'.core["plan"] = "whole"
  BY <1>1, <1>3 DEF ReaderInv
<1> QED BY <1>2, <1>3

LEMMA EmptyCored ==
  ASSUME NEW made \in BOOLEAN, NEW e, e = [EmptyDirectory EXCEPT !.made = made]
  PROVE  /\ e \in Directories /\ CoreInv(e)
         /\ e.lock = None /\ e.temps = EmptyDirectory.temps /\ e.reports = Unseen
<1>1. /\ e.made = made /\ e.core = [m \in Core |-> "absent"] /\ e.lock = None
      /\ e.temps = [b \in Builders |-> [i \in Reports |-> None]] /\ e.reports = [i \in Reports |-> None]
  BY DEF EmptyDirectory
<1>2. e \in Directories
  BY <1>1, ContentsDiffer DEF Directories, EmptyDirectory
<1> QED BY <1>1, <1>2 DEF CoreInv, Core, EmptyDirectory, Unseen

LEMMA AllocatePlan == ASSUME PlanInv, NEW k \in Planners, Allocate(k) PROVE PlanInv'
<1>1. build' = build /\ Shaped /\ disk \in Directories /\ CoreInv(disk) /\ plan[k].pc = "idle" /\ PlannerInv(k)
  BY DEF Allocate, PlanInv, Shaped
<1>2. CASE disk.made
  <2>1. Planner(k, "done", 0, "DESTINATION_EXISTS") /\ disk' = disk /\ survivors' = survivors
    BY <1>2 DEF Allocate
  <2>2. /\ DOMAIN plan' = Planners /\ \A j \in Planners : j # k => plan'[j] = plan[j]
        /\ plan'[k].pc = "done" /\ plan'[k].answer = "DESTINATION_EXISTS"
    BY <1>1, <2>1, PlannerFields
  <2>3. PlannerInv(k)'
    BY <2>2, StoppedPlanner DEF Planning
  <2>4. ASSUME NEW j \in Planners, j # k PROVE PlannerInv(j)'
    <3>1. PlannerInv(j) /\ \A i \in Planners : plan'[i].pc \in Planning => plan[i].pc \in Planning
      BY <2>2, <2>4 DEF PlanInv, Planning
    <3>2. \A b \in Builders : At(b, "idle")' <=> At(b, "idle")
      BY <1>1 DEF At
    <3> QED BY <2>1, <2>2, <2>4, <3>1, <3>2 DEF PlannerInv
  <2>5. OnePlanner'
    BY <2>2 DEF PlanInv, OnePlanner, Planning
  <2>6. \A b \in Builders : ReaderInv(b)'
    BY <1>1, <2>1, StandingReaders
  <2>7. Shaped' /\ \A d \in survivors' : CoreInv(d)
    BY <1>1, <2>1, <2>2 DEF Shaped, PlanInv
  <2> QED BY <2>3, <2>4, <2>5, <2>6, <2>7 DEF PlanInv
<1>3. CASE ~disk.made
  <2>1. /\ disk' = [disk EXCEPT !.made = TRUE] /\ survivors' = survivors \cup {disk'}
        /\ Planner(k, "reserve", 0, "none") /\ \A b \in Builders : At(b, "idle")
    BY <1>1, <1>3 DEF Allocate, Change, PlannerInv
  <2>2. /\ disk' \in Directories /\ disk'.core = disk.core /\ disk'.made
    BY <1>1, <2>1 DEF Directories
  <2>3. CoreInv(disk')
    BY <1>1, <2>2 DEF CoreInv
  <2>4. /\ DOMAIN plan' = Planners /\ \A j \in Planners : j # k => plan'[j] = plan[j]
        /\ plan'[k].pc = "reserve" /\ plan'[k].done = 0 /\ plan'[k].answer = "none"
    BY <1>1, <2>1, PlannerFields
  <2>5. OnePlanner' /\ \A j \in Planners : j # k => PlannerInv(j)'
    BY <1>1, <1>3, <2>4, OtherPlanners
  <2>6. \A m \in Core : disk'.core[m] = "absent"
    BY <1>1, <1>3, <2>2 DEF CoreInv
  <2>7. PlannerInv(k)'
    BY <1>1, <2>1, <2>2, <2>4, <2>6, MemberNames DEF PlannerInv, At
  <2>8. \A b \in Builders : ReaderInv(b)'
    BY <1>1, <2>1, StandingReaders
  <2>9. Shaped' /\ \A d \in survivors' : CoreInv(d)
    BY <1>1, <2>1, <2>2, <2>3, <2>4 DEF Shaped, PlanInv
  <2> QED BY <2>5, <2>7, <2>8, <2>9 DEF PlanInv
<1> QED BY <1>2, <1>3

LEMMA ReservePlan == ASSUME PlanInv, NEW k \in Planners, Reserve(k) PROVE PlanInv'
<1> DEFINE n == plan[k].done + 1
           m == PlannedRunMembers[n]
<1>1. /\ plan[k].pc = "reserve" /\ build' = build
      /\ disk' = [disk EXCEPT !.core[m] = "empty"] /\ survivors' = survivors \cup {disk'}
      /\ IF n = Len(PlannedRunMembers) THEN Planner(k, "write", 0, "none") ELSE Planner(k, "reserve", n, "none")
  BY DEF Reserve, Change
<1>2. Shaped /\ disk \in Directories /\ CoreInv(disk) /\ PlannerInv(k) /\ disk.made
  BY <1>1 DEF PlanInv, Shaped, PlannerInv, Planning
<1>3. /\ n \in 1 .. 3 /\ \A b \in Builders : At(b, "idle")
      /\ \A j \in 1 .. 3 : disk.core[PlannedRunMembers[j]] = IF j < n THEN "empty" ELSE "absent"
  BY <1>1, <1>2 DEF PlannerInv
<1>4. m \in Core /\ \A j \in 1 .. 3 : PlannedRunMembers[j] = m <=> j = n
  BY <1>3 DEF PlannedRunMembers, Core
<1> HIDE DEF m
<1>5. /\ disk' \in Directories /\ disk'.made
      /\ \A o \in Core : disk'.core[o] = IF o = m THEN "empty" ELSE disk.core[o]
  BY <1>1, <1>2, <1>4 DEF Directories
<1>6. \A j \in 1 .. 3 : disk'.core[PlannedRunMembers[j]] = IF j <= n THEN "empty" ELSE "absent"
  BY <1>3, <1>4, <1>5, MemberNames
<1>7. CoreInv(disk')
  <2>1. /\ disk'.core["members"] = "empty"
        /\ disk'.core["loop"] = IF 2 <= n THEN "empty" ELSE "absent"
        /\ disk'.core["plan"] = IF 3 <= n THEN "empty" ELSE "absent"
    BY <1>3, <1>6, MemberNames
  <2> QED BY <1>3, <1>5, <2>1 DEF CoreInv
<1>9. /\ DOMAIN plan' = Planners /\ (\A j \in Planners : j # k => plan'[j] = plan[j]) /\ plan'[k].answer = "none"
      /\ \/ n = 3 /\ plan'[k].pc = "write" /\ plan'[k].done = 0
         \/ n < 3 /\ plan'[k].pc = "reserve" /\ plan'[k].done = n
  BY <1>1, <1>2, <1>3, PlannerFields, MemberNames
<1>10. OnePlanner' /\ \A j \in Planners : j # k => PlannerInv(j)'
  BY <1>1, <1>9, OtherPlanners DEF Planning
<1>11. PlannerInv(k)'
  <2>1. CASE n = 3
    <3>1. CoreIsThere(disk')
      BY <1>6, <2>1, MemberNames DEF CoreIsThere
    <3>2. \A d \in survivors' : Filled(d, 0)
      BY DEF Filled
    <3> QED BY <1>5, <1>9, <2>1, <3>1, <3>2 DEF PlannerInv
  <2>2. CASE n < 3
    BY <1>1, <1>3, <1>5, <1>6, <1>9, <2>2 DEF PlannerInv, At
  <2> QED BY <1>3, <2>1, <2>2
<1>12. \A b \in Builders : ReaderInv(b)'
  BY <1>1, <1>3, StandingReaders
<1>13. Shaped' /\ \A d \in survivors' : CoreInv(d)
  BY <1>1, <1>2, <1>5, <1>7, <1>9 DEF Shaped, PlanInv
<1> QED BY <1>10, <1>11, <1>12, <1>13 DEF PlanInv

(* What writing a member of d does to the directory.                       *)
MemberWritten(d, e, n) ==
  /\ e \in Directories /\ CoreInv(e) /\ e.made = d.made /\ Filled(e, n)
  /\ e.lock = d.lock /\ e.temps = d.temps /\ e.reports = d.reports
  /\ \A m \in Core : (d.core[m] # "absent" <=> e.core[m] # "absent") /\ (d.core[m] = "whole" => e.core[m] = "whole")

LEMMA MemberGood ==
  ASSUME NEW d \in Directories, CoreInv(d), NEW n \in 1 .. 3, Filled(d, n - 1),
         NEW e, e = WithMember(d, PlannedRunMembers[n])
  PROVE  MemberWritten(d, e, n)
<1> DEFINE m == PlannedRunMembers[n]
<1>1. m \in Core
  BY MemberNames
<1>2. \A j \in 1 .. 3 : j # n => PlannedRunMembers[j] # m
  BY DEF PlannedRunMembers
<1>3. e = IF d.core[m] = "absent" THEN d ELSE [d EXCEPT !.core[m] = "whole"]
  BY DEF WithMember
<1> HIDE DEF m
<1>4. /\ e \in Directories /\ e.made = d.made /\ e.lock = d.lock /\ e.temps = d.temps /\ e.reports = d.reports
      /\ \A o \in Core : e.core[o] = IF o = m /\ d.core[o] # "absent" THEN "whole" ELSE d.core[o]
  BY <1>1, <1>3 DEF Directories
<1>5. Filled(e, n)
  <2> SUFFICES ASSUME NEW j \in 1 .. n PROVE e.core[PlannedRunMembers[j]] # "empty"
    BY DEF Filled
  <2>1. CASE j = n
    BY <1>1, <1>4, <2>1 DEF m
  <2>2. CASE j # n
    <3>1. d.core[PlannedRunMembers[j]] # "empty" /\ PlannedRunMembers[j] # m /\ PlannedRunMembers[j] \in Core
      BY <1>2, <2>2, MemberNames DEF Filled
    <3> QED BY <1>4, <3>1
  <2> QED BY <2>1, <2>2
<1>6. CoreInv(e)
  <2>1. CoreInv(d) /\ {"members", "loop", "plan"} \subseteq Core
    BY DEF Core
  <2>2. ASSUME e.core["plan"] = "whole" PROVE e.core["members"] = "whole" /\ e.core["loop"] = "whole"
    <3>1. CASE d.core["plan"] = "whole"
      BY <1>4, <2>1, <3>1 DEF CoreInv
    <3>2. CASE d.core["plan"] # "whole"
      <4>1. m = "plan" /\ d.core["plan"] # "absent"
        BY <1>4, <2>1, <2>2, <3>2
      <4>2. n = 3
        BY <4>1, MemberNames DEF m
      <4>3. d.core["members"] # "empty" /\ d.core["loop"] # "empty"
        BY <4>2, MemberNames DEF Filled
      <4>4. d.core["members"] # "absent" /\ d.core["loop"] # "absent"
        BY <2>1, <4>1 DEF CoreInv
      <4>5. d.core["members"] = "whole" /\ d.core["loop"] = "whole"
        BY <2>1, <4>3, <4>4 DEF Directories
      <4> QED BY <1>4, <2>1, <4>5
    <3> QED BY <3>1, <3>2
  <2>3. /\ e.core["loop"] # "absent" => e.core["members"] # "absent"
        /\ e.core["plan"] # "absent" => e.core["loop"] # "absent"
        /\ ~e.made => \A o \in Core : e.core[o] = "absent"
    BY <1>4, <2>1 DEF CoreInv
  <2> QED BY <2>2, <2>3 DEF CoreInv
<1> QED BY <1>4, <1>5, <1>6 DEF MemberWritten

LEMMA WriteMemberPlan == ASSUME PlanInv, NEW k \in Planners, WriteMember(k) PROVE PlanInv'
<1> DEFINE n == plan[k].done + 1
           m == PlannedRunMembers[n]
<1>1. /\ plan[k].pc = "write" /\ build' = build
      /\ disk' = WithMember(disk, m) /\ survivors' = {WithMember(d, m) : d \in survivors}
      /\ Planner(k, IF n = Len(PlannedRunMembers) THEN "sync" ELSE "write", n, "none")
  BY DEF WriteMember, Write
<1>2. Shaped /\ disk \in survivors /\ PlannerInv(k) /\ disk.made
  BY <1>1 DEF PlanInv, Shaped, PlannerInv, Planning
<1>3. n \in 1 .. 3 /\ CoreIsThere(disk) /\ \A d \in survivors : Filled(d, n - 1)
  BY <1>1, <1>2 DEF PlannerInv
<1>4. ASSUME NEW d \in survivors, NEW e, e = WithMember(d, m) PROVE MemberWritten(d, e, n)
  <2>1. d \in Directories /\ CoreInv(d) /\ Filled(d, n - 1)
    BY <1>3 DEF PlanInv, Shaped
  <2> QED BY <1>3, <1>4, <2>1, MemberGood
<1> HIDE DEF m
<1>5. disk'.made /\ CoreIsThere(disk') /\ (disk.core["plan"] = "whole" => disk'.core["plan"] = "whole")
  BY <1>1, <1>2, <1>3, <1>4 DEF CoreIsThere, Core, MemberWritten
<1>6. \A e \in survivors' : e \in Directories /\ CoreInv(e) /\ Filled(e, n)
  BY <1>1, <1>4 DEF MemberWritten
<1>7. /\ DOMAIN plan' = Planners /\ (\A j \in Planners : j # k => plan'[j] = plan[j]) /\ plan'[k].answer = "none"
      /\ \/ n = 3 /\ plan'[k].pc = "sync"
         \/ n < 3 /\ plan'[k].pc = "write" /\ plan'[k].done = n
  BY <1>1, <1>2, <1>3, PlannerFields, MemberNames
<1>8. OnePlanner' /\ \A j \in Planners : j # k => PlannerInv(j)'
  BY <1>1, <1>7, OtherPlanners DEF Planning
<1>9. PlannerInv(k)'
  <2>1. CASE n = 3
    BY <1>5, <1>6, <1>7, <2>1 DEF PlannerInv
  <2>2. CASE n < 3
    BY <1>3, <1>5, <1>6, <1>7, <2>2 DEF PlannerInv
  <2> QED BY <1>3, <2>1, <2>2
<1>10. \A b \in Builders : ReaderInv(b)'
  BY <1>1, <1>5, StandingReaders
<1>11. Shaped' /\ \A d \in survivors' : CoreInv(d)
  BY <1>1, <1>2, <1>6, <1>7 DEF Shaped, PlanInv
<1> QED BY <1>8, <1>9, <1>10, <1>11 DEF PlanInv

LEMMA SyncRunPlan == ASSUME PlanInv, NEW k \in Planners, SyncRun(k) PROVE PlanInv'
<1>1. /\ plan[k].pc = "sync" /\ build' = build /\ disk' = disk /\ survivors' = {disk}
      /\ Planner(k, "done", 0, "ok")
  BY DEF SyncRun, SyncDirectory
<1>2. /\ Shaped /\ disk \in survivors /\ disk \in Directories /\ CoreInv(disk)
      /\ CoreIsThere(disk) /\ Filled(disk, 3)
  BY <1>1 DEF PlanInv, Shaped, PlannerInv
<1>3. /\ DOMAIN plan' = Planners /\ (\A j \in Planners : j # k => plan'[j] = plan[j])
      /\ plan'[k].pc = "done" /\ plan'[k].answer = "ok"
  BY <1>1, <1>2, PlannerFields
<1>4. OnePlanner' /\ \A j \in Planners : j # k => plan'[j].pc \notin Planning /\ PlannerInv(j)'
  BY <1>1, <1>3, OtherPlanners DEF Planning
<1>5. \A m \in Core : disk.core[m] = "whole"
  <2>1. \A m \in Core : disk.core[m] \in {"absent", "empty", "whole"} /\ disk.core[m] # "absent"
    BY <1>2 DEF Directories, CoreIsThere
  <2>2. \A m \in Core : disk.core[m] # "empty"
    BY <1>2, MemberNames DEF Filled
  <2> QED BY <2>1, <2>2
<1>6. PlannerInv(k)'
  BY <1>1, <1>3, <1>4, <1>5 DEF PlannerInv, Planning
<1>7. \A b \in Builders : ReaderInv(b)'
  BY <1>1, StandingReaders
<1>8. Shaped' /\ \A d \in survivors' : CoreInv(d)
  BY <1>1, <1>2, <1>3 DEF Shaped
<1> QED BY <1>4, <1>6, <1>7, <1>8 DEF PlanInv

(* What a planner that stops does to the directory.                        *)
LEMMA StopDoes ==
  ASSUME NEW k \in Planners, PlanFails(k) \/ PlannerDies(k)
  PROVE  /\ plan[k].pc \in Planning /\ build' = build
         /\ Planner(k, "done", 0, "IO_DURABILITY_UNCONFIRMED") \/ Planner(k, "gone", 0, "none")
         /\ \/ disk' = disk /\ survivors' = survivors
            \/ /\ plan[k].pc = "reserve"
               /\ \E made \in BOOLEAN : disk' = [EmptyDirectory EXCEPT !.made = made] /\ survivors' = survivors \cup {disk'}
BY DEF PlanFails, PlannerDies, Change, Planning

LEMMA PlannerStopsPlan == ASSUME PlanInv, NEW k \in Planners, PlanFails(k) \/ PlannerDies(k) PROVE PlanInv'
<1>1. /\ plan[k].pc \in Planning /\ build' = build
      /\ Planner(k, "done", 0, "IO_DURABILITY_UNCONFIRMED") \/ Planner(k, "gone", 0, "none")
      /\ \/ disk' = disk /\ survivors' = survivors
         \/ /\ plan[k].pc = "reserve"
            /\ \E made \in BOOLEAN : disk' = [EmptyDirectory EXCEPT !.made = made] /\ survivors' = survivors \cup {disk'}
  BY StopDoes
<1>2. Shaped /\ disk \in survivors /\ PlannerInv(k)
  BY DEF PlanInv, Shaped
<1>3. /\ DOMAIN plan' = Planners /\ (\A j \in Planners : j # k => plan'[j] = plan[j])
      /\ plan'[k].pc \notin Planning \cup {"idle"} /\ plan'[k].answer # "ok"
  BY <1>1, <1>2, PlannerFields DEF Planning
<1>4. OnePlanner' /\ \A j \in Planners : j # k => PlannerInv(j)'
  BY <1>1, <1>3, OtherPlanners
<1>5. PlannerInv(k)'
  BY <1>3, StoppedPlanner
<1>6. CASE disk' = disk /\ survivors' = survivors
  <2>1. \A b \in Builders : ReaderInv(b)'
    BY <1>1, <1>6, StandingReaders
  <2>2. Shaped' /\ \A d \in survivors' : CoreInv(d)
    BY <1>1, <1>2, <1>3, <1>6 DEF Shaped, PlanInv
  <2> QED BY <1>4, <1>5, <2>1, <2>2 DEF PlanInv
<1>7. CASE /\ plan[k].pc = "reserve"
           /\ \E made \in BOOLEAN : disk' = [EmptyDirectory EXCEPT !.made = made] /\ survivors' = survivors \cup {disk'}
  <2>1. disk' \in Directories /\ CoreInv(disk')
    BY <1>7, EmptyCored
  <2>2. \A b \in Builders : ReaderInv(b)'
    BY <1>1, <1>2, <1>7, StandingReaders DEF PlannerInv
  <2>3. Shaped' /\ \A d \in survivors' : CoreInv(d)
    BY <1>1, <1>2, <1>3, <1>7, <2>1 DEF Shaped, PlanInv
  <2> QED BY <1>4, <1>5, <2>2, <2>3 DEF PlanInv
<1> QED BY <1>1, <1>6, <1>7

-----------------------------------------------------------------------------
(* What the steps of a builder make of a directory                         *)

(* One temporary, or one report, is given another content.                 *)
Placed(d, e, o, i, v) ==
  /\ e \in Directories /\ e.core = d.core /\ e.made = d.made /\ e.lock = d.lock /\ e.reports = d.reports
  /\ \A c \in Builders, j \in Reports : e.temps[c][j] = IF c = o /\ j = i THEN v ELSE d.temps[c][j]

Reported(d, e, i, t) ==
  /\ e \in Directories /\ e.core = d.core /\ e.made = d.made /\ e.lock = d.lock /\ e.temps = d.temps
  /\ \A j \in Reports : e.reports[j] = IF j = i THEN t ELSE d.reports[j]

LEMMA PlaceFields ==
  ASSUME NEW d \in Directories, NEW o \in Builders, NEW i \in Reports, NEW v \in Contents
  PROVE  Placed(d, [d EXCEPT !.temps[o][i] = v], o, i, v)
<1> DEFINE row == [d.temps[o] EXCEPT ![i] = v]
           temps == [d.temps EXCEPT ![o] = row]
           e == [d EXCEPT !.temps = temps]
<1>1. e = [d EXCEPT !.temps[o][i] = v]
  OBVIOUS
<1>2. d.temps \in [Builders -> [Reports -> Contents]]
  BY DEF Directories
<1>3. /\ row \in [Reports -> Contents]
      /\ \A j \in Reports : row[j] = IF j = i THEN v ELSE d.temps[o][j]
  BY <1>2
<1> HIDE DEF row
<1>4. /\ temps \in [Builders -> [Reports -> Contents]]
      /\ \A c \in Builders : temps[c] = IF c = o THEN row ELSE d.temps[c]
  BY <1>2, <1>3
<1> HIDE DEF temps
<1>5. /\ e \in Directories /\ e.core = d.core /\ e.made = d.made /\ e.lock = d.lock /\ e.reports = d.reports
      /\ e.temps = temps
  BY <1>4 DEF Directories
<1> HIDE DEF e
<1>6. Placed(d, e, o, i, v)
  BY <1>3, <1>4, <1>5 DEF Placed
<1> QED BY <1>1, <1>6

LEMMA ReportFields ==
  ASSUME NEW d \in Directories, NEW i \in Reports, NEW t \in Contents
  PROVE  Reported(d, [d EXCEPT !.reports[i] = t], i, t)
<1> DEFINE reports == [d.reports EXCEPT ![i] = t]
           e == [d EXCEPT !.reports = reports]
<1>1. e = [d EXCEPT !.reports[i] = t]
  OBVIOUS
<1>2. d.reports \in [Reports -> Contents]
  BY DEF Directories
<1>3. reports \in [Reports -> Contents] /\ \A j \in Reports : reports[j] = IF j = i THEN t ELSE d.reports[j]
  BY <1>2
<1> HIDE DEF reports
<1>4. /\ e \in Directories /\ e.core = d.core /\ e.made = d.made /\ e.lock = d.lock /\ e.temps = d.temps
      /\ e.reports = reports
  BY <1>3 DEF Directories
<1> HIDE DEF e
<1>5. Reported(d, e, i, t)
  BY <1>3, <1>4 DEF Reported
<1> QED BY <1>1, <1>5

(* Builder b has written what it had to, wherever the file is.             *)
Full(b, v) == IF v = b THEN Generation[b] ELSE v

Written(d, e, b) ==
  /\ e \in Directories /\ e.core = d.core /\ e.made = d.made /\ e.lock = d.lock
  /\ \A c \in Builders, j \in Reports : e.temps[c][j] = Full(b, d.temps[c][j])
  /\ \A j \in Reports : e.reports[j] = Full(b, d.reports[j])

LEMMA ContentFields ==
  ASSUME NEW d \in Directories, NEW b \in Builders
  PROVE  Written(d, WithContent(d, b), b)
<1> DEFINE temps == [o \in Builders |-> [i \in Reports |-> Full(b, d.temps[o][i])]]
           reports == [i \in Reports |-> Full(b, d.reports[i])]
           e == [d EXCEPT !.temps = temps, !.reports = reports]
<1>1. e = WithContent(d, b)
  BY DEF WithContent, Full
<1>2. d.temps \in [Builders -> [Reports -> Contents]] /\ d.reports \in [Reports -> Contents]
  BY DEF Directories
<1>3. \A v \in Contents : Full(b, v) \in Contents
  BY ReportAssumption DEF Full, Contents
<1>4. /\ temps \in [Builders -> [Reports -> Contents]] /\ reports \in [Reports -> Contents]
      /\ \A c \in Builders, j \in Reports : temps[c][j] = Full(b, d.temps[c][j])
      /\ \A j \in Reports : reports[j] = Full(b, d.reports[j])
  BY <1>2, <1>3
<1> HIDE DEF temps, reports
<1>5. /\ e \in Directories /\ e.core = d.core /\ e.made = d.made /\ e.lock = d.lock
      /\ e.temps = temps /\ e.reports = reports
  BY <1>4 DEF Directories
<1> HIDE DEF e
<1>6. Written(d, e, b)
  BY <1>4, <1>5 DEF Written
<1> QED BY <1>1, <1>6

(* A lock is put there, or taken away, or is written whole.                *)
Locked(d, e, l) ==
  /\ e \in Directories /\ e.core = d.core /\ e.made = d.made /\ e.temps = d.temps /\ e.reports = d.reports
  /\ e.lock = l

WholeLock(d, b) == IF d.lock # None /\ d.lock.owner = b THEN [d.lock EXCEPT !.whole = TRUE] ELSE d.lock

LEMMA LockFields ==
  ASSUME NEW d \in Directories
  PROVE  /\ \A l \in Locks \cup {None} : Locked(d, [d EXCEPT !.lock = l], l)
         /\ \A b \in Builders : Locked(d, WithLock(d, b), WholeLock(d, b))
<1>1. \A l \in Locks \cup {None} : Locked(d, [d EXCEPT !.lock = l], l)
  BY DEF Directories, Locked
<1>2. ASSUME NEW b \in Builders PROVE Locked(d, WithLock(d, b), WholeLock(d, b))
  <2>1. CASE ~(d.lock # None /\ d.lock.owner = b)
    BY <2>1 DEF WithLock, WholeLock, Locked
  <2>2. CASE d.lock # None /\ d.lock.owner = b
    <3> DEFINE l == [d.lock EXCEPT !.whole = TRUE]
    <3>1. d.lock \in Locks
      BY <2>2 DEF Directories
    <3>2. l \in Locks
      BY <3>1 DEF Locks
    <3>3. WithLock(d, b) = [d EXCEPT !.lock = l]
      BY <2>2 DEF WithLock, Directories
    <3> QED BY <1>1, <2>2, <3>2, <3>3 DEF WholeLock
  <2> QED BY <2>1, <2>2
<1> QED BY <1>1, <1>2

-----------------------------------------------------------------------------
(* Steps of builders                                                       *)

(* What every step of a builder leaves alone.                              *)
Acts(b) ==
  /\ plan' = plan /\ DOMAIN build' = Builders /\ \A c \in Builders : c # b => build'[c] = build[c]
  /\ build[b].pc # "idle" \/ (disk.core["plan"] # "absent" /\ \A k \in Planners : plan[k].pc # "idle")
  /\ disk' \in survivors' /\ disk'.core = disk.core /\ disk'.made = disk.made
  /\ survivors' \subseteq Directories
  /\ \A e \in survivors' : \E d \in survivors : e.core = d.core /\ e.made = d.made

(* A builder finds a plan only when no planner can take it back.           *)
LEMMA ActsKeep ==
  ASSUME PlanInv, NEW b \in Builders, Acts(b), ReaderInv(b)'
  PROVE  PlanInv'
<1>1. ASSUME NEW k \in Planners PROVE PlannerInv(k)'
  <2>1. PlannerInv(k)
    BY DEF PlanInv
  <2>2. plan[k].pc # "idle"
    BY <2>1 DEF PlannerInv, At, Acts
  <2>3. plan[k].pc # "reserve"
    <3> SUFFICES ASSUME plan[k].pc = "reserve" PROVE FALSE
      OBVIOUS
    <3>1. build[b].pc = "idle"
      BY <2>1 DEF PlannerInv, At
    <3>2. disk.core["plan"] = "absent"
      BY <2>1, MemberNames DEF PlannerInv
    <3> QED BY <3>1, <3>2 DEF Acts
  <2>4. CoreIsThere(disk) <=> CoreIsThere(disk')
    BY DEF Acts, CoreIsThere
  <2>5. \A n : (\A d \in survivors : Filled(d, n)) => \A e \in survivors' : Filled(e, n)
    BY DEF Acts, Filled
  <2>6. (\A d \in survivors, m \in Core : d.core[m] = "whole") => \A e \in survivors', m \in Core : e.core[m] = "whole"
    BY DEF Acts
  <2> QED BY <2>1, <2>2, <2>3, <2>4, <2>5, <2>6 DEF PlannerInv, Acts
<1>2. OnePlanner'
  BY DEF PlanInv, OnePlanner, Acts
<1>3. Shaped' /\ \A d \in survivors' : CoreInv(d)
  BY DEF Shaped, PlanInv, Acts, CoreInv
<1>4. ASSUME NEW c \in Builders PROVE ReaderInv(c)'
  <2>1. CASE c = b
    BY <2>1
  <2>2. CASE c # b
    <3>1. build'[c] = build[c] /\ disk'.core = disk.core /\ ReaderInv(c)
      BY <2>2 DEF Acts, PlanInv
    <3> QED BY <3>1 DEF ReaderInv
  <2> QED BY <2>1, <2>2
<1> QED BY <1>1, <1>2, <1>3, <1>4 DEF PlanInv

(* Whatever is done to the directory, it is one of three.                  *)
LEMMA DirectoryActs ==
  ASSUME PlanInv, NEW b \in Builders, plan' = plan, DOMAIN build' = Builders,
         \A c \in Builders : c # b => build'[c] = build[c],
         build[b].pc # "idle" \/ (disk.core["plan"] # "absent" /\ \A k \in Planners : plan[k].pc # "idle"),
         \/ disk' = disk /\ survivors' \in {survivors, {disk}}
         \/ /\ survivors' = survivors \cup {disk'} /\ disk' \in Directories
            /\ disk'.core = disk.core /\ disk'.made = disk.made
  PROVE  Acts(b)
BY DEF PlanInv, Shaped, Acts

(* A builder that has answered or is dead.                                 *)
LEMMA LeaveActs ==
  ASSUME PlanInv, NEW b \in Builders,
         (\E answer : Answer(b, answer)) \/ build' = [build EXCEPT ![b] = [Fresh EXCEPT !.pc = "gone"]],
         plan' = plan, disk' = disk, survivors' \in {survivors, {disk}},
         build[b].pc # "idle" \/ (disk.core["plan"] # "absent" /\ \A k \in Planners : plan[k].pc # "idle")
  PROVE  Acts(b) /\ ReaderInv(b)' /\ Over(b)
<1>1. Over(b)
  BY AnswerFields DEF PlanInv
<1>2. ReaderInv(b)'
  BY <1>1, FreshFields, ReportNumbers DEF Over, ReaderInv, Outside, Working
<1>3. Acts(b)
  BY <1>1, DirectoryActs DEF Over
<1> QED BY <1>1, <1>2, <1>3

LEMMA ReadActs ==
  ASSUME PlanInv, NEW b \in Builders, List(b) \/ ReadPlan(b) \/ ReadMembers(b) \/ CaptureBefore(b)
  PROVE  /\ Acts(b) /\ ReaderInv(b)' /\ disk' = disk /\ survivors' = survivors
         /\ build'[b].pc \in {"plan", "members", "before", "lock", "done", "gone"}
<1>1. /\ plan' = plan /\ disk' = disk /\ survivors' = survivors /\ Shaped /\ ReaderInv(b)
      /\ build[b].pc # "idle" \/ (disk.core["plan"] # "absent" /\ \A k \in Planners : plan[k].pc # "idle")
  BY DEF List, ReadPlan, ReadMembers, CaptureBefore, Looks, At, PlanInv
<1>2. CASE \E answer : Answer(b, answer)
  BY <1>1, <1>2, LeaveActs DEF Over
<1>3. CASE Become(b, [pc |-> "plan"]) \/ (Become(b, [pc |-> "members"]) /\ disk.core["plan"] = "whole")
  <2>1. /\ DOMAIN build' = Builders /\ \A c \in Builders : c # b => build'[c] = build[c]
        /\ build'[b].pc \in {"plan", "members"} /\ build'[b].loop = build[b].loop /\ build'[b].seen = build[b].seen
        /\ build'[b].at = build[b].at /\ (build'[b].pc = "members" => disk.core["plan"] = "whole")
    BY <1>1, <1>3, BecomeFields, FreshFields
  <2> QED BY <1>1, <2>1, DirectoryActs DEF ReaderInv, Outside, Working
<1>4. CASE ReadMembers(b) /\ Become(b, [pc |-> "before", loop |-> disk.core["loop"]])
  <2>1. disk.core["plan"] = "whole"
    BY <1>1, <1>4 DEF ReadMembers, At, ReaderInv, Outside
  <2>2. disk.core["loop"] = "whole"
    BY <2>1 DEF PlanInv, Shaped, CoreInv
  <2>3. /\ DOMAIN build' = Builders /\ \A c \in Builders : c # b => build'[c] = build[c]
        /\ build'[b].pc = "before" /\ build'[b].loop = "whole" /\ build'[b].seen = build[b].seen
        /\ build'[b].at = build[b].at
    BY <1>1, <1>4, <2>2, BecomeFields, FreshFields
  <2> QED BY <1>1, <2>1, <2>3, DirectoryActs DEF ReaderInv, Outside, Working
<1>5. CASE /\ CaptureBefore(b)
           /\ \E i, todo : LET seen == [build[b].seen EXCEPT ![i] = disk.reports[i]] IN
                \/ Become(b, [seen |-> seen, todo |-> todo])
                \/ Become(b, [pc |-> "lock", seen |-> seen, todo |-> {}])
  <2>1. PICK i, todo : LET seen == [build[b].seen EXCEPT ![i] = disk.reports[i]] IN
          \/ Become(b, [seen |-> seen, todo |-> todo])
          \/ Become(b, [pc |-> "lock", seen |-> seen, todo |-> {}])
    BY <1>5
  <2> DEFINE seen == [build[b].seen EXCEPT ![i] = disk.reports[i]]
  <2>2. seen \in [Reports -> Contents]
    <3>1. build[b].seen \in [Reports -> Contents] /\ disk.reports \in [Reports -> Contents]
      BY <1>1 DEF ReaderInv, Shaped, Directories
    <3> QED BY <3>1
  <2>3. \/ Become(b, [seen |-> seen, todo |-> todo])
        \/ Become(b, [pc |-> "lock", seen |-> seen, todo |-> {}])
    BY <2>1
  <2> HIDE DEF seen
  <2>4. build[b].pc = "before" /\ disk.core["plan"] = "whole"
    BY <1>1, <1>5 DEF CaptureBefore, At, ReaderInv, Outside
  <2>5. /\ DOMAIN build' = Builders /\ \A c \in Builders : c # b => build'[c] = build[c]
        /\ build'[b].pc \in {"before", "lock"} /\ build'[b].loop = build[b].loop /\ build'[b].seen = seen
        /\ build'[b].at = build[b].at
    BY <1>1, <2>3, <2>4, BecomeFields, FreshFields
  <2> QED BY <1>1, <2>2, <2>4, <2>5, DirectoryActs DEF ReaderInv, Outside, Working
<1>6. CASE List(b)
  BY <1>2, <1>3, <1>6 DEF List
<1>7. CASE ReadPlan(b)
  BY <1>2, <1>3, <1>7 DEF ReadPlan
<1>8. CASE ReadMembers(b)
  BY <1>2, <1>4, <1>8 DEF ReadMembers
<1>9. CASE CaptureBefore(b)
  <2>1. PICK i \in build[b].todo :
          LET seen == [build[b].seen EXCEPT ![i] = disk.reports[i]]
              todo == build[b].todo \ {i}
          IN \/ Become(b, [seen |-> seen, todo |-> todo])
             \/ Answer(b, "REPORT_BUILD_STALE_LOCK")
             \/ Become(b, [pc |-> "lock", seen |-> seen, todo |-> {}])
    BY <1>9 DEF CaptureBefore
  <2> QED BY <1>2, <1>5, <1>9, <2>1
<1> QED BY <1>6, <1>7, <1>8, <1>9

(* A step on from pc to next, under the same lock.                         *)
Moves(b, pc, next) ==
  /\ build[b].pc = pc /\ build'[b].pc = next /\ build'[b].lock = build[b].lock
  /\ Acts(b) /\ ReaderInv(b)'

(* b gives up or ends, and leaves the directory as it is.                  *)
Ends(b) == Over(b) /\ Acts(b) /\ ReaderInv(b)' /\ disk' = disk /\ survivors' \in {survivors, {disk}}

Still == disk' = disk /\ survivors' = survivors

LEMMA LeaveDoes ==
  ASSUME PlanInv, NEW b \in Builders,
         (\E answer : Answer(b, answer)) \/ build' = [build EXCEPT ![b] = [Fresh EXCEPT !.pc = "gone"]],
         plan' = plan, disk' = disk, survivors' \in {survivors, {disk}}, build[b].pc # "idle"
  PROVE  Ends(b)
BY LeaveActs DEF Ends

(* What a builder that goes on has in its fields.                          *)
LEMMA MoveDoes ==
  ASSUME PlanInv, NEW b \in Builders, plan' = plan, build[b].pc # "idle", build[b].pc \notin Outside,
         NEW fields, Become(b, fields), "pc" \in DOMAIN fields, DOMAIN fields \subseteq {"pc", "seen", "at"},
         fields.pc \in Working => build[b].lock \in Locks,
         "seen" \in DOMAIN fields => fields.seen \in [Reports -> Contents],
         "at" \in DOMAIN fields => fields.at \in Reports,
         \/ disk' = disk /\ survivors' \in {survivors, {disk}}
         \/ /\ survivors' = survivors \cup {disk'} /\ disk' \in Directories
            /\ disk'.core = disk.core /\ disk'.made = disk.made
  PROVE  /\ Moves(b, build[b].pc, fields.pc)
         /\ build'[b].seen = IF "seen" \in DOMAIN fields THEN fields.seen ELSE build[b].seen
         /\ build'[b].at = IF "at" \in DOMAIN fields THEN fields.at ELSE build[b].at
<1>1. Shaped /\ ReaderInv(b)
  BY DEF PlanInv
<1>2. /\ DOMAIN build' = Builders /\ \A c \in Builders : c # b => build'[c] = build[c]
      /\ \A f \in DOMAIN Fresh : build'[b][f] = IF f \in DOMAIN fields THEN fields[f] ELSE build[b][f]
  BY <1>1, BecomeFields
<1>3. /\ build'[b].pc = fields.pc /\ build'[b].loop = build[b].loop /\ build'[b].lock = build[b].lock
      /\ build'[b].seen = IF "seen" \in DOMAIN fields THEN fields.seen ELSE build[b].seen
      /\ build'[b].at = IF "at" \in DOMAIN fields THEN fields.at ELSE build[b].at
  BY <1>2, FreshFields
<1>4. Acts(b)
  BY <1>2, DirectoryActs
<1>5. ReaderInv(b)'
  <2>1. disk'.core = disk.core
    BY <1>4 DEF Acts
  <2> QED BY <1>1, <1>3, <2>1 DEF ReaderInv
<1> QED BY <1>3, <1>4, <1>5 DEF Moves

LEMMA CreateDoes ==
  ASSUME PlanInv, NEW b \in Builders, CreateLock(b)
  PROVE  \/ Moves(b, "lock", "judge") /\ Still
         \/ /\ Moves(b, "lock", "fill-lock") /\ disk.lock = None /\ survivors' = survivors \cup {disk'}
            /\ \E l \in Locks : /\ Locked(disk, disk', l)
                                /\ l.owner = b /\ ~l.whole /\ l.target = Generation[b]
                                /\ (l.accurate <=> l.before = disk.reports)
<1>1. /\ plan' = plan /\ build[b].pc = "lock" /\ ReaderInv(b) /\ disk \in Directories /\ build[b].pc \notin Outside
  BY DEF CreateLock, At, PlanInv, Shaped, Outside
<1>2. CASE disk.lock # None
  <2>1. Become(b, [pc |-> "judge", seen |-> Unseen]) /\ disk' = disk /\ survivors' = survivors
    BY <1>2 DEF CreateLock
  <2>2. Moves(b, build[b].pc, "judge")
    BY <1>1, <2>1, MoveDoes, FreshFields DEF Working
  <2> QED BY <1>1, <2>1, <2>2 DEF Still
<1>3. CASE disk.lock = None
  <2> DEFINE l == [owner |-> b, whole |-> FALSE, target |-> Generation[b], before |-> build[b].seen,
                   accurate |-> build[b].seen = disk.reports]
  <2>1. /\ disk' = [disk EXCEPT !.lock = l] /\ survivors' = survivors \cup {disk'}
        /\ Become(b, [pc |-> "fill-lock", seen |-> Unseen])
    BY <1>3 DEF CreateLock, Change
  <2>2. /\ l \in Locks /\ l.owner = b /\ ~l.whole /\ l.target = Generation[b]
        /\ (l.accurate <=> l.before = disk.reports)
    <3>1. Generation[b] \in Generations /\ build[b].seen \in [Reports -> Contents]
      BY <1>1, ReportAssumption DEF ReaderInv
    <3> QED BY <3>1 DEF Locks
  <2> HIDE DEF l
  <2>3. Locked(disk, disk', l)
    BY <1>1, <2>1, <2>2, LockFields
  <2>4. Moves(b, build[b].pc, "fill-lock")
    BY <1>1, <2>1, <2>3, MoveDoes, FreshFields DEF Working, Locked
  <2> QED BY <1>1, <1>3, <2>1, <2>2, <2>3, <2>4
<1> QED BY <1>2, <1>3

LEMMA FillLockDoes ==
  ASSUME PlanInv, NEW b \in Builders, FillLock(b)
  PROVE  /\ Moves(b, "fill-lock", "capture") /\ Locked(disk, disk', WholeLock(disk, b))
         /\ \A e \in survivors' : \E d \in survivors : Locked(d, e, WholeLock(d, b))
<1>1. /\ plan' = plan /\ build[b].pc = "fill-lock" /\ Shaped /\ ReaderInv(b)
      /\ disk' = WithLock(disk, b) /\ survivors' = {WithLock(d, b) : d \in survivors}
      /\ Become(b, [pc |-> "capture"])
  BY DEF FillLock, Write, At, PlanInv
<1>2. \A d \in survivors : Locked(d, WithLock(d, b), WholeLock(d, b))
  BY <1>1, LockFields DEF Shaped
<1>3. disk \in survivors
  BY <1>1 DEF Shaped
<1>4. /\ Locked(disk, disk', WholeLock(disk, b)) /\ disk' \in survivors'
      /\ \A e \in survivors' : \E d \in survivors : Locked(d, e, WholeLock(d, b))
  BY <1>1, <1>2, <1>3
<1>5. /\ DOMAIN build' = Builders /\ \A c \in Builders : c # b => build'[c] = build[c]
      /\ build'[b].pc = "capture" /\ build'[b].loop = build[b].loop /\ build'[b].seen = build[b].seen
      /\ build'[b].at = build[b].at /\ build'[b].lock = build[b].lock
  BY <1>1, BecomeFields, FreshFields
<1>6. Acts(b)
  BY <1>1, <1>4, <1>5 DEF Acts, Locked
<1>7. ReaderInv(b)'
  BY <1>1, <1>4, <1>5 DEF ReaderInv, Working, Outside, Locked
<1> QED BY <1>1, <1>4, <1>5, <1>6, <1>7 DEF Moves

(* The lock that is there is taken for one's own, or taken over.           *)
LEMMA TakeDoes ==
  ASSUME PlanInv, NEW b \in Builders, CaptureLock(b) \/ Judge(b)
  PROVE  \/ Ends(b)
         \/ /\ Acts(b) /\ ReaderInv(b)' /\ Still
            /\ build'[b].pc = "work" /\ build'[b].lock = disk.lock /\ disk.lock # None /\ disk.lock.whole
            /\ \/ build[b].pc = "capture"
               \/ /\ build[b].pc = "judge" /\ disk.lock.target = Generation[b]
                  /\ build[disk.lock.owner].pc \in {"done", "gone"}
<1>1. /\ plan' = plan /\ Still /\ build[b].pc \in {"capture", "judge"} /\ Shaped /\ ReaderInv(b) /\ disk \in Directories
  BY DEF CaptureLock, Judge, Looks, At, PlanInv, Still, Shaped
<1>2. CASE \E answer : Answer(b, answer)
  BY <1>1, <1>2, LeaveDoes DEF Still
<1>3. CASE /\ disk.lock # None /\ disk.lock.whole /\ Become(b, [pc |-> "work", lock |-> disk.lock])
           /\ \/ build[b].pc = "capture"
              \/ /\ build[b].pc = "judge" /\ disk.lock.target = Generation[b]
                 /\ build[disk.lock.owner].pc \in {"done", "gone"}
  <2>1. /\ DOMAIN build' = Builders /\ \A c \in Builders : c # b => build'[c] = build[c]
        /\ build'[b].pc = "work" /\ build'[b].loop = build[b].loop /\ build'[b].seen = build[b].seen
        /\ build'[b].at = build[b].at /\ build'[b].lock = disk.lock
    BY <1>1, <1>3, BecomeFields, FreshFields
  <2>2. disk.lock \in Locks
    BY <1>1, <1>3 DEF Directories
  <2>3. Acts(b)
    BY <1>1, <2>1, DirectoryActs DEF Still
  <2>4. ReaderInv(b)'
    BY <1>1, <2>1, <2>2 DEF ReaderInv, Outside, Still
  <2> QED BY <1>1, <1>3, <2>1, <2>3, <2>4
<1> QED BY <1>2, <1>3 DEF CaptureLock, Judge, At

LEMMA InspectDoes ==
  ASSUME PlanInv, NEW b \in Builders, Inspect(b)
  PROVE  \/ Ends(b)
         \/ /\ Moves(b, "work", "classify") /\ Still /\ disk.lock = build[b].lock /\ Known(disk, disk.lock)
            /\ build'[b].seen = disk.reports
<1>1. /\ plan' = plan /\ disk' = disk /\ survivors' = survivors /\ build[b].pc = "work" /\ ReaderInv(b)
      /\ disk.reports \in [Reports -> Contents] /\ build[b].lock \in Locks /\ build[b].pc \notin Outside
  BY DEF Inspect, Looks, At, PlanInv, Shaped, Directories, ReaderInv, Working, Outside
<1>2. CASE \E answer : Answer(b, answer)
  BY <1>1, <1>2, LeaveDoes
<1>3. CASE /\ disk.lock = build[b].lock /\ Known(disk, build[b].lock)
           /\ Become(b, [pc |-> "classify", seen |-> disk.reports])
  <2>1. Moves(b, build[b].pc, "classify") /\ build'[b].seen = disk.reports
    BY <1>1, <1>3, MoveDoes
  <2> QED BY <1>1, <1>3, <2>1 DEF Still
<1> QED BY <1>2, <1>3 DEF Inspect

LEMMA ClassifyDoes ==
  ASSUME PlanInv, NEW b \in Builders, Classify(b)
  PROVE  \/ Ends(b)
         \/ /\ Still
            /\ LET l == build[b].lock
                   view == [disk EXCEPT !.reports = build[b].seen]
               IN \/ Moves(b, "classify", "sync") /\ Complete(view, l)
                  \/ \E i \in Reports :
                       /\ build'[b].at = i
                       /\ \/ Moves(b, "classify", "stage") /\ MayStage(view, l, i)
                          \/ Moves(b, "classify", "rename") /\ MayRename(view, l, i)
                          \/ Moves(b, "classify", "remove") /\ MayRemove(view, l, i)
<1> DEFINE l == build[b].lock
           view == [disk EXCEPT !.reports = build[b].seen]
<1>1. /\ plan' = plan /\ disk' = disk /\ survivors' = survivors /\ build[b].pc = "classify" /\ ReaderInv(b)
      /\ build[b].lock \in Locks /\ build[b].pc \notin Outside
  BY DEF Classify, Looks, At, PlanInv, ReaderInv, Working, Outside
<1>2. CASE \E answer : Answer(b, answer)
  BY <1>1, <1>2, LeaveDoes
<1>3. ASSUME NEW next \in {"sync", "stage", "rename", "remove"}, NEW i \in Reports,
             Become(b, [pc |-> next, at |-> i, seen |-> Unseen])
      PROVE  Moves(b, "classify", next) /\ build'[b].at = i
  BY <1>1, <1>3, MoveDoes, FreshFields
<1>4. \/ Complete(view, l) /\ Become(b, [pc |-> "sync", at |-> 1, seen |-> Unseen])
      \/ \E i \in Reports :
           \/ MayStage(view, l, i) /\ Become(b, [pc |-> "stage", at |-> i, seen |-> Unseen])
           \/ MayRename(view, l, i) /\ Become(b, [pc |-> "rename", at |-> i, seen |-> Unseen])
           \/ MayRemove(view, l, i) /\ Become(b, [pc |-> "remove", at |-> i, seen |-> Unseen])
      \/ \E answer : Answer(b, answer)
  BY DEF Classify
<1> HIDE DEF view, l
<1>5. CASE Complete(view, l) /\ Become(b, [pc |-> "sync", at |-> 1, seen |-> Unseen])
  BY <1>1, <1>3, <1>5, ReportNumbers DEF Still, view, l
<1>6. CASE \E i \in Reports :
           \/ MayStage(view, l, i) /\ Become(b, [pc |-> "stage", at |-> i, seen |-> Unseen])
           \/ MayRename(view, l, i) /\ Become(b, [pc |-> "rename", at |-> i, seen |-> Unseen])
           \/ MayRemove(view, l, i) /\ Become(b, [pc |-> "remove", at |-> i, seen |-> Unseen])
  BY <1>1, <1>3, <1>6 DEF Still, view, l
<1> QED BY <1>2, <1>4, <1>5, <1>6

(* The owner of the lock that b works under, and the place it works at.    *)
Owner(b) == build[b].lock.owner

LEMMA StageDoes ==
  ASSUME PlanInv, NEW b \in Builders, Stage(b) \/ Remove(b)
  PROVE  \/ Ends(b)
         \/ /\ Owner(b) \in Builders /\ build[b].at \in Reports /\ survivors' = survivors \cup {disk'}
            /\ \/ Moves(b, "stage", "fill") /\ Placed(disk, disk', Owner(b), build[b].at, b)
               \/ Moves(b, "remove", "removed") /\ Placed(disk, disk', Owner(b), build[b].at, None)
<1>1. /\ plan' = plan /\ build[b].pc \in {"stage", "remove"} /\ ReaderInv(b) /\ disk \in Directories
      /\ build[b].lock \in Locks /\ build[b].pc \notin Outside
  BY DEF Stage, Remove, At, PlanInv, Shaped, ReaderInv, Working, Outside
<1>2. Owner(b) \in Builders /\ build[b].at \in Reports /\ b \in Contents /\ None \in Contents
  BY <1>1, ContentsDiffer DEF Owner, Locks, ReaderInv
<1>3. CASE Misses(b)
  BY <1>1, <1>3, LeaveDoes DEF Misses
<1>4. CASE /\ build[b].pc = "stage" /\ Change([disk EXCEPT !.temps[Owner(b)][build[b].at] = b])
           /\ Become(b, [pc |-> "fill", at |-> 1])
  <2>1. Placed(disk, disk', Owner(b), build[b].at, b) /\ survivors' = survivors \cup {disk'}
    BY <1>1, <1>2, <1>4, PlaceFields DEF Change
  <2>2. Moves(b, build[b].pc, "fill")
    BY <1>1, <1>4, <2>1, MoveDoes, ReportNumbers DEF Placed
  <2> QED BY <1>2, <1>4, <2>1, <2>2
<1>5. CASE /\ build[b].pc = "remove" /\ Change([disk EXCEPT !.temps[Owner(b)][build[b].at] = None])
           /\ Become(b, [pc |-> "removed", at |-> 1])
  <2>1. Placed(disk, disk', Owner(b), build[b].at, None) /\ survivors' = survivors \cup {disk'}
    BY <1>1, <1>2, <1>5, PlaceFields DEF Change
  <2>2. Moves(b, build[b].pc, "removed")
    BY <1>1, <1>5, <2>1, MoveDoes, ReportNumbers DEF Placed
  <2> QED BY <1>2, <1>5, <2>1, <2>2
<1>6. CASE Stage(b)
  BY <1>3, <1>4, <1>6 DEF Stage, At, WithTemp, Owner
<1>7. CASE Remove(b)
  BY <1>3, <1>5, <1>7 DEF Remove, At, WithTemp, Owner
<1> QED BY <1>6, <1>7

LEMMA RenameDoes ==
  ASSUME PlanInv, NEW b \in Builders, Rename(b)
  PROVE  \/ Ends(b)
         \/ /\ Owner(b) \in Builders /\ build[b].at \in Reports /\ survivors' = survivors \cup {disk'}
            /\ Moves(b, "rename", "work")
            /\ \E u : /\ Placed(disk, u, Owner(b), build[b].at, None)
                      /\ Reported(u, disk', build[b].at, disk.temps[Owner(b)][build[b].at])
<1> DEFINE i == build[b].at
           o == Owner(b)
           v == disk.temps[o][i]
           u == [disk EXCEPT !.temps[o][i] = None]
<1>1. /\ plan' = plan /\ build[b].pc = "rename" /\ ReaderInv(b) /\ disk \in Directories
      /\ build[b].lock \in Locks /\ build[b].pc \notin Outside
  BY DEF Rename, At, PlanInv, Shaped, ReaderInv, Working, Outside
<1>2. o \in Builders /\ i \in Reports /\ v \in Contents /\ None \in Contents
  BY <1>1, ContentsDiffer DEF Owner, Locks, ReaderInv, Directories
<1>3. CASE Misses(b)
  BY <1>1, <1>3, LeaveDoes DEF Misses
<1>4. CASE /\ disk' = [u EXCEPT !.reports[i] = v] /\ survivors' = survivors \cup {disk'}
           /\ Become(b, [pc |-> "work", at |-> 1])
  <2>1. Placed(disk, u, o, i, None)
    BY <1>1, <1>2, PlaceFields
  <2> HIDE DEF u
  <2>2. Reported(u, disk', i, v)
    BY <1>2, <1>4, <2>1, ReportFields DEF Placed
  <2>3. Moves(b, build[b].pc, "work")
    BY <1>1, <1>4, <2>1, <2>2, MoveDoes, ReportNumbers DEF Placed, Reported
  <2> QED BY <1>1, <1>2, <1>4, <2>1, <2>2, <2>3
<1> QED BY <1>3, <1>4 DEF Rename, WithTemp, Temp, Owner, Change

LEMMA FillTempDoes ==
  ASSUME PlanInv, NEW b \in Builders, FillTemp(b)
  PROVE  /\ Moves(b, "fill", "work") /\ Written(disk, disk', b)
         /\ \A e \in survivors' : \E d \in survivors : Written(d, e, b)
<1>1. /\ plan' = plan /\ build[b].pc = "fill" /\ Shaped /\ ReaderInv(b)
      /\ disk' = WithContent(disk, b) /\ survivors' = {WithContent(d, b) : d \in survivors}
      /\ Become(b, [pc |-> "work"])
  BY DEF FillTemp, Write, At, PlanInv
<1>2. \A d \in survivors : Written(d, WithContent(d, b), b)
  BY <1>1, ContentFields DEF Shaped
<1>3. disk \in survivors
  BY <1>1 DEF Shaped
<1>4. /\ Written(disk, disk', b) /\ disk' \in survivors'
      /\ \A e \in survivors' : \E d \in survivors : Written(d, e, b)
  BY <1>1, <1>2, <1>3
<1>5. /\ DOMAIN build' = Builders /\ \A c \in Builders : c # b => build'[c] = build[c]
      /\ build'[b].pc = "work" /\ build'[b].loop = build[b].loop /\ build'[b].seen = build[b].seen
      /\ build'[b].at = build[b].at /\ build'[b].lock = build[b].lock
  BY <1>1, BecomeFields, FreshFields
<1>6. Acts(b)
  BY <1>1, <1>4, <1>5 DEF Acts, Written
<1>7. ReaderInv(b)'
  BY <1>1, <1>4, <1>5 DEF ReaderInv, Working, Outside, Written
<1> QED BY <1>1, <1>4, <1>5, <1>6, <1>7 DEF Moves

LEMMA SyncDoes ==
  ASSUME PlanInv, NEW b \in Builders, SyncRemoved(b) \/ SyncReports(b) \/ SyncUnlock(b)
  PROVE  /\ disk' = disk /\ survivors' = {disk}
         /\ Moves(b, "removed", "work") \/ Moves(b, "sync", "check") \/ Ends(b)
<1>1. /\ plan' = plan /\ disk' = disk /\ survivors' = {disk} /\ Shaped /\ ReaderInv(b)
      /\ \/ build[b].pc = "removed" /\ Become(b, [pc |-> "work"])
         \/ build[b].pc = "sync" /\ Become(b, [pc |-> "check"])
         \/ build[b].pc = "last" /\ Answer(b, "ok")
  BY DEF SyncRemoved, SyncReports, SyncUnlock, SyncDirectory, At, PlanInv
<1>2. build[b].pc \in Working => build[b].lock \in Locks
  BY <1>1 DEF ReaderInv
<1>3. CASE build[b].pc = "removed" /\ Become(b, [pc |-> "work"])
  BY <1>1, <1>2, <1>3, MoveDoes DEF Outside, Working
<1>4. CASE build[b].pc = "sync" /\ Become(b, [pc |-> "check"])
  BY <1>1, <1>2, <1>4, MoveDoes DEF Outside, Working
<1>5. CASE build[b].pc = "last" /\ Answer(b, "ok")
  BY <1>1, <1>5, LeaveDoes
<1> QED BY <1>1, <1>3, <1>4, <1>5

LEMMA UnlockDoes ==
  ASSUME PlanInv, NEW b \in Builders, CheckLock(b) \/ Unlock(b)
  PROVE  \/ Ends(b)
         \/ Moves(b, "check", "unlink") /\ Still /\ disk.lock = build[b].lock
         \/ /\ Moves(b, "unlink", "last") /\ disk.lock # None /\ Locked(disk, disk', None)
            /\ survivors' = survivors \cup {disk'} /\ Unlock(b)
<1>1. /\ plan' = plan /\ build[b].pc \in {"check", "unlink"} /\ ReaderInv(b) /\ disk \in Directories
      /\ build[b].lock \in Locks /\ build[b].pc \notin Outside
  BY DEF CheckLock, Unlock, Looks, At, PlanInv, Shaped, ReaderInv, Working, Outside
<1>2. CASE Misses(b) \/ (Still /\ Answer(b, "REPORT_BUILD_STALE_LOCK"))
  BY <1>1, <1>2, LeaveDoes DEF Misses, Still
<1>3. CASE build[b].pc = "check" /\ disk.lock = build[b].lock /\ Become(b, [pc |-> "unlink"]) /\ Still
  <2>1. Moves(b, build[b].pc, "unlink")
    BY <1>1, <1>3, MoveDoes DEF Still
  <2> QED BY <1>3, <2>1
<1>4. CASE /\ Unlock(b) /\ disk.lock # None /\ Become(b, [pc |-> "last"])
           /\ disk' = [disk EXCEPT !.lock = None] /\ survivors' = survivors \cup {disk'}
  <2>1. Locked(disk, disk', None)
    BY <1>1, <1>4, LockFields
  <2>2. Moves(b, build[b].pc, "last") /\ build[b].pc = "unlink"
    BY <1>1, <1>4, <2>1, MoveDoes DEF Locked, Working, Unlock, At
  <2> QED BY <1>4, <2>1, <2>2
<1>5. CASE CheckLock(b)
  BY <1>2, <1>3, <1>5 DEF CheckLock, Looks, Still, At
<1>6. CASE Unlock(b)
  BY <1>2, <1>4, <1>6 DEF Unlock, Change
<1> QED BY <1>5, <1>6

LEMMA StopBuildDoes ==
  ASSUME PlanInv, NEW b \in Builders, BuildFails(b) \/ BuilderDies(b)
  PROVE  Ends(b)
<1>1. /\ plan' = plan /\ disk' = disk /\ survivors' = survivors /\ build[b].pc # "idle"
      /\ \/ \E answer : Answer(b, answer)
         \/ build' = [build EXCEPT ![b] = [Fresh EXCEPT !.pc = "gone"]]
  BY DEF BuildFails, BuilderDies, Looks
<1> QED BY <1>1, LeaveDoes

LEMMA BuildActs ==
  ASSUME PlanInv, NEW b \in Builders, Build(b) \/ BuildFails(b) \/ BuilderDies(b)
  PROVE  Acts(b) /\ ReaderInv(b)'
<1>1. CASE List(b) \/ ReadPlan(b) \/ ReadMembers(b) \/ CaptureBefore(b)
  BY <1>1, ReadActs
<1>2. CASE CreateLock(b) \/ FillLock(b) \/ CaptureLock(b) \/ Judge(b)
  BY <1>2, CreateDoes, FillLockDoes, TakeDoes DEF Moves, Ends
<1>3. CASE Inspect(b) \/ Classify(b) \/ Stage(b) \/ FillTemp(b) \/ Rename(b) \/ Remove(b)
  BY <1>3, InspectDoes, ClassifyDoes, StageDoes, FillTempDoes, RenameDoes DEF Moves, Ends
<1>4. CASE SyncRemoved(b) \/ SyncReports(b) \/ CheckLock(b) \/ Unlock(b) \/ SyncUnlock(b)
  BY <1>4, SyncDoes, UnlockDoes DEF Moves, Ends
<1>5. CASE BuildFails(b) \/ BuilderDies(b)
  BY <1>5, StopBuildDoes DEF Ends
<1> QED BY <1>1, <1>2, <1>3, <1>4, <1>5 DEF Build

(* Whoever had begun is gone.                                              *)
LEMMA PowerDoes ==
  ASSUME PlanInv, PowerLoss
  PROVE  /\ \E d \in survivors : disk' = d /\ survivors' = {d}
         /\ DOMAIN plan' = Planners /\ DOMAIN build' = Builders
         /\ \A k \in Planners : /\ plan'[k].pc \notin Planning /\ (plan'[k].answer = "ok" => plan[k].answer = "ok")
                                /\ (plan'[k].pc = "idle" => plan[k].pc = "idle")
         /\ \A b \in Builders : /\ build'[b].pc \in {"idle", "done", "gone"} /\ ReaderInv(b)'
                                /\ (build[b].pc = "idle" => build'[b].pc = "idle")
<1>1. \A k \in Planners : /\ plan'[k].pc \notin Planning /\ (plan'[k].answer = "ok" => plan[k].answer = "ok")
                          /\ (plan'[k].pc = "idle" => plan[k].pc = "idle")
  BY DEF PowerLoss, Planning
<1>2. ASSUME NEW b \in Builders
      PROVE  /\ build'[b].pc \in {"idle", "done", "gone"} /\ ReaderInv(b)'
             /\ (build[b].pc = "idle" => build'[b].pc = "idle")
  <2>1. ReaderInv(b)
    BY DEF PlanInv
  <2>2. /\ [Fresh EXCEPT !.pc = "gone"].pc = "gone" /\ [Fresh EXCEPT !.pc = "gone"].loop = "absent"
        /\ [Fresh EXCEPT !.pc = "gone"].seen = Unseen /\ [Fresh EXCEPT !.pc = "gone"].at = 1
    BY DEF Fresh
  <2>3. build'[b] = IF build[b].pc \in {"idle", "done"} THEN build[b] ELSE [Fresh EXCEPT !.pc = "gone"]
    BY DEF PowerLoss
  <2> QED BY <2>1, <2>2, <2>3, FreshFields, ReportNumbers DEF ReaderInv, Outside, Working
<1> QED BY <1>1, <1>2 DEF PowerLoss

LEMMA PowerPlan == ASSUME PlanInv, PowerLoss PROVE PlanInv'
<1>1. /\ \E d \in survivors : disk' = d /\ survivors' = {d}
      /\ DOMAIN plan' = Planners /\ DOMAIN build' = Builders
      /\ \A k \in Planners : /\ plan'[k].pc \notin Planning /\ (plan'[k].answer = "ok" => plan[k].answer = "ok")
                             /\ (plan'[k].pc = "idle" => plan[k].pc = "idle")
      /\ \A b \in Builders : ReaderInv(b)' /\ (build[b].pc = "idle" => build'[b].pc = "idle")
  BY PowerDoes
<1>2. ASSUME NEW k \in Planners PROVE PlannerInv(k)'
  <2>1. PlannerInv(k) /\ \A j \in Planners : plan'[j].pc \notin Planning
    BY <1>1 DEF PlanInv
  <2> QED BY <1>1, <2>1 DEF PlannerInv, Planning, At
<1>3. OnePlanner'
  BY <1>1 DEF OnePlanner
<1>4. Shaped' /\ \A e \in survivors' : CoreInv(e)
  BY <1>1 DEF Shaped, PlanInv
<1> QED BY <1>1, <1>2, <1>3, <1>4 DEF PlanInv

Plans(k) == Allocate(k) \/ Reserve(k) \/ WriteMember(k) \/ SyncRun(k) \/ PlanFails(k) \/ PlannerDies(k)
Builds(b) == Build(b) \/ BuildFails(b) \/ BuilderDies(b)

LEMMA PlanStep == PlanInv /\ [Next]_vars => PlanInv'
<1> SUFFICES ASSUME PlanInv, [Next]_vars PROVE PlanInv'
  OBVIOUS
<1>1. CASE UNCHANGED vars
  <2>1. disk' = disk /\ survivors' = survivors /\ plan' = plan /\ build' = build
    BY <1>1 DEF vars
  <2>2. (Shaped' <=> Shaped) /\ (OnePlanner' <=> OnePlanner)
    BY <2>1 DEF Shaped, OnePlanner
  <2>3. /\ \A k \in Planners : PlannerInv(k)' <=> PlannerInv(k)
        /\ \A b \in Builders : ReaderInv(b)' <=> ReaderInv(b)
    BY <2>1 DEF PlannerInv, ReaderInv, At
  <2> QED BY <2>1, <2>2, <2>3 DEF PlanInv
<1>2. CASE PowerLoss
  BY <1>2, PowerPlan
<1>3. ASSUME NEW k \in Planners, Plans(k) PROVE PlanInv'
  BY <1>3, AllocatePlan, ReservePlan, WriteMemberPlan, SyncRunPlan, PlannerStopsPlan DEF Plans
<1>4. ASSUME NEW b \in Builders, Builds(b) PROVE PlanInv'
  BY <1>4, BuildActs, ActsKeep DEF Builds
<1> QED BY <1>1, <1>2, <1>3, <1>4 DEF Next, Plans, Builds

LEMMA PlanHolds == Spec => []PlanInv
<1> QED BY PlanInit, PlanStep, PTL DEF Spec

(* Whoever reads a plan reads it whole, with the loop that was planned, and *)
(* a planner that answered ok has left a plan that no power loss takes     *)
(* away: the members are written in order and the plan last                *)
(* (output-capabilities.ts:1117-1130, capture-planned-v02.ts:84-135).      *)
THEOREM WholePlansAreRead == Spec => []PlansAreWhole
<1>1. PlanInv => PlansAreWhole
  <2> SUFFICES ASSUME PlanInv PROVE PlansAreWhole
    OBVIOUS
  <2>1. \A k \in Planners : plan[k].answer = "ok" => \A d \in survivors, m \in Core : d.core[m] = "whole"
    BY DEF PlanInv, PlannerInv
  <2>2. \A b \in Builders : build[b].loop \in {"absent", "whole"}
    BY DEF PlanInv, ReaderInv
  <2> QED BY <2>1, <2>2 DEF PlansAreWhole
<1> QED BY <1>1, PlanHolds, PTL

-----------------------------------------------------------------------------
(* What is kept while locks are taken over alone                           *)

Clean(d) == \A c \in Builders, i \in Reports : d.temps[c][i] = None

Uniform(d) == \A i, j \in Reports : d.reports[i] = d.reports[j]

(* Under a lock that was never written whole, or that is not accurate,     *)
(* nothing has been begun; under any other the work can be resumed.        *)
Promised(d, l) ==
  IF l.whole /\ l.accurate THEN Resumable(d, l)
  ELSE Clean(d) /\ (l.accurate <=> l.before = d.reports)

(* Who writes a temporary has the lock's target to write.                  *)
DirectoryInv(d) ==
  /\ \A i \in Reports : d.reports[i] \notin Builders
  /\ d.lock = None => Clean(d) /\ Uniform(d)
  /\ d.lock # None => Promised(d, d.lock)
  /\ \A c, b \in Builders, i \in Reports : d.temps[c][i] = b /\ d.lock # None => Generation[b] = d.lock.target

(* In the hands of whom the lock is.                                       *)
Holding == {"fill-lock", "capture"} \cup Working

OneHolder == \A b, c \in Builders : build[b].pc \in Holding /\ build[c].pc \in Holding => b = c

BuilderInv(b) ==
  /\ build[b].pc \in Holding =>
       disk.lock # None /\ disk.lock.target = Generation[b]
  /\ build[b].pc \in {"fill-lock", "capture"} => disk.lock.owner = b
  /\ build[b].pc \in Working => disk.lock = build[b].lock /\ disk.lock.whole
  /\ build[b].pc \in Working \ {"work", "fill", "removed"} => Known(disk, disk.lock)
  /\ build[b].pc = "classify" => build[b].seen = disk.reports
  /\ build[b].pc = "stage" => MayStage(disk, disk.lock, build[b].at)
  /\ build[b].pc = "rename" => MayRename(disk, disk.lock, build[b].at)
  /\ build[b].pc = "remove" => MayRemove(disk, disk.lock, build[b].at)
  /\ build[b].pc \in {"sync", "check", "unlink"} => Complete(disk, disk.lock)
  /\ build[b].pc \in {"check", "unlink"} => \A d \in survivors, i \in Reports : d.reports[i] = disk.lock.target

WorkInv ==
  /\ \A d \in survivors : DirectoryInv(d)
  /\ OneHolder /\ \A b \in Builders : BuilderInv(b)

LEMMA WorkInit == Init => WorkInv
<1> SUFFICES ASSUME Init PROVE WorkInv
  OBVIOUS
<1>1. DirectoryInv(EmptyDirectory)
  BY ContentsDiffer DEF EmptyDirectory, DirectoryInv, Clean, Uniform
<1>2. \A b \in Builders : build[b].pc = "idle"
  BY FreshFields DEF Init
<1> QED BY <1>1, <1>2 DEF Init, WorkInv, OneHolder, BuilderInv, Holding, Working

LEMMA EntriesFacts ==
  ASSUME NEW d
  PROVE  /\ Clean(d) <=> Entries(d) = {}
         /\ \A l : Known(d, l) <=> \A c \in Builders, i \in Reports : d.temps[c][i] # None => c = l.owner
<1>1. \A c \in Builders, i \in Reports : <<c, i>> \in Entries(d) <=> d.temps[c][i] # None
  BY DEF Entries
<1>2. \A e \in Entries(d) : e = <<e[1], e[2]>> /\ e[1] \in Builders /\ e[2] \in Reports
  BY DEF Entries
<1>3. Clean(d) <=> Entries(d) = {}
  <2>1. ASSUME Clean(d), NEW e \in Entries(d) PROVE FALSE
    BY <1>2, <2>1 DEF Clean, Entries
  <2>2. ASSUME Entries(d) = {} PROVE Clean(d)
    BY <1>1, <2>2 DEF Clean
  <2> QED BY <2>1, <2>2
<1>4. ASSUME NEW l
      PROVE  Known(d, l) <=> \A c \in Builders, i \in Reports : d.temps[c][i] # None => c = l.owner
  <2>1. ASSUME Known(d, l), NEW c \in Builders, NEW i \in Reports, d.temps[c][i] # None PROVE c = l.owner
    BY <1>1, <2>1 DEF Known
  <2>2. ASSUME \A c \in Builders, i \in Reports : d.temps[c][i] # None => c = l.owner, NEW e \in Entries(d)
        PROVE  e[1] = l.owner
    BY <1>2, <2>2 DEF Entries
  <2> QED BY <2>1, <2>2 DEF Known
<1> QED BY <1>3, <1>4

(* What is decided about a directory is decided by its reports and         *)
(* temporaries.                                                            *)
Alike(d, e) == e.lock = d.lock /\ e.temps = d.temps /\ e.reports = d.reports

LEMMA AlikeFacts ==
  ASSUME NEW d, NEW e, Alike(d, e)
  PROVE  /\ \A l : /\ (Complete(e, l) <=> Complete(d, l)) /\ (Known(e, l) <=> Known(d, l))
                   /\ \A i : /\ (MayStage(e, l, i) <=> MayStage(d, l, i)) /\ (MayRename(e, l, i) <=> MayRename(d, l, i))
                             /\ (MayRemove(e, l, i) <=> MayRemove(d, l, i))
         /\ DirectoryInv(d) => DirectoryInv(e)
<1>1. Entries(e) = Entries(d)
  BY DEF Alike, Entries
<1>2. \A l : (Complete(e, l) <=> Complete(d, l)) /\ (Known(e, l) <=> Known(d, l))
  BY <1>1 DEF Alike, Complete, Known
<1>3. \A l, i : /\ (MayStage(e, l, i) <=> MayStage(d, l, i)) /\ (MayRename(e, l, i) <=> MayRename(d, l, i))
                /\ (MayRemove(e, l, i) <=> MayRemove(d, l, i))
  BY <1>2 DEF Alike, MayStage, MayRename, MayRemove
<1>4. \A l : Promised(d, l) => Promised(e, l)
  BY <1>2, <1>3 DEF Alike, Promised, Clean, Resumable, Recognized
<1> QED BY <1>2, <1>3, <1>4 DEF Alike, DirectoryInv, Clean, Uniform

(* Work has begun only under an accurate lock, whose owner has all of the  *)
(* temporaries.                                                            *)
LEMMA Begun ==
  ASSUME NEW d \in Directories, DirectoryInv(d), d.lock # None, d.lock.whole, NEW i \in Reports,
         MayStage(d, d.lock, i) \/ MayRename(d, d.lock, i) \/ MayRemove(d, d.lock, i)
  PROVE  /\ d.lock \in Locks /\ d.lock.owner \in Builders /\ d.lock.target \in Generations
         /\ d.lock.accurate /\ Known(d, d.lock)
<1>1. d.lock \in Locks /\ d.lock.owner \in Builders /\ d.lock.target \in Generations
  BY DEF Directories, Locks
<1>2. Promised(d, d.lock)
  BY DEF DirectoryInv
<1>3. d.lock.accurate
  <2> SUFFICES ASSUME ~d.lock.accurate PROVE FALSE
    OBVIOUS
  <2>1. d.lock.before # d.reports /\ \A j \in Reports : d.temps[d.lock.owner][j] = None
    BY <1>1, <1>2 DEF Promised, Clean
  <2>2. MayRename(d, d.lock, i)
    BY <2>1 DEF MayStage, MayRemove
  <2>3. d.temps[d.lock.owner][i] = d.lock.target
    BY <2>2, ReportNumbers DEF MayRename
  <2> QED BY <1>1, <2>1, <2>3, ContentsDiffer
<1> QED BY <1>1, <1>2, <1>3 DEF Promised, Resumable

-----------------------------------------------------------------------------
(* Each change of a directory keeps what is said of it                     *)

(* A change that is about the temporaries and reports of the lock's owner  *)
(* alone, and leaves work that can be resumed.                             *)
OwnersOnly(d, e) == \A c \in Builders, i \in Reports : c # d.lock.owner => e.temps[c][i] = d.temps[c][i]

WritersKnown(e) ==
  /\ \A i \in Reports : e.reports[i] \notin Builders
  /\ \A c, b \in Builders, i \in Reports : e.temps[c][i] = b => Generation[b] = e.lock.target

LEMMA WorkGood ==
  ASSUME NEW d, DirectoryInv(d), NEW e, e.lock = d.lock, d.lock # None, d.lock.accurate, d.lock.whole,
         Known(d, d.lock), OwnersOnly(d, e), Recognized(e, e.lock), WritersKnown(e)
  PROVE  DirectoryInv(e)
<1>1. Known(e, e.lock)
  BY EntriesFacts DEF OwnersOnly
<1>2. Promised(e, e.lock)
  BY <1>1 DEF Promised, Resumable
<1> QED BY <1>2 DEF DirectoryInv, WritersKnown

LEMMA StageGood ==
  ASSUME NEW d \in Directories, DirectoryInv(d), d.lock # None, d.lock.whole, NEW i \in Reports,
         MayStage(d, d.lock, i), NEW b \in Builders, d.lock.target = Generation[b],
         NEW e, Placed(d, e, d.lock.owner, i, b)
  PROVE  DirectoryInv(e)
<1>1. /\ d.lock.owner \in Builders /\ d.lock.accurate /\ Known(d, d.lock) /\ d.lock.target \in Generations
  BY Begun
<1>2. b # None /\ b # d.lock.target
  BY <1>1, ContentsDiffer
<1>3. MayRemove(e, e.lock, i)
  BY <1>1, <1>2, ReportNumbers DEF MayStage, MayRemove, Placed
<1>4. Recognized(e, e.lock) /\ OwnersOnly(d, e)
  BY <1>3 DEF Recognized, OwnersOnly, Placed
<1>5. WritersKnown(e)
  BY DEF WritersKnown, Placed, DirectoryInv
<1> QED BY <1>1, <1>4, <1>5, WorkGood DEF Placed

LEMMA RenameGood ==
  ASSUME NEW d \in Directories, DirectoryInv(d), d.lock # None, d.lock.whole, NEW i \in Reports,
         MayRename(d, d.lock, i), NEW u, Placed(d, u, d.lock.owner, i, None),
         NEW e, Reported(u, e, i, d.temps[d.lock.owner][i])
  PROVE  DirectoryInv(e)
<1>1. /\ d.lock.owner \in Builders /\ d.lock.target \in Generations /\ d.lock.accurate /\ Known(d, d.lock)
  BY Begun
<1>2. d.temps[d.lock.owner][i] = d.lock.target
  BY ReportNumbers DEF MayRename
<1>3. /\ e.lock = d.lock
      /\ \A j \in Reports : e.reports[j] = IF j = i THEN d.lock.target ELSE d.reports[j]
      /\ \A c \in Builders, j \in Reports :
           e.temps[c][j] = IF c = d.lock.owner /\ j = i THEN None ELSE d.temps[c][j]
  BY <1>2 DEF Placed, Reported
<1>4. Complete(e, e.lock) \/ \E j \in Reports : MayRename(e, e.lock, j)
  <2>1. CASE i = 3
    <3>1. ASSUME NEW j \in Reports, j # i
          PROVE  d.reports[j] = d.lock.target /\ d.temps[d.lock.owner][j] = None
      BY <2>1, <3>1, ReportNumbers DEF MayRename
    <3> QED BY <1>1, <1>3, <3>1 DEF Complete
  <2>2. CASE i + 1 \in Reports
    <3>1. MayRename(e, e.lock, i + 1)
      BY <1>1, <1>3, <2>2, ReportNumbers DEF MayRename
    <3> QED BY <2>2, <3>1
  <2> QED BY <2>1, <2>2, ReportNumbers
<1>5. Recognized(e, e.lock) /\ OwnersOnly(d, e)
  BY <1>3, <1>4 DEF Recognized, OwnersOnly
<1>6. WritersKnown(e)
  BY <1>1, <1>3, ContentsDiffer DEF WritersKnown, DirectoryInv
<1> QED BY <1>1, <1>3, <1>5, <1>6, WorkGood

LEMMA RemoveGood ==
  ASSUME NEW d \in Directories, DirectoryInv(d), d.lock # None, d.lock.whole, NEW i \in Reports,
         MayRemove(d, d.lock, i), NEW e, Placed(d, e, d.lock.owner, i, None)
  PROVE  DirectoryInv(e)
<1>1. /\ d.lock.owner \in Builders /\ d.lock.accurate /\ Known(d, d.lock)
  BY Begun
<1>2. Complete(e, e.lock) \/ MayStage(e, e.lock, i)
  BY <1>1, ReportNumbers DEF MayStage, MayRemove, Placed
<1>3. Recognized(e, e.lock) /\ OwnersOnly(d, e)
  BY <1>2 DEF Recognized, OwnersOnly, Placed
<1>4. WritersKnown(e)
  BY ContentsDiffer DEF WritersKnown, Placed, DirectoryInv
<1> QED BY <1>1, <1>3, <1>4, WorkGood DEF Placed

(* What is written to a temporary is in it in every directory.             *)
LEMMA ContentGood ==
  ASSUME NEW d \in Directories, DirectoryInv(d), NEW b \in Builders, NEW e, Written(d, e, b)
  PROVE  DirectoryInv(e)
<1>1. /\ e.lock = d.lock /\ \A j \in Reports : e.reports[j] = d.reports[j]
      /\ \A c \in Builders, j \in Reports : e.temps[c][j] = Full(b, d.temps[c][j])
  BY DEF Written, Full, DirectoryInv
<1>2. e.reports = d.reports
  BY <1>1 DEF Written, Directories
<1>3. CASE \A c \in Builders, j \in Reports : d.temps[c][j] # b
  <2>1. e.temps = d.temps
    BY <1>1, <1>3 DEF Full, Written, Directories
  <2> QED BY <1>1, <1>2, <2>1, AlikeFacts DEF Alike
<1>4. CASE \E c \in Builders, j \in Reports : d.temps[c][j] = b
  <2>1. PICK o \in Builders, i \in Reports : d.temps[o][i] = b
    BY <1>4
  <2>2. d.lock # None /\ ~Clean(d) /\ Promised(d, d.lock) /\ b # None
    BY <2>1, ContentsDiffer DEF DirectoryInv, Clean
  <2>3. d.lock.whole /\ d.lock.accurate /\ Resumable(d, d.lock) /\ d.lock \in Locks
    BY <2>2 DEF Promised, Directories
  <2>4. Known(d, d.lock) /\ o = d.lock.owner /\ Generation[b] = d.lock.target /\ b # d.lock.target
        /\ d.lock.target \in Generations
    BY <2>1, <2>2, <2>3, EntriesFacts, ContentsDiffer DEF Resumable, DirectoryInv, Locks
  <2>5. MayRemove(d, d.lock, i)
    <3>1. \A j \in Reports : d.temps[o][j] = b => MayRemove(d, d.lock, j) \/ \E k \in Reports : MayRemove(d, d.lock, k)
      BY <2>2, <2>3, <2>4 DEF Resumable, Recognized, Complete, MayStage, MayRename
    <3>2. PICK k \in Reports : MayRemove(d, d.lock, k)
      BY <2>1, <3>1
    <3>3. k = i
      BY <2>1, <2>2, <2>4, <3>2 DEF MayRemove, Reports
    <3> QED BY <3>2, <3>3
  <2>6. \A j \in Reports : e.temps[o][j] = IF j = i THEN d.lock.target ELSE d.temps[o][j]
    <3>1. ASSUME NEW j \in Reports, j # i PROVE d.temps[o][j] # b
      BY <2>2, <2>4, <2>5, <3>1 DEF MayRemove, Reports
    <3> QED BY <1>1, <2>1, <2>4, <3>1 DEF Full
  <2>7. \E j \in Reports : MayRename(e, e.lock, j) \/ MayStage(e, e.lock, j)
    <3>1. CASE i = 3
      <4>1. MayRename(e, e.lock, 1)
        BY <1>1, <1>2, <2>4, <2>5, <2>6, <3>1, ReportNumbers DEF MayRemove, MayRename
      <4> QED BY <4>1, ReportNumbers
    <3>2. CASE i + 1 \in Reports
      <4>1. ~Complete(e, e.lock)
        BY <1>1, <2>4, <2>6, ContentsDiffer DEF Complete
      <4>2. MayStage(e, e.lock, i + 1)
        BY <1>1, <1>2, <2>4, <2>5, <2>6, <3>2, <4>1, ReportNumbers DEF MayRemove, MayStage
      <4> QED BY <3>2, <4>2
    <3> QED BY <3>1, <3>2, ReportNumbers
  <2>8. Recognized(e, e.lock)
    BY <2>7 DEF Recognized
  <2>9. ASSUME NEW c \in Builders, NEW j \in Reports, c # d.lock.owner PROVE e.temps[c][j] = d.temps[c][j]
    <3>1. d.temps[c][j] = None
      BY <2>4, <2>9, EntriesFacts
    <3> QED BY <1>1, <2>2, <3>1 DEF Full
  <2>10. WritersKnown(e)
    <3>1. \A i2 \in Reports : e.reports[i2] \notin Builders
      BY <1>1 DEF DirectoryInv
    <3>2. ASSUME NEW c \in Builders, NEW a \in Builders, NEW j \in Reports, e.temps[c][j] = a
          PROVE  Generation[a] = e.lock.target
      <4>1. CASE c = o /\ j = i
        BY <2>4, <2>6, <3>2, <4>1, ContentsDiffer
      <4>2. CASE ~(c = o /\ j = i)
        <5>1. d.temps[c][j] = a
          BY <2>4, <2>6, <2>9, <3>2, <4>2
        <5> QED BY <1>1, <2>2, <5>1 DEF DirectoryInv
      <4> QED BY <4>1, <4>2
    <3> QED BY <3>1, <3>2 DEF WritersKnown
  <2> QED BY <1>1, <2>2, <2>3, <2>4, <2>8, <2>9, <2>10, WorkGood DEF OwnersOnly
<1> QED BY <1>3, <1>4

(* A lock that is written whole: the work can begin if the set it names is *)
(* there.                                                                  *)
LEMMA LockGood ==
  ASSUME NEW d \in Directories, DirectoryInv(d), NEW b \in Builders, NEW e, Locked(d, e, WholeLock(d, b))
  PROVE  DirectoryInv(e)
<1>1. CASE ~(d.lock # None /\ d.lock.owner = b)
  BY <1>1, AlikeFacts DEF WholeLock, Locked, Alike
<1>2. CASE d.lock # None /\ d.lock.owner = b
  <2> DEFINE l == [d.lock EXCEPT !.whole = TRUE]
  <2>1. d.lock \in Locks
    BY <1>2 DEF Directories
  <2>2. /\ l \in Locks /\ l.whole = TRUE /\ l.accurate = d.lock.accurate /\ l.before = d.lock.before
        /\ l.owner = d.lock.owner /\ l.target = d.lock.target /\ l # None
    BY <2>1, NoneIsNoLock DEF Locks
  <2>3. e.temps = d.temps /\ e.reports = d.reports /\ e.lock = l
    BY <1>2 DEF Locked, WholeLock
  <2> HIDE DEF l
  <2>5. Promised(d, d.lock)
    BY <1>2 DEF DirectoryInv
  <2>6. Promised(e, l)
    <3>1. CASE d.lock.whole /\ d.lock.accurate
      <4>1. Resumable(d, d.lock)
        BY <2>5, <3>1 DEF Promised
      <4>2. Known(e, l)
        BY <2>2, <2>3, <4>1, EntriesFacts DEF Resumable
      <4>3. Recognized(e, l)
        <5>1. Complete(d, d.lock) => Complete(e, l)
          BY <2>2, <2>3 DEF Complete
        <5>2. \A i \in Reports : MayRename(d, d.lock, i) => MayRename(e, l, i)
          BY <2>2, <2>3 DEF MayRename
        <5>3. \A i \in Reports : MayRemove(d, d.lock, i) => MayRemove(e, l, i)
          BY <2>2, <2>3 DEF MayRemove
        <5>4. \A i \in Reports : MayStage(d, d.lock, i) => MayStage(e, l, i) \/ Complete(e, l)
          BY <2>2, <2>3 DEF MayStage
        <5> QED BY <4>1, <5>1, <5>2, <5>3, <5>4 DEF Resumable, Recognized
      <4> QED BY <2>2, <3>1, <4>2, <4>3 DEF Promised, Resumable
    <3>2. CASE ~(d.lock.whole /\ d.lock.accurate)
      <4>1. Clean(e) /\ (l.accurate <=> l.before = e.reports)
        BY <2>2, <2>3, <2>5, <3>2 DEF Promised, Clean
      <4>2. CASE l.accurate
        <5>1. Known(e, l)
          BY <4>1, EntriesFacts DEF Clean
        <5>2. l.owner \in Builders
          BY <2>2 DEF Locks
        <5>3. Complete(e, l) \/ MayStage(e, l, 1)
          BY <4>1, <4>2, <5>2, ReportNumbers DEF MayStage, Clean
        <5> QED BY <4>2, <2>2, <5>1, <5>3, ReportNumbers DEF Promised, Resumable, Recognized
      <4>3. CASE ~l.accurate
        BY <4>1, <4>3 DEF Promised
      <4> QED BY <4>2, <4>3
    <3> QED BY <3>1, <3>2
  <2> QED BY <1>2, <2>2, <2>3, <2>6 DEF DirectoryInv
<1> QED BY <1>1, <1>2

LEMMA CreateGood ==
  ASSUME NEW d \in Directories, DirectoryInv(d), d.lock = None, NEW l \in Locks, ~l.whole,
         l.accurate <=> l.before = d.reports, NEW e, Locked(d, e, l)
  PROVE  DirectoryInv(e)
<1>1. Promised(e, l)
  BY DEF Promised, DirectoryInv, Clean, Locked
<1>2. Clean(e) /\ l # None
  BY NoneIsNoLock DEF DirectoryInv, Clean, Locked
<1> QED BY <1>1, <1>2, ContentsDiffer DEF DirectoryInv, Locked, Clean

LEMMA UnlockGood ==
  ASSUME NEW d \in Directories, DirectoryInv(d), d.lock # None, Complete(d, d.lock), Known(d, d.lock),
         NEW e, Locked(d, e, None)
  PROVE  DirectoryInv(e)
<1>1. /\ \A c \in Builders, i \in Reports : d.temps[c][i] = None
      /\ \A i \in Reports : d.reports[i] = d.lock.target
  BY EntriesFacts DEF Complete
<1>2. Clean(e) /\ Uniform(e)
  BY <1>1 DEF Clean, Uniform, Locked
<1> QED BY <1>2 DEF DirectoryInv, Locked

-----------------------------------------------------------------------------
(* Steps that keep it                                                      *)

(* Nobody else has the lock of which b changes something.                  *)
LEMMA HolderKeeps ==
  ASSUME PlanInv, WorkInv, NEW b \in Builders, Acts(b), build[b].pc \in Holding \/ disk.lock = None,
         \A e \in survivors' : DirectoryInv(e), BuilderInv(b)'
  PROVE  WorkInv'
<1>1. ASSUME NEW c \in Builders, c # b PROVE build'[c] = build[c] /\ build[c].pc \notin Holding
  <2>1. BuilderInv(c) /\ OneHolder /\ build'[c] = build[c]
    BY <1>1 DEF WorkInv, Acts
  <2> QED BY <1>1, <2>1 DEF OneHolder, BuilderInv
<1>2. OneHolder'
  BY <1>1 DEF OneHolder
<1>3. ASSUME NEW c \in Builders, c # b PROVE BuilderInv(c)'
  BY <1>1, <1>3 DEF BuilderInv, Holding, Working
<1> QED BY <1>2, <1>3 DEF WorkInv

(* A step that leaves the directory, or makes it last.                     *)
LEMMA LookerKeeps ==
  ASSUME PlanInv, WorkInv, NEW b \in Builders, Acts(b), disk' = disk, survivors' \in {survivors, {disk}},
         build'[b].pc \in Holding => build[b].pc \in Holding \/ \A c \in Builders : build[c].pc \notin Holding,
         BuilderInv(b)'
  PROVE  WorkInv'
<1>1. survivors' \subseteq survivors /\ \A c \in Builders : c # b => build'[c] = build[c]
  BY DEF PlanInv, Shaped, Acts
<1>2. OneHolder'
  BY <1>1 DEF WorkInv, OneHolder
<1>3. ASSUME NEW c \in Builders, c # b PROVE BuilderInv(c)'
  <2>1. BuilderInv(c) /\ build'[c] = build[c]
    BY <1>1, <1>3 DEF WorkInv
  <2> QED BY <1>1, <2>1 DEF BuilderInv
<1> QED BY <1>1, <1>2, <1>3 DEF WorkInv

LEMMA OutsiderInv ==
  ASSUME NEW b \in Builders, build'[b].pc \notin Holding
  PROVE  BuilderInv(b)'
BY DEF BuilderInv, Holding, Working

LEMMA EndsWork == ASSUME PlanInv, WorkInv, NEW b \in Builders, Ends(b) PROVE WorkInv'
<1>1. build'[b].pc \notin Holding
  BY DEF Ends, Over, Holding, Working
<1> QED BY <1>1, OutsiderInv, LookerKeeps DEF Ends

LEMMA ReadWork ==
  ASSUME PlanInv, WorkInv, NEW b \in Builders, List(b) \/ ReadPlan(b) \/ ReadMembers(b) \/ CaptureBefore(b)
  PROVE  WorkInv'
<1>1. Acts(b) /\ disk' = disk /\ survivors' = survivors /\ build'[b].pc \notin Holding
  BY ReadActs DEF Holding, Working
<1> QED BY <1>1, OutsiderInv, LookerKeeps

LEMMA LockWork ==
  ASSUME PlanInv, WorkInv, NEW b \in Builders, CreateLock(b) \/ FillLock(b)
  PROVE  WorkInv'
<1>1. disk \in survivors /\ survivors \subseteq Directories /\ (\A d \in survivors : DirectoryInv(d)) /\ BuilderInv(b)
  BY DEF PlanInv, Shaped, WorkInv
<1>2. CASE Moves(b, "lock", "judge") /\ Still
  <2>1. build'[b].pc \notin Holding
    BY <1>2 DEF Moves, Holding, Working
  <2> QED BY <1>2, <2>1, OutsiderInv, LookerKeeps DEF Moves, Still
<1>3. CASE /\ Moves(b, "lock", "fill-lock") /\ disk.lock = None /\ survivors' = survivors \cup {disk'}
           /\ \E l \in Locks : /\ Locked(disk, disk', l)
                               /\ l.owner = b /\ ~l.whole /\ l.target = Generation[b]
                               /\ (l.accurate <=> l.before = disk.reports)
  <2>1. PICK l \in Locks : /\ Locked(disk, disk', l)
                           /\ l.owner = b /\ ~l.whole /\ l.target = Generation[b]
                           /\ (l.accurate <=> l.before = disk.reports)
    BY <1>3
  <2>2. DirectoryInv(disk')
    BY <1>1, <1>3, <2>1, CreateGood
  <2>3. BuilderInv(b)'
    BY <1>3, <2>1, NoneIsNoLock DEF BuilderInv, Moves, Locked, Working
  <2> QED BY <1>1, <1>3, <2>2, <2>3, HolderKeeps DEF Moves
<1>4. CASE FillLock(b)
  <2>1. /\ Moves(b, "fill-lock", "capture") /\ Locked(disk, disk', WholeLock(disk, b))
        /\ \A e \in survivors' : \E d \in survivors : Locked(d, e, WholeLock(d, b))
    BY <1>4, FillLockDoes
  <2>2. \A e \in survivors' : DirectoryInv(e)
    BY <1>1, <2>1, LockGood
  <2>3. BuilderInv(b)'
    <3>1. disk.lock # None /\ disk.lock.target = Generation[b] /\ disk.lock.owner = b /\ disk.lock \in Locks
      BY <1>1, <2>1 DEF BuilderInv, Moves, Holding, Directories
    <3>2. disk'.lock = [disk.lock EXCEPT !.whole = TRUE]
      BY <2>1, <3>1 DEF Locked, WholeLock
    <3>3. disk'.lock \in Locks /\ disk'.lock.target = Generation[b] /\ disk'.lock.owner = b
      BY <3>1, <3>2 DEF Locks
    <3> QED BY <2>1, <3>3, NoneIsNoLock DEF BuilderInv, Moves, Working
  <2> QED BY <2>1, <2>2, <2>3, HolderKeeps DEF Moves, Holding
<1> QED BY <1>2, <1>3, <1>4, CreateDoes

(* Who takes over the work of a dead one is the only one with the lock.    *)
LEMMA TakeWork ==
  ASSUME PlanInv, WorkInv, NEW b \in Builders, CaptureLock(b) \/ Judge(b), TakesOverAlone
  PROVE  WorkInv'
<1>1. CASE Ends(b)
  BY <1>1, EndsWork
<1>2. CASE /\ Acts(b) /\ Still
           /\ build'[b].pc = "work" /\ build'[b].lock = disk.lock /\ disk.lock # None /\ disk.lock.whole
           /\ \/ build[b].pc = "capture"
              \/ /\ build[b].pc = "judge" /\ disk.lock.target = Generation[b]
                 /\ build[disk.lock.owner].pc \in {"done", "gone"}
  <2>1. BuilderInv(b)
    BY DEF WorkInv
  <2>2. disk.lock.target = Generation[b]
    BY <1>2, <2>1 DEF BuilderInv, Holding
  <2>3. BuilderInv(b)'
    BY <1>2, <2>2 DEF BuilderInv, Still
  <2>4. ASSUME build[b].pc = "judge", NEW c \in Builders PROVE build[c].pc \notin Holding
    <3>1. BuilderInv(c) /\ build[c].lock # disk.lock /\ build[disk.lock.owner].pc \in {"done", "gone"}
      BY <1>2, <2>4 DEF WorkInv, TakesOverAlone, At
    <3>2. build[c].pc \notin {"fill-lock", "capture"}
      BY <3>1 DEF BuilderInv
    <3>3. build[c].pc \notin Working
      BY <3>1 DEF BuilderInv
    <3> QED BY <3>2, <3>3 DEF Holding
  <2>5. build[b].pc \in Holding \/ \A c \in Builders : build[c].pc \notin Holding
    BY <1>2, <2>4 DEF Holding
  <2> QED BY <1>2, <2>3, <2>5, LookerKeeps DEF Still
<1> QED BY <1>1, <1>2, TakeDoes

LEMMA LookWork ==
  ASSUME PlanInv, WorkInv, NEW b \in Builders, Inspect(b) \/ Classify(b)
  PROVE  WorkInv'
<1>1. disk \in Directories /\ BuilderInv(b)
  BY DEF PlanInv, Shaped, WorkInv
<1>2. CASE Ends(b)
  BY <1>2, EndsWork
<1>3. CASE /\ Moves(b, "work", "classify") /\ Still /\ disk.lock = build[b].lock /\ Known(disk, disk.lock)
           /\ build'[b].seen = disk.reports
  <2>1. BuilderInv(b)'
    BY <1>1, <1>3 DEF BuilderInv, Moves, Still, Holding, Working
  <2> QED BY <1>3, <2>1, LookerKeeps DEF Moves, Still, Holding, Working
<1>4. CASE /\ Still
           /\ LET l == build[b].lock
                  view == [disk EXCEPT !.reports = build[b].seen]
              IN \/ Moves(b, "classify", "sync") /\ Complete(view, l)
                 \/ \E i \in Reports :
                      /\ build'[b].at = i
                      /\ \/ Moves(b, "classify", "stage") /\ MayStage(view, l, i)
                         \/ Moves(b, "classify", "rename") /\ MayRename(view, l, i)
                         \/ Moves(b, "classify", "remove") /\ MayRemove(view, l, i)
  <2>1. build[b].pc = "classify"
    BY <1>4 DEF Moves
  <2>2. build[b].seen = disk.reports /\ build[b].lock = disk.lock /\ Known(disk, disk.lock)
    BY <1>1, <2>1 DEF BuilderInv, Working
  <2>3. [disk EXCEPT !.reports = build[b].seen] = disk
    BY <1>1, <2>2 DEF Directories
  <2>4. /\ Still /\ build'[b].lock = build[b].lock
        /\ \/ Moves(b, "classify", "sync") /\ Complete(disk, disk.lock)
           \/ Moves(b, "classify", "stage") /\ MayStage(disk, disk.lock, build'[b].at)
           \/ Moves(b, "classify", "rename") /\ MayRename(disk, disk.lock, build'[b].at)
           \/ Moves(b, "classify", "remove") /\ MayRemove(disk, disk.lock, build'[b].at)
    BY <1>4, <2>2, <2>3 DEF Moves
  <2>5. BuilderInv(b)'
    BY <1>1, <2>1, <2>2, <2>4 DEF BuilderInv, Moves, Still, Holding, Working
  <2> QED BY <2>4, <2>5, LookerKeeps DEF Moves, Still, Holding, Working
<1> QED BY <1>2, <1>3, <1>4, InspectDoes, ClassifyDoes

LEMMA ChangeWork ==
  ASSUME PlanInv, WorkInv, NEW b \in Builders, Stage(b) \/ Remove(b) \/ Rename(b)
  PROVE  WorkInv'
<1> DEFINE i == build[b].at
<1>1. /\ disk \in Directories /\ DirectoryInv(disk) /\ BuilderInv(b)
      /\ \A d \in survivors : DirectoryInv(d)
  BY DEF PlanInv, Shaped, WorkInv
<1>2. CASE Ends(b)
  BY <1>2, EndsWork
<1>3. ASSUME survivors' = survivors \cup {disk'}, DirectoryInv(disk'), disk'.lock = disk.lock,
             NEW next, Moves(b, build[b].pc, next), build[b].pc \in Working, next \in {"fill", "removed", "work"}
      PROVE  WorkInv'
  <2>1. BuilderInv(b)'
    BY <1>1, <1>3 DEF BuilderInv, Moves, Holding, Working
  <2> QED BY <1>1, <1>3, <2>1, HolderKeeps DEF Moves, Holding
<1>4. CASE /\ Owner(b) \in Builders /\ i \in Reports /\ survivors' = survivors \cup {disk'}
           /\ \/ Moves(b, "stage", "fill") /\ Placed(disk, disk', Owner(b), i, b)
              \/ Moves(b, "remove", "removed") /\ Placed(disk, disk', Owner(b), i, None)
  <2>1. build[b].pc \in Working /\ build[b].pc \in {"stage", "remove"}
    BY <1>4 DEF Moves, Working
  <2>2. disk.lock # None /\ disk.lock.whole /\ Owner(b) = disk.lock.owner /\ disk.lock.target = Generation[b]
    BY <1>1, <2>1 DEF BuilderInv, Holding, Owner
  <2>3. /\ build[b].pc = "stage" => MayStage(disk, disk.lock, i)
        /\ build[b].pc = "remove" => MayRemove(disk, disk.lock, i)
    BY <1>1 DEF BuilderInv
  <2>4. DirectoryInv(disk')
    BY <1>1, <1>4, <2>2, <2>3, StageGood, RemoveGood DEF Moves
  <2> QED BY <1>3, <1>4, <2>1, <2>4 DEF Moves, Placed
<1>5. CASE /\ Owner(b) \in Builders /\ i \in Reports /\ survivors' = survivors \cup {disk'}
           /\ Moves(b, "rename", "work")
           /\ \E u : /\ Placed(disk, u, Owner(b), i, None)
                     /\ Reported(u, disk', i, disk.temps[Owner(b)][i])
  <2>1. build[b].pc \in Working /\ build[b].pc = "rename"
    BY <1>5 DEF Moves, Working
  <2>2. disk.lock # None /\ disk.lock.whole /\ Owner(b) = disk.lock.owner
    BY <1>1, <2>1 DEF BuilderInv, Holding, Owner
  <2>3. MayRename(disk, disk.lock, i)
    BY <1>1, <2>1 DEF BuilderInv
  <2>4. DirectoryInv(disk')
    BY <1>1, <1>5, <2>2, <2>3, RenameGood
  <2>5. disk'.lock = disk.lock
    BY <1>5 DEF Placed, Reported
  <2> QED BY <1>3, <1>5, <2>1, <2>4, <2>5
<1> QED BY <1>2, <1>4, <1>5, StageDoes, RenameDoes

LEMMA FillTempWork == ASSUME PlanInv, WorkInv, NEW b \in Builders, FillTemp(b) PROVE WorkInv'
<1>1. /\ survivors \subseteq Directories /\ (\A d \in survivors : DirectoryInv(d)) /\ BuilderInv(b)
  BY DEF PlanInv, Shaped, WorkInv
<1>2. /\ Moves(b, "fill", "work") /\ Written(disk, disk', b)
      /\ \A e \in survivors' : \E d \in survivors : Written(d, e, b)
  BY FillTempDoes
<1>3. \A e \in survivors' : DirectoryInv(e)
  BY <1>1, <1>2, ContentGood
<1>4. BuilderInv(b)'
  BY <1>1, <1>2 DEF BuilderInv, Moves, Written, Holding, Working
<1> QED BY <1>2, <1>3, <1>4, HolderKeeps DEF Moves, Holding, Working

LEMMA SyncWork ==
  ASSUME PlanInv, WorkInv, NEW b \in Builders, SyncRemoved(b) \/ SyncReports(b) \/ SyncUnlock(b)
  PROVE  WorkInv'
<1>1. disk' = disk /\ survivors' = {disk} /\ BuilderInv(b)
  BY SyncDoes DEF WorkInv
<1>2. CASE Ends(b)
  BY <1>2, EndsWork
<1>3. CASE Moves(b, "removed", "work") \/ Moves(b, "sync", "check")
  <2>1. BuilderInv(b)'
    BY <1>1, <1>3 DEF BuilderInv, Moves, Holding, Working, Complete
  <2> QED BY <1>1, <1>3, <2>1, LookerKeeps DEF Moves, Holding, Working
<1> QED BY <1>2, <1>3, SyncDoes

LEMMA UnlockWork ==
  ASSUME PlanInv, WorkInv, NEW b \in Builders, CheckLock(b) \/ Unlock(b)
  PROVE  WorkInv'
<1>1. /\ disk \in Directories /\ DirectoryInv(disk) /\ BuilderInv(b)
      /\ \A d \in survivors : DirectoryInv(d)
  BY DEF PlanInv, Shaped, WorkInv
<1>2. CASE Ends(b)
  BY <1>2, EndsWork
<1>3. CASE Moves(b, "check", "unlink") /\ Still
  <2>1. BuilderInv(b)'
    BY <1>1, <1>3 DEF BuilderInv, Moves, Still, Holding, Working
  <2> QED BY <1>3, <2>1, LookerKeeps DEF Moves, Still, Holding, Working
<1>4. CASE /\ Moves(b, "unlink", "last") /\ disk.lock # None /\ Locked(disk, disk', None)
           /\ survivors' = survivors \cup {disk'}
  <2>1. Complete(disk, disk.lock) /\ Known(disk, disk.lock)
    BY <1>1, <1>4 DEF BuilderInv, Moves, Working
  <2>2. DirectoryInv(disk')
    BY <1>1, <1>4, <2>1, UnlockGood
  <2>3. BuilderInv(b)'
    BY <1>4, OutsiderInv DEF Moves, Holding, Working
  <2> QED BY <1>1, <1>4, <2>2, <2>3, HolderKeeps DEF Moves, Holding, Working
<1> QED BY <1>2, <1>3, <1>4, UnlockDoes

LEMMA BuildWork ==
  ASSUME PlanInv, WorkInv, NEW b \in Builders, Builds(b), TakesOverAlone
  PROVE  WorkInv'
<1>1. CASE List(b) \/ ReadPlan(b) \/ ReadMembers(b) \/ CaptureBefore(b)
  BY <1>1, ReadWork
<1>2. CASE CreateLock(b) \/ FillLock(b) \/ CaptureLock(b) \/ Judge(b)
  BY <1>2, LockWork, TakeWork
<1>3. CASE Inspect(b) \/ Classify(b) \/ Stage(b) \/ FillTemp(b) \/ Rename(b) \/ Remove(b)
  BY <1>3, LookWork, ChangeWork, FillTempWork
<1>4. CASE SyncRemoved(b) \/ SyncReports(b) \/ CheckLock(b) \/ Unlock(b) \/ SyncUnlock(b)
  BY <1>4, SyncWork, UnlockWork
<1>5. CASE BuildFails(b) \/ BuilderDies(b)
  BY <1>5, StopBuildDoes, EndsWork
<1> QED BY <1>1, <1>2, <1>3, <1>4, <1>5 DEF Builds, Build

(* A planner leaves alone what builders work on, unless none has begun.    *)
LEMMA StandingWork ==
  ASSUME PlanInv, WorkInv, build' = build,
         Alike(disk, disk') \/ \A b \in Builders : At(b, "idle"),
         \A e \in survivors' : DirectoryInv(e) /\ ((\E d \in survivors : e.reports = d.reports) \/ e = disk')
  PROVE  WorkInv'
<1>1. disk \in survivors
  BY DEF PlanInv, Shaped
<1>2. ASSUME NEW b \in Builders PROVE BuilderInv(b)'
  <2>1. BuilderInv(b)
    BY DEF WorkInv
  <2>2. CASE At(b, "idle")
    BY <2>2, OutsiderInv DEF At, Holding, Working
  <2>3. CASE Alike(disk, disk')
    <3>1. /\ disk'.lock = disk.lock /\ disk'.reports = disk.reports
          /\ \A l : /\ (Complete(disk', l) <=> Complete(disk, l)) /\ (Known(disk', l) <=> Known(disk, l))
                    /\ \A i : /\ (MayStage(disk', l, i) <=> MayStage(disk, l, i))
                              /\ (MayRename(disk', l, i) <=> MayRename(disk, l, i))
                              /\ (MayRemove(disk', l, i) <=> MayRemove(disk, l, i))
      BY <2>3, AlikeFacts DEF Alike
    <3>2. \A e \in survivors' : \E d \in survivors : e.reports = d.reports
      BY <1>1, <3>1
    <3> QED BY <2>1, <3>1, <3>2 DEF BuilderInv
  <2> QED BY <2>2, <2>3
<1> QED BY <1>2 DEF WorkInv, OneHolder

LEMMA PlannerWork == ASSUME PlanInv, WorkInv, NEW k \in Planners, Plans(k) PROVE WorkInv'
<1>1. /\ disk \in survivors /\ survivors \subseteq Directories /\ (\A d \in survivors : DirectoryInv(d)) /\ PlannerInv(k)
  BY DEF PlanInv, Shaped, WorkInv
<1>2. CASE SyncRun(k) \/ (disk' = disk /\ survivors' = survivors /\ build' = build)
  BY <1>1, <1>2, StandingWork DEF SyncRun, SyncDirectory, Alike
<1>3. CASE Allocate(k) \/ Reserve(k)
  <2>1. build' = build
    BY <1>3 DEF Allocate, Reserve
  <2>2. CASE disk' = disk /\ survivors' = survivors
    BY <1>2, <2>1, <2>2
  <2>3. CASE Alike(disk, disk') /\ survivors' = survivors \cup {disk'}
    BY <1>1, <2>1, <2>3, AlikeFacts, StandingWork
  <2>4. Alike(disk, [disk EXCEPT !.made = TRUE]) /\ \A m : Alike(disk, [disk EXCEPT !.core[m] = "empty"])
    BY <1>1 DEF Directories, Alike
  <2>5. Allocate(k) => Still \/ (disk' = [disk EXCEPT !.made = TRUE] /\ survivors' = survivors \cup {disk'})
    BY DEF Allocate, Change, Still
  <2>6. Reserve(k) => \E m : disk' = [disk EXCEPT !.core[m] = "empty"] /\ survivors' = survivors \cup {disk'}
    BY DEF Reserve, Change
  <2> QED BY <1>3, <2>2, <2>3, <2>4, <2>5, <2>6 DEF Still
<1>4. CASE WriteMember(k)
  <2>1. PICK m : disk' = WithMember(disk, m) /\ survivors' = {WithMember(d, m) : d \in survivors} /\ build' = build
    BY <1>4 DEF WriteMember, Write
  <2>2. \A d \in survivors : Alike(d, WithMember(d, m))
    BY <1>1 DEF WithMember, Alike, Directories
  <2>3. \A e \in survivors' : DirectoryInv(e) /\ \E d \in survivors : e.reports = d.reports
    BY <1>1, <2>1, <2>2, AlikeFacts DEF Alike
  <2> QED BY <1>1, <2>1, <2>2, <2>3, StandingWork
<1>5. CASE PlanFails(k) \/ PlannerDies(k)
  <2>1. CASE disk' = disk /\ survivors' = survivors
    BY <1>2, <1>5, <2>1, StopDoes
  <2>2. CASE /\ plan[k].pc = "reserve"
             /\ \E made \in BOOLEAN : disk' = [EmptyDirectory EXCEPT !.made = made] /\ survivors' = survivors \cup {disk'}
    <3>1. disk'.lock = None /\ disk'.temps = EmptyDirectory.temps /\ disk'.reports = Unseen
      BY <2>2, EmptyCored
    <3>2. DirectoryInv(disk')
      BY <3>1, ContentsDiffer DEF DirectoryInv, Clean, Uniform, EmptyDirectory, Unseen
    <3>3. (\A b \in Builders : At(b, "idle")) /\ build' = build
      BY <1>1, <1>5, <2>2, StopDoes DEF PlannerInv
    <3> QED BY <1>1, <2>2, <3>2, <3>3, StandingWork
  <2> QED BY <1>5, <2>1, <2>2, StopDoes
<1> QED BY <1>2, <1>3, <1>4, <1>5 DEF Plans

LEMMA PowerWork == ASSUME PlanInv, WorkInv, PowerLoss PROVE WorkInv'
<1>1. /\ \E d \in survivors : disk' = d /\ survivors' = {d}
      /\ \A b \in Builders : build'[b].pc \in {"idle", "done", "gone"}
  BY PowerDoes
<1>2. \A b \in Builders : build'[b].pc \notin Holding
  BY <1>1 DEF Holding, Working
<1>3. OneHolder' /\ \A b \in Builders : BuilderInv(b)'
  BY <1>2, OutsiderInv DEF OneHolder
<1> QED BY <1>1, <1>3 DEF WorkInv

LEMMA WorkStep == PlanInv /\ WorkInv /\ [Next /\ TakesOverAlone]_vars => WorkInv'
<1> SUFFICES ASSUME PlanInv, WorkInv, [Next /\ TakesOverAlone]_vars PROVE WorkInv'
  OBVIOUS
<1>1. CASE UNCHANGED vars
  BY <1>1 DEF vars, WorkInv, OneHolder, BuilderInv
<1>2. CASE PowerLoss
  BY <1>2, PowerWork
<1>3. ASSUME NEW k \in Planners, Plans(k) PROVE WorkInv'
  BY <1>3, PlannerWork
<1>4. ASSUME NEW b \in Builders, Builds(b), TakesOverAlone PROVE WorkInv'
  BY <1>4, BuildWork
<1> QED BY <1>1, <1>2, <1>3, <1>4 DEF Next, Plans, Builds

LEMMA WorkHolds == LoneSpec => [](PlanInv /\ WorkInv)
<1>1. Init => PlanInv /\ WorkInv
  BY PlanInit, WorkInit
<1>2. PlanInv /\ WorkInv /\ [Next /\ TakesOverAlone]_vars => (PlanInv /\ WorkInv)'
  <2>1. [Next /\ TakesOverAlone]_vars => [Next]_vars
    OBVIOUS
  <2> QED BY <2>1, PlanStep, WorkStep
<1> QED BY <1>1, <1>2, PTL DEF LoneSpec

-----------------------------------------------------------------------------
(* While no build takes over a lock that a living one works under, report  *)
(* open finds no report where there is no lock, or one of a single         *)
(* generation, wherever a power loss fell (plan-report-writer-v02.ts:      *)
(* 232-262).                                                               *)
THEOREM ReportsOpen == LoneSpec => []UnlockedReportsOpen
<1>1. PlanInv /\ WorkInv => UnlockedReportsOpen
  <2> SUFFICES ASSUME PlanInv, WorkInv, NEW d \in survivors, d.lock = None, d.core["plan"] = "whole"
               PROVE  OpenDecision(d) \in {"PLAN_REPORT_NOT_BUILT", "ok"}
    BY DEF UnlockedReportsOpen
  <2>1. DirectoryInv(d) /\ CoreInv(d) /\ d.reports \in [Reports -> Contents]
    BY DEF PlanInv, WorkInv, Shaped, Directories
  <2>2. Entries(d) = {} /\ \A i, j \in Reports : d.reports[i] = d.reports[j]
    BY <2>1, EntriesFacts DEF DirectoryInv, Uniform
  <2>3. CoreIsThere(d)
    BY <2>1 DEF CoreInv, CoreIsThere, Core
  <2>4. d.reports[1] \in Generations \cup {None}
    BY <2>1, ReportNumbers, ContentsDiffer DEF DirectoryInv
  <2>5. CASE d.reports[1] = None
    BY <2>2, <2>3, <2>5, ReportNumbers DEF OpenDecision
  <2>6. CASE d.reports[1] \in Generations
    BY <2>2, <2>3, <2>6, ReportNumbers, ContentsDiffer DEF OpenDecision
  <2> QED BY <2>4, <2>5, <2>6
<1> QED BY <1>1, WorkHolds, PTL

(* The first two temporaries of one writer are within the layout that the  *)
(* listing takes.                                                          *)
LEMMA TwoEntries ==
  ASSUME NEW d, NEW o, \A e \in Entries(d) : e[1] = o, \A e \in Entries(d) : e[2] # 3
  PROVE  Cardinality(Entries(d)) <= 3
<1> DEFINE S == {<<o, 1>>} \cup {<<o, 2>>}
<1>1. Entries(d) \subseteq S
  <2> SUFFICES ASSUME NEW e \in Entries(d) PROVE e \in S
    OBVIOUS
  <2>1. e = <<e[1], e[2]>> /\ e[2] \in Reports
    BY DEF Entries
  <2>2. e[2] = 1 \/ e[2] = 2
    BY <2>1 DEF Reports
  <2> QED BY <2>1, <2>2
<1>2. /\ IsFiniteSet({<<o, 1>>}) /\ Cardinality({<<o, 1>>}) = 1
      /\ IsFiniteSet({<<o, 2>>}) /\ Cardinality({<<o, 2>>}) = 1
  BY FS_Singleton
<1>3. IsFiniteSet({<<o, 1>>} \cap {<<o, 2>>}) /\ Cardinality({<<o, 1>>} \cap {<<o, 2>>}) \in Nat
  BY <1>2, FS_Intersection, FS_CardinalityType
<1>4. IsFiniteSet(S) /\ Cardinality(S) \in Nat /\ Cardinality(S) <= 2
  <2>1. IsFiniteSet(S) /\ Cardinality(S) = 1 + 1 - Cardinality({<<o, 1>>} \cap {<<o, 2>>})
    BY <1>2, FS_Union
  <2>2. Cardinality(S) \in Nat
    BY <2>1, FS_CardinalityType
  <2> QED BY <1>3, <2>1, <2>2
<1>5. Cardinality(Entries(d)) \in Nat /\ Cardinality(Entries(d)) <= Cardinality(S)
  BY <1>1, <1>4, FS_Subset, FS_CardinalityType
<1> QED BY <1>4, <1>5

(* While no build takes over a lock that a living one works under, what    *)
(* was done under a whole and accurate lock is recognized, and until the   *)
(* temporary of the input is there the listing lets the next build as far  *)
(* as to look at it (plan-report-writer-v02.ts:217-275).                   *)
THEOREM WorkIsRecognized == LoneSpec => []AccurateLocksResume
<1>1. PlanInv /\ WorkInv => AccurateLocksResume
  <2> SUFFICES ASSUME PlanInv, WorkInv, NEW d \in survivors, d.lock # None, d.lock.whole, d.lock.accurate
               PROVE  /\ Resumable(d, d.lock)
                      /\ CoreIsThere(d) /\ d.temps[d.lock.owner][3] = None => ReportWriterLayout(d)
    BY DEF AccurateLocksResume
  <2>1. Resumable(d, d.lock)
    BY DEF WorkInv, DirectoryInv, Promised
  <2>2. ASSUME CoreIsThere(d), d.temps[d.lock.owner][3] = None PROVE ReportWriterLayout(d)
    <3>1. \A e \in Entries(d) : e[1] = d.lock.owner
      BY <2>1 DEF Resumable, Known
    <3>2. \A e \in Entries(d) : e[2] # 3
      BY <2>2, <3>1 DEF Entries
    <3> QED BY <2>2, <3>1, <3>2, TwoEntries DEF ReportWriterLayout
  <2> QED BY <2>1, <2>2
<1> QED BY <1>1, WorkHolds, PTL

Counted == faults \in Nat

LEMMA FaultsAreCounted == Spec => []Counted
<1>1. Init => Counted
  BY DEF Init, Counted
<1>2. Counted /\ [Next]_vars => Counted'
  <2> SUFFICES ASSUME faults \in Nat, [Next]_vars PROVE faults' \in Nat
    BY DEF Counted
  <2>1. faults' = faults \/ faults' = faults + 1
    BY DEF Next, vars, PowerLoss, Allocate, Reserve, WriteMember, SyncRun, PlanFails, PlannerDies, Build, List, ReadPlan,
           ReadMembers, CaptureBefore, CreateLock, FillLock, CaptureLock, Judge, Inspect, Classify, Stage, FillTemp,
           Rename, Remove, SyncRemoved, SyncReports, CheckLock, Unlock, SyncUnlock, BuildFails, BuilderDies, Looks
  <2> QED BY <2>1
<1> QED BY <1>1, <1>2, PTL DEF Spec

(* No step but one takes a lock away.                                      *)
LEMMA OnlyUnlockUnlocks ==
  ASSUME PlanInv, faults \in Nat, Next, disk.lock # None, disk'.lock = None, faults' = faults
  PROVE  \E b \in Builders : build[b].pc = "unlink"
<1>1. Shaped /\ disk \in survivors /\ disk \in Directories /\ disk.lock \in Locks
  BY DEF PlanInv, Shaped, Directories
<1>2. disk'.lock # disk.lock /\ faults' # faults + 1
  OBVIOUS
<1>3. ~PowerLoss
  BY <1>2 DEF PowerLoss
<1>4. ASSUME NEW k \in Planners, Plans(k) PROVE FALSE
  <2>1. \A m : WithMember(disk, m).lock = disk.lock /\ [disk EXCEPT !.core[m] = "empty"].lock = disk.lock
    BY <1>1 DEF WithMember, Directories
  <2>2. [disk EXCEPT !.made = TRUE].lock = disk.lock
    BY <1>1 DEF Directories
  <2>3. ~(PlanFails(k) \/ PlannerDies(k))
    BY <1>2 DEF PlanFails, PlannerDies
  <2>4. ~(WriteMember(k) \/ SyncRun(k))
    BY <1>2, <2>1 DEF WriteMember, Write, SyncRun, SyncDirectory
  <2>5. ~(Allocate(k) \/ Reserve(k))
    BY <1>2, <2>1, <2>2 DEF Allocate, Reserve, Change
  <2> QED BY <1>4, <2>3, <2>4, <2>5 DEF Plans
<1>5. ASSUME NEW b \in Builders, Builds(b), build[b].pc # "unlink" PROVE FALSE
  <2>1. ~(List(b) \/ ReadPlan(b) \/ ReadMembers(b) \/ CaptureBefore(b))
    BY <1>2, ReadActs
  <2>2. ~CreateLock(b)
    BY <1>2 DEF CreateLock
  <2>3. ~FillLock(b)
    <3>1. [disk.lock EXCEPT !.whole = TRUE] # None
      BY <1>1, NoneIsNoLock DEF Locks
    <3>2. WholeLock(disk, b) # None
      BY <3>1 DEF WholeLock
    <3> QED BY <3>2, FillLockDoes DEF Locked
  <2>4. ~(CaptureLock(b) \/ Judge(b) \/ Inspect(b) \/ Classify(b))
    BY <1>2, TakeDoes, InspectDoes, ClassifyDoes DEF Ends, Still
  <2>5. ~(Stage(b) \/ Remove(b) \/ Rename(b) \/ FillTemp(b))
    BY <1>2, StageDoes, RenameDoes, FillTempDoes DEF Ends, Placed, Reported, Written
  <2>6. ~(SyncRemoved(b) \/ SyncReports(b) \/ SyncUnlock(b))
    BY <1>2, SyncDoes
  <2>7. ~(CheckLock(b) \/ Unlock(b))
    BY <1>2, <1>5, UnlockDoes DEF Ends, Still, Moves
  <2>8. ~(BuildFails(b) \/ BuilderDies(b))
    BY <1>2, StopBuildDoes DEF Ends
  <2> QED BY <1>5, <2>1, <2>2, <2>3, <2>4, <2>5, <2>6, <2>7, <2>8 DEF Builds, Build
<1> QED BY <1>3, <1>4, <1>5 DEF Next, Plans, Builds

(* While no build takes over a lock that a living one works under, a lock  *)
(* goes only when the set it was for would survive a power loss: the       *)
(* renames are synced before it is removed, by who has it                  *)
(* (plan-report-writer-v02.ts:232-237).                                    *)
THEOREM LocksGoLast == LoneSpec => LocksOutliveTheirWork
<1> DEFINE Goes == disk.lock # None /\ disk'.lock = None /\ faults' = faults
           Lasts == \A d \in survivors, i \in Reports : d.reports[i] = disk.lock.target
<1>1. PlanInv /\ WorkInv /\ Counted /\ [Next /\ TakesOverAlone]_vars => [Goes => Lasts]_vars
  <2> SUFFICES ASSUME PlanInv, WorkInv, faults \in Nat, Next, Goes PROVE Lasts
    BY DEF Counted
  <2>1. PICK b \in Builders : build[b].pc = "unlink"
    BY OnlyUnlockUnlocks
  <2> QED BY <2>1 DEF WorkInv, BuilderInv
<1>2. [Goes => Lasts]_vars <=> [disk.lock # None /\ disk'.lock = None /\ faults' = faults =>
       \A d \in survivors, i \in Reports : d.reports[i] = disk.lock.target]_vars
  OBVIOUS
<1>3. LoneSpec => Spec
  <2>1. [Next /\ TakesOverAlone]_vars => [Next]_vars
    OBVIOUS
  <2> QED BY <2>1, PTL DEF LoneSpec, Spec
<1> QED BY <1>1, <1>2, <1>3, WorkHolds, FaultsAreCounted, PTL DEF LoneSpec, LocksOutliveTheirWork
=============================================================================

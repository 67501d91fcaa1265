------------------------------- MODULE RunV01 -------------------------------
(***************************************************************************)
(* The directory of a V01 run.  `plan run` copies an approved compile pack *)
(* into it file by file (run/plan.ts); `run start` checks it, takes the    *)
(* lock ledger.lock, replays captured events into a ledger and writes the  *)
(* run's seven files one after the other (commands/run/start.ts,           *)
(* run/orchestrate.ts, run/run-dir.ts); `report build` renders the report  *)
(* again, anchored to the ledger, under the same lock.  Status, recovery   *)
(* and verification read the files at any time, without the lock.          *)
(*                                                                         *)
(* Every command is a process of its own and can die at every step.  A     *)
(* file is written by truncating it first, so that it can be seen, and     *)
(* left, torn.  The lock is AdvisoryLock's, call by call.                  *)
(***************************************************************************)
EXTENDS AdvisoryLock, Sequences

CONSTANTS
  Planners,  \* processes that plan the run
  Sealers,   \* the processes whose starts are given a brief to seal
  Builders,  \* the processes that may run report build
  Loops,     \* loop specifications: [gates, t5]
  Inputs,    \* pieces of evidence that captured events can yield
  NoFile,    \* the file is absent
  Torn       \* it was created, and not written whole

(* t5 says that some risk control, grant or tier of the loop asks for      *)
(* unattended behaviour.                                                   *)
ASSUME RunAssumption ==
  /\ Planners \cap Procs = {} /\ Sealers \cup Builders \subseteq Procs
  /\ {NoFile, Torn} \cap (Procs \cup Planners) = {} /\ NoFile # Torn
  /\ NoFile \notin [of : Procs, events : Nat, torn : BOOLEAN]
  /\ \A l \in Loops : /\ l.t5 \in BOOLEAN
                      /\ l.gates \in Seq([id : STRING, blocking : BOOLEAN, inputs : SUBSET Inputs])

VARIABLES
  loop,     \* the loop of the compile pack, or of the file a raw start names
  dirKind,  \* the run directory: "none", "planned" or "raw"
  planned,  \* the files of the plan, each written by some planner
  dir,      \* the files of the run
  planner,  \* where each planner is, and the files it has written
  cmd,      \* where each other command is, and what it knows
  writer,   \* history: the start that wrote to the directory last
  rivals    \* history: the starts past their preflight when the ledger in place was begun

runVars == <<loop, dirKind, planned, dir, planner, cmd, writer, rivals>>
vars == <<lockVars, runVars>>

(* The files that run plan copies, then the two that it writes.            *)
PlanFiles == <<"pack", "loop", "brief", "plan">>
RunFiles == {"receipt", "ledger", "manifest", "md", "html", "input", "summary"}

Idle == [pc |-> "idle", available |-> {}, todo |-> <<>>, input |-> NoFile,
         report |-> NoFile, answer |-> "none"]

Init ==
  /\ LockInit
  /\ loop \in Loops
  /\ dirKind = "none"
  /\ planned = [f \in {"pack", "loop", "brief", "plan"} |-> NoFile]
  /\ dir = [f \in RunFiles |-> NoFile]
  /\ planner = [k \in Planners |-> [pc |-> "idle", done |-> 0]]
  /\ cmd = [p \in Procs |-> Idle]
  /\ writer = NoFile
  /\ rivals = {}

-----------------------------------------------------------------------------
(* Gates (gates.ts).                                                       *)

NoT5 == [id |-> "no-t5", blocking |-> TRUE, inputs |-> {}]

(* Mutant: the loop's own version of the required gate is kept.            *)
DeclaredGates ==
  LET declared == {loop.gates[i] : i \in 1 .. Len(loop.gates)} IN
  IF \E g \in declared : g.id = NoT5.id THEN declared ELSE declared \cup {NoT5}

(* A loop cannot weaken the required gate: its own version is dropped.     *)
Kept == {i \in 1 .. Len(loop.gates) : loop.gates[i].id # NoT5.id}
EvaluatedGates == {loop.gates[i] : i \in Kept} \cup {NoT5}

GateStatus(g, available) ==
  CASE g.id = NoT5.id -> IF loop.t5 THEN "FAIL" ELSE "PASS"
    [] g.inputs \subseteq available /\ (g.blocking => g.inputs # {}) -> "PASS"
    [] OTHER -> "HOLD"

BlockingHoldOrFail(available) ==
  \E g \in EvaluatedGates : g.blocking /\ GateStatus(g, available) \in {"HOLD", "FAIL"}

-----------------------------------------------------------------------------
(* The ledger (orchestrate.ts, ledger.ts).                                 *)

TerminalEvent(p) == IF BlockingHoldOrFail(cmd[p].available) THEN "run.held" ELSE "run.completed"
GateResults == [i \in 1 .. Cardinality(Kept) + 1 |-> "gate.result"]

(* The types of the events that assembleRun chains for a start.            *)
Events(p) ==
  (IF p \in Sealers THEN <<"brief.sealed">> ELSE <<>>)
    \o <<"run.started", "captured">> \o GateResults \o <<TerminalEvent(p)>>

(* What a ledger file holds: the first events of the ledger of a start,    *)
(* and perhaps a part of the line of the next one.                         *)
Ledger(p, n, torn) == [of |-> p, events |-> n, torn |-> torn]
WholeLedger(p) == Ledger(p, Len(Events(p)), FALSE)

StateAfter(type) ==
  CASE type = "run.completed" -> "completed"
    [] type = "run.held" -> "held"
    [] OTHER -> "running"

(* The state of the longest valid prefix; anything dropped is a HOLD.      *)
Recover(ledger) ==
  [integrity |-> IF ledger.torn THEN "hold" ELSE "valid",
   state |-> IF ledger.events = 0 THEN "planned" ELSE StateAfter(Events(ledger.of)[ledger.events])]

Terminated(ledger) == ledger # NoFile /\ Recover(ledger).state \in {"completed", "held"}

(* What run status and run recover tell of the directory.                  *)
Status ==
  IF dir["ledger"] # NoFile THEN Recover(dir["ledger"])
  ELSE [integrity |-> IF planned["plan"] = Torn THEN "invalid" ELSE "unknown",
        state |-> IF planned["plan"] = NoFile THEN "none" ELSE "planned"]

(* verify --run-dir: the signature, the bytes of the ledger and its chain. *)
Verifies(receipt, ledger) == receipt \in Procs /\ ledger = WholeLedger(receipt)

-----------------------------------------------------------------------------
(* Planning (run/plan.ts).                                                 *)

(* The pack is whole, compiled, approved and of this workspace, and the    *)
(* run directory is not there.  A planner that is refused leaves no trace. *)
PlanRun(k) ==
  /\ planner[k].pc = "idle"
  /\ dirKind = "none"
  /\ planner' = [planner EXCEPT ![k].pc = "mkdir"]
  /\ UNCHANGED <<lockVars, loop, dirKind, planned, dir, cmd, writer, rivals>>

MakePlanDir(k) ==
  /\ planner[k].pc = "mkdir"
  /\ dirKind' = "planned"
  /\ planner' = [planner EXCEPT ![k].pc = "truncate"]
  /\ UNCHANGED <<lockVars, loop, planned, dir, cmd, writer, rivals>>

TruncatePlanFile(k) ==
  /\ planner[k].pc = "truncate"
  /\ planned' = [planned EXCEPT ![PlanFiles[planner[k].done + 1]] = Torn]
  /\ planner' = [planner EXCEPT ![k].pc = "write"]
  /\ UNCHANGED <<lockVars, loop, dirKind, dir, cmd, writer, rivals>>

WritePlanFile(k) ==
  /\ planner[k].pc = "write"
  /\ planned' = [planned EXCEPT ![PlanFiles[planner[k].done + 1]] = k]
  /\ planner' = [planner EXCEPT ![k].done = @ + 1,
                                ![k].pc = IF planner[k].done + 1 = Len(PlanFiles) THEN "done" ELSE "truncate"]
  /\ UNCHANGED <<lockVars, loop, dirKind, dir, cmd, writer, rivals>>

PlannerDies(k) ==
  /\ planner[k].pc \in {"mkdir", "truncate", "write"}
  /\ planner' = [planner EXCEPT ![k].pc = "dead"]
  /\ UNCHANGED <<lockVars, loop, dirKind, planned, dir, cmd, writer, rivals>>

-----------------------------------------------------------------------------
(* run start (commands/run/start.ts, run/preflight.ts).                    *)

Whole(files, names) == \A f \in names : files[f] \notin {NoFile, Torn}
Started(names) == \E f \in names : dir[f] # NoFile

(* Starts that have passed their preflight and not yet got or been refused *)
(* the lock.                                                               *)
Waiting == {p \in Procs : cmd[p].pc \in {"ready", "locking"}}

(* The evidence that the gates of the loop ask for.                        *)
Asked == UNION {loop.gates[i].inputs : i \in 1 .. Len(loop.gates)}

Become(p, fields) == cmd' = [cmd EXCEPT ![p] = [f \in DOMAIN Idle |-> IF f \in DOMAIN fields THEN fields[f] ELSE @[f]]]

(* The files whose presence says that the run was executed.                *)
ExecutionArtifacts == RunFiles \ {"receipt"}

(* Without the lock: the plan is there, its last record parses and names   *)
(* the engine, no artifact exists and the loop is valid.  A start that is  *)
(* refused leaves no trace.                                                *)
Preflight(p) ==
  /\ At(p, "idle") /\ cmd[p].pc = "idle"
  /\ dirKind = "planned"
  /\ \A f \in DOMAIN planned : planned[f] # NoFile
  /\ planned["plan"] # Torn
  /\ ~Started(ExecutionArtifacts)
  /\ planned["loop"] # Torn
  /\ \E available \in SUBSET Asked : Become(p, [pc |-> "ready", available |-> available])
  /\ UNCHANGED <<lockVars, loop, dirKind, planned, dir, planner, writer, rivals>>

TakeLock(p) ==
  /\ cmd[p].pc = "ready"
  /\ StartAcquire(p)
  /\ Become(p, [pc |-> "locking"])
  /\ UNCHANGED <<loop, dirKind, planned, dir, planner, writer, rivals>>

(* acquireLock, call by call; LockHeldError ends the command.              *)
Acquire(p) ==
  /\ cmd[p].pc \in {"locking", "joining"}
  /\ AcquireStep(p)
  /\ CASE lpc'[p] = "held" -> Become(p, [pc |-> IF cmd[p].pc = "locking" THEN "locked" ELSE "read"])
       [] lpc'[p] = "idle" ->
            Become(p, [pc |-> "done", answer |-> IF cmd[p].pc = "locking" THEN "error" ELSE cmd[p].answer])
       [] OTHER -> UNCHANGED cmd
  /\ UNCHANGED <<loop, dirKind, planned, dir, planner, writer, rivals>>

(* The loop is invalid, the brief cannot be read, or no captured events    *)
(* are given, for which S37 starts no process.                             *)
Hold(p) ==
  /\ p \in alive /\ cmd[p].pc = "locked"
  /\ Become(p, [pc |-> "release", answer |-> "error"])
  /\ UNCHANGED <<lockVars, loop, dirKind, planned, dir, planner, writer, rivals>>

WriteOrder == <<"ledger", "manifest", "md", "html", "input", "summary">>

(* The run is assembled.  When the key or the receipt of a sealed run      *)
(* cannot be made the directory is written all the same, without receipt.  *)
Assemble(p) ==
  /\ p \in alive /\ cmd[p].pc = "locked"
  /\ Whole(planned, {"loop"})
  /\ \/ Become(p, [pc |-> "truncate", answer |-> "ok",
                   todo |-> IF p \in Sealers THEN <<"receipt">> \o WriteOrder ELSE WriteOrder])
     \/ p \in Sealers /\ Become(p, [pc |-> "truncate", answer |-> "error", todo |-> WriteOrder])
  /\ UNCHANGED <<lockVars, loop, dirKind, planned, dir, planner, writer, rivals>>

(* A start from a loop file reserves a new directory and takes no lock.    *)
RawStart(p) ==
  /\ At(p, "idle") /\ cmd[p].pc = "idle"
  /\ dirKind = "none" /\ \A k \in Planners : planner[k].pc # "mkdir"
  /\ dirKind' = "raw"
  /\ \E available \in SUBSET Asked :
       Become(p, [pc |-> "truncate", available |-> available, answer |-> "ok",
                  todo |-> IF p \in Sealers THEN <<"receipt">> \o WriteOrder ELSE WriteOrder])
  /\ UNCHANGED <<lockVars, loop, planned, dir, planner, writer, rivals>>

-----------------------------------------------------------------------------
(* writeRunDir (run/run-dir.ts): every file is truncated, then filled.     *)

Report(p, ledger) ==
  [input |-> p, state |-> Recover(ledger).state, integrity |-> Recover(ledger).integrity,
   diverged |-> Recover(ledger) # Recover(WholeLedger(p))]

Contents(p, file) ==
  CASE file = "ledger" -> WholeLedger(p)
    [] file \in {"md", "html"} -> Report(p, WholeLedger(p))
    [] OTHER -> p

TruncateFile(p) ==
  /\ p \in alive /\ cmd[p].pc = "truncate"
  /\ LET file == Head(cmd[p].todo) IN
       /\ dir' = [dir EXCEPT ![file] = IF file = "ledger" THEN Ledger(p, 0, FALSE) ELSE Torn]
       /\ rivals' = IF file = "ledger" THEN Waiting \cup {p} ELSE rivals
  /\ writer' = p
  /\ Become(p, [pc |-> "fill"])
  /\ UNCHANGED <<lockVars, loop, dirKind, planned, planner>>

(* A part of the ledger has reached the file: it is cut in its first line, *)
(* or before or in its last one.                                           *)
FillPart(p) ==
  /\ p \in alive /\ cmd[p].pc = "fill" /\ Head(cmd[p].todo) = "ledger"
  /\ dir["ledger"] = Ledger(p, 0, FALSE)
  /\ \E n \in {0, Len(Events(p)) - 1}, torn \in BOOLEAN : dir' = [dir EXCEPT !["ledger"] = Ledger(p, n, torn)]
  /\ UNCHANGED <<lockVars, loop, dirKind, planned, planner, cmd, writer, rivals>>

(* Where a start goes that has nothing left to write.                      *)
Leave == IF dirKind = "planned" THEN "release" ELSE "done"

FillFile(p) ==
  /\ p \in alive /\ cmd[p].pc = "fill"
  /\ LET file == Head(cmd[p].todo)
         rest == Tail(cmd[p].todo)
     IN  /\ dir' = [dir EXCEPT ![file] = Contents(p, file)]
         /\ Become(p, [todo |-> rest, pc |-> IF rest = <<>> THEN Leave ELSE "truncate"])
  /\ writer' = p
  /\ UNCHANGED <<lockVars, loop, dirKind, planned, planner, rivals>>

(* Mutant: a write that fails ends the writing, and nobody is told.        *)
WriteFailsUnseen(p) ==
  /\ p \in alive /\ cmd[p].pc = "fill"
  /\ Become(p, [pc |-> Leave, todo |-> <<>>])
  /\ UNCHANGED <<lockVars, loop, dirKind, planned, dir, planner, writer, rivals>>

(* A write fails: what has been written so far stays.                      *)
WriteFails(p) ==
  /\ p \in alive /\ cmd[p].pc = "fill"
  /\ Become(p, [pc |-> Leave, todo |-> <<>>, answer |-> "error"])
  /\ UNCHANGED <<lockVars, loop, dirKind, planned, dir, planner, writer, rivals>>

(* finally                                                                 *)
Release(p) ==
  /\ cmd[p].pc = "release"
  /\ StartRelease(p) \/ Unlink(p)
  /\ IF lpc'[p] = "idle" THEN Become(p, [pc |-> "done", input |-> NoFile, report |-> NoFile]) ELSE UNCHANGED cmd
  /\ UNCHANGED <<loop, dirKind, planned, dir, planner, writer, rivals>>

-----------------------------------------------------------------------------
(* report build (commands/report/build.ts, run/run-dir.ts).                *)

(* Also after a start of the same process has ended.                       *)
BuildReport(p) ==
  /\ p \in Builders
  /\ cmd[p].pc = "idle" \/ (cmd[p].pc = "done" /\ cmd[p].answer # "none")
  /\ dirKind # "none"
  /\ StartAcquire(p)
  /\ Become(p, [pc |-> "joining"])
  /\ UNCHANGED <<loop, dirKind, planned, dir, planner, writer, rivals>>

(* An input that is absent or torn is an error.                            *)
ReadInput(p) ==
  /\ p \in alive /\ cmd[p].pc = "read"
  /\ IF Whole(dir, {"input"})
     THEN Become(p, [pc |-> "anchor", input |-> dir["input"]])
     ELSE Become(p, [pc |-> "release"])
  /\ UNCHANGED <<lockVars, loop, dirKind, planned, dir, planner, writer, rivals>>

(* Mutant: the report keeps the status that the input carries.             *)
AnchorTrusting(p) ==
  /\ p \in alive /\ cmd[p].pc = "anchor"
  /\ IF dir["ledger"] # NoFile
     THEN Become(p, [pc |-> "md", report |-> Report(cmd[p].input, WholeLedger(cmd[p].input))])
     ELSE Become(p, [pc |-> "release"])
  /\ UNCHANGED <<lockVars, loop, dirKind, planned, dir, planner, writer, rivals>>

(* The status of the report is the one the ledger recovers to.             *)
Anchor(p) ==
  /\ p \in alive /\ cmd[p].pc = "anchor"
  /\ IF dir["ledger"] # NoFile
     THEN Become(p, [pc |-> "md", report |-> Report(cmd[p].input, dir["ledger"])])
     ELSE Become(p, [pc |-> "release"])
  /\ UNCHANGED <<lockVars, loop, dirKind, planned, dir, planner, writer, rivals>>

(* Each of the two files is renamed into place, or the command fails.      *)
RenameReport(p) ==
  /\ p \in alive /\ cmd[p].pc \in {"md", "html"}
  /\ \/ /\ dir' = [dir EXCEPT ![cmd[p].pc] = cmd[p].report]
        /\ Become(p, IF cmd[p].pc = "md" THEN [pc |-> "html"] ELSE [pc |-> "release"])
     \/ UNCHANGED dir /\ Become(p, [pc |-> "release"])
  /\ UNCHANGED <<lockVars, loop, dirKind, planned, planner, writer, rivals>>

-----------------------------------------------------------------------------
ProcessDies(p) ==
  /\ cmd[p].pc \notin {"idle", "done"}
  /\ Die(p)
  /\ Become(p, [pc |-> "dead", todo |-> <<>>, input |-> NoFile, report |-> NoFile])
  /\ UNCHANGED <<loop, dirKind, planned, dir, planner, writer, rivals>>

Command(p) ==
  \/ TakeLock(p) \/ Acquire(p) \/ Hold(p) \/ Assemble(p)
  \/ TruncateFile(p) \/ FillPart(p) \/ FillFile(p) \/ WriteFails(p) \/ Release(p)
  \/ ReadInput(p) \/ Anchor(p) \/ RenameReport(p)

Next ==
  \/ \E k \in Planners : PlanRun(k) \/ MakePlanDir(k) \/ TruncatePlanFile(k) \/ WritePlanFile(k) \/ PlannerDies(k)
  \/ \E p \in Procs : Preflight(p) \/ RawStart(p) \/ BuildReport(p) \/ Command(p) \/ ProcessDies(p)

(* No lock of a run is ever too old (RUN_WRITE_LOCK_OPTIONS): the clock    *)
(* stands.                                                                 *)
Spec == Init /\ [][Next]_vars

(* Bound of the lock: no report build asks for it while another process    *)
(* that lives contends for it; three that contend can all get it           *)
(* (lock.ts:125-129), and a build after a start is a third.                *)
Uncrowded == \A p \in alive : lpc[p] \notin {"contending", "deciding", "stealing", "confirming"}

JoinsUncrowded == (\E p \in Procs : cmd'[p].pc = "joining" /\ cmd[p].pc # "joining") => Uncrowded

OrderlySpec == Init /\ [][Next /\ JoinsUncrowded]_vars

-----------------------------------------------------------------------------
(* A start that answers without an error leaves seven, or six, files that  *)
(* belong together, and a receipt that verifies against the ledger beside  *)
(* it, until another start writes (run/run-dir.ts:40-52).                  *)
AnsweredRunsVerify ==
  \A p \in Procs :
    cmd[p].answer = "ok" /\ cmd[p].pc = "done" /\ writer = p =>
      /\ dir["ledger"] = WholeLedger(p)
      /\ dir["manifest"] = p /\ dir["input"] = p /\ dir["summary"] = p
      /\ dir["md"] = Report(p, dir["ledger"]) /\ dir["html"] = Report(p, dir["ledger"])
      /\ p \in Sealers => Verifies(dir["receipt"], dir["ledger"])

(* However the write of a ledger was cut, run status does not take it for  *)
(* that of a run that has ended (ledger.ts:127-203); and as "a blocking    *)
(* gate that declares nothing to verify cannot be proven" (gates.ts:97), a *)
(* run is completed only when every blocking gate of its loop was proven   *)
(* by its evidence and nothing asks for T5.                                *)
EndedRunsAreProven ==
  /\ Status.state \in {"completed", "held"} => dir["ledger"] = WholeLedger(dir["ledger"].of)
  /\ Status.state = "completed" =>
       /\ ~loop.t5
       /\ \A i \in 1 .. Len(loop.gates) :
            LET g == loop.gates[i] IN
            g.blocking /\ g.id # NoT5.id => g.inputs # {} /\ g.inputs \subseteq cmd[dir["ledger"].of].available

(* A report that is put in place says what the ledger beside it says at    *)
(* that moment (run/run-dir.ts:56-60).                                     *)
ReportsAreAnchored ==
  [][\A p \in Procs, f \in {"md", "html"} :
       cmd[p].pc = f /\ cmd'[p].pc # f /\ dir'[f] # dir[f] =>
         /\ dir'[f].state = Recover(dir["ledger"]).state
         /\ dir'[f].integrity = Recover(dir["ledger"]).integrity]_vars

(* "Existing execution artifacts are never overwritten"                    *)
(* (docs/reference/cli.md:85), of the ledger of a run that has ended.      *)
EndedLedgersStay ==
  [][Terminated(dir["ledger"]) => dir'["ledger"] = dir["ledger"]]_vars

(* All that is true: a ledger that has ended is replaced only by a start   *)
(* that was past its preflight before that ledger was begun                *)
(* (run/preflight.ts:107-122, commands/run/start.ts:159-171).              *)
OnlyRivalsOverwrite ==
  [][Terminated(dir["ledger"]) /\ dir'["ledger"] # dir["ledger"] => writer' \in rivals]_vars

=============================================================================
